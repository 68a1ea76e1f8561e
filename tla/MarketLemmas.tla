---------------------------- MODULE MarketLemmas ----------------------------
(***************************************************************************)
(* Lemmas about the parts of a market: numbers, finite sets and sequences; *)
(* the iterators of a book side; fees; accounts; and the pieces the        *)
(* inductive invariant of MarketInvariant is made of, as matching and the  *)
(* other instructions need them.                                           *)
(***************************************************************************)
EXTENDS MarketInvariant, SequencesExt, FiniteSetTheorems, SequenceTheorems, TLAPS

-----------------------------------------------------------------------------
(* Induction, sums over finite sets, and taking elements out of sequences. *)

\* The sum over a set as an instance of the recursion: it starts at 0 ...
SumStart(g) == 0
\* ... adds the value of one element ...
SumStep(g, sum, x) == g[x] + sum
\* ... and picks the element the library's fold picks.
SumPick(T) == CHOOSE x \in T : TRUE

\* The instance whose fold these three operators define.
Adding == INSTANCE Recursion WITH Start <- SumStart, Step <- SumStep, Pick <- SumPick

\* Induction on the natural numbers, with the induction hypothesis as membership of a set.
LEMMA NatInd ==
  ASSUME NEW S, 0 \in S, \A n \in Nat : n \in S => n + 1 \in S
  PROVE  Nat \subseteq S
BY Adding!NatInd

\* A set of natural numbers that is not empty has a least element.
LEMMA MinExists ==
  ASSUME NEW S \in SUBSET Nat, S # {}
  PROVE  \E i \in S : \A j \in S : i <= j
<1>1. SUFFICES ASSUME \A i \in S : \E j \in S : j < i PROVE FALSE
  OBVIOUS
<1> DEFINE D == {n \in Nat : \A k \in 0 .. n : k \notin S}
<1>2. 0 \in D
  BY <1>1
<1>3. ASSUME NEW n \in Nat, n \in D PROVE n + 1 \in D
  <2>1. n + 1 \notin S
    BY <1>1, <1>3
  <2> QED BY <2>1, <1>3
<1>4. Nat \subseteq D
  <2> HIDE DEF D
  <2> QED BY <1>2, <1>3, NatInd
<1>5. \A n \in Nat : n \notin S
  BY <1>4
<1> QED BY <1>5

\* Induction over the subsets of a finite set, each from those with an element
\* less.
LEMMA FiniteInd ==
  ASSUME NEW S, IsFiniteSet(S), NEW D,
         \A T \in SUBSET S : (\A x \in T : T \ {x} \in D) => T \in D
  PROVE  S \in D
<1> DEFINE N == {n \in Nat : \A T \in SUBSET S : Cardinality(T) = n => T \in D}
<1>0. ASSUME NEW T \in SUBSET S
      PROVE  IsFiniteSet(T) /\ Cardinality(T) \in Nat /\ (Cardinality(T) = 0 <=> T = {})
  BY FS_Subset, FS_CardinalityType, FS_EmptySet
<1>1. 0 \in N
  <2>1. ASSUME NEW T \in SUBSET S, Cardinality(T) = 0 PROVE T \in D
    <3>1. T = {}
      BY <1>0, <2>1
    <3> QED BY <3>1
  <2> QED BY <2>1
<1>2. ASSUME NEW n \in Nat, n \in N PROVE n + 1 \in N
  <2>1. ASSUME NEW T \in SUBSET S, Cardinality(T) = n + 1, NEW x \in T
        PROVE  T \ {x} \in D
    <3>1. IsFiniteSet(T)
      BY <1>0
    <3>2. Cardinality(T \ {x}) = n /\ T \ {x} \in SUBSET S
      BY <2>1, <3>1, FS_RemoveElement
    <3> QED BY <1>2, <3>2
  <2>2. ASSUME NEW T \in SUBSET S, Cardinality(T) = n + 1 PROVE T \in D
    BY <2>1, <2>2
  <2> QED BY <2>2
<1>3. Nat \subseteq N
  <2> HIDE DEF N
  <2> QED BY <1>1, <1>2, NatInd
<1>4. Cardinality(S) \in N
  <2> HIDE DEF N
  <2> QED BY <1>0, <1>3
<1> QED BY <1>4

-----------------------------------------------------------------------------
-----------------------------------------------------------------------------
\* A sequence of members of S, each at most once.
Listing(S) == {s \in Seq(S) : IsInjective(s)}

\* The sequence without its first k elements.
LEMMA DropFacts ==
  ASSUME NEW S, NEW s \in Listing(S), NEW k \in 0 .. Len(s)
  PROVE  /\ SubSeq(s, k + 1, Len(s)) \in Listing(S)
         /\ Range(SubSeq(s, k + 1, Len(s))) \subseteq Range(s)
         /\ \A i \in 1 .. k : s[i] \notin Range(SubSeq(s, k + 1, Len(s)))
<1> DEFINE n == Len(s)
           t == SubSeq(s, k + 1, n)
<1>0. s \in Seq(S) /\ n \in Nat /\ DOMAIN s = 1 .. n /\ k \in 0 .. n
  BY DEF Listing
<1>e. \A i \in 1 .. n : s[i] \in S
  BY <1>0
<1> HIDE DEF n
<1>1. /\ t \in Seq(S) /\ Len(t) = n - k
      /\ \A i \in 1 .. n - k : t[i] = s[k + i]
  <2>1. \A i \in k + 1 .. n : s[i] \in S
    BY <1>0, <1>e
  <2>2. k + 1 \in Int /\ n \in Int /\ n - (k + 1) + 1 = n - k
        /\ (k + 1 > n => n - k = 0)
        /\ \A i \in 1 .. n - k : (k + 1) + i - 1 = k + i
    BY <1>0
  <2>3. /\ t \in Seq(S)
        /\ Len(t) = IF k + 1 <= n THEN n - (k + 1) + 1 ELSE 0
        /\ \A i \in 1 .. n - (k + 1) + 1 : t[i] = s[(k + 1) + i - 1]
    BY <2>1, <2>2, SubSeqProperties
  <2> HIDE DEF t
  <2> QED BY <2>2, <2>3
<1> HIDE DEF t
<1>2. DOMAIN t = 1 .. n - k /\ \A i \in DOMAIN t : k + i \in DOMAIN s /\ t[i] = s[k + i]
  BY <1>0, <1>1
<1>3. \A i, j \in DOMAIN s : s[i] = s[j] => i = j
  BY DEF Listing, IsInjective
<1>4. IsInjective(t)
  <2>1. ASSUME NEW i \in DOMAIN t, NEW j \in DOMAIN t, t[i] = t[j] PROVE i = j
    <3>1. k + i = k + j
      BY <2>1, <1>2, <1>3
    <3> QED BY <3>1, <1>0, <1>2
  <2> QED BY <2>1 DEF IsInjective
<1>5. Range(t) \subseteq Range(s)
  BY <1>2 DEF Range
<1>6. ASSUME NEW i \in 1 .. k, NEW j \in DOMAIN t PROVE s[i] # t[j]
  <2>1. i \in DOMAIN s /\ k + j \in DOMAIN s /\ i # k + j
    BY <1>0, <1>2
  <2> QED BY <2>1, <1>2, <1>3
<1>7. \A i \in 1 .. k : s[i] \notin Range(t)
  BY <1>6 DEF Range
<1> QED BY <1>1, <1>4, <1>5, <1>7 DEF Listing, t, n

\* The tail of a listing of S is a listing of S that has lost exactly its head.
LEMMA TailFacts ==
  ASSUME NEW S, NEW s \in Listing(S), s # << >>
  PROVE  /\ s[1] \in Range(s) /\ s[1] \in S
         /\ Tail(s) \in Listing(S)
         /\ Range(Tail(s)) \subseteq Range(s)
         /\ s[1] \notin Range(Tail(s))
<1>1. s \in Seq(S) /\ Len(s) \in Nat /\ Len(s) >= 1 /\ DOMAIN s = 1 .. Len(s)
  BY DEF Listing
<1>2. Tail(s) = SubSeq(s, 1 + 1, Len(s))
  BY <1>1, TailIsSubSeq
<1>3. 1 \in 0 .. Len(s) /\ 1 \in 1 .. 1 /\ 1 \in DOMAIN s
  BY <1>1
<1>4. s[1] \in Range(s) /\ s[1] \in S
  BY <1>1, <1>3 DEF Range
<1>5. /\ SubSeq(s, 1 + 1, Len(s)) \in Listing(S)
      /\ Range(SubSeq(s, 1 + 1, Len(s))) \subseteq Range(s)
      /\ s[1] \notin Range(SubSeq(s, 1 + 1, Len(s)))
  BY <1>3, DropFacts
<1> QED BY <1>2, <1>4, <1>5

-----------------------------------------------------------------------------
(* Sums *)

\* The library's sum is the fold of the instance.
LEMMA SumIsFold ==
  ASSUME NEW g, NEW T
  PROVE  SumFunctionOnSet(g, T) = Adding!Fold(g, T)
BY DEF SumFunctionOnSet, FoldFunctionOnSet, MapThenFoldSet, Adding!Fold, SumStart, SumStep, SumPick

\* The recursion equations of a sum over a finite set.
LEMMA SumValues ==
  ASSUME NEW g, NEW S, IsFiniteSet(S)
  PROVE  /\ S = {} => SumFunctionOnSet(g, S) = 0
         /\ S # {} => /\ SumPick(S) \in S
                      /\ SumFunctionOnSet(g, S) = g[SumPick(S)] + SumFunctionOnSet(g, S \ {SumPick(S)})
<1>0. Adding!IsFiniteSet(S)
  BY DEF IsFiniteSet, Adding!IsFiniteSet
<1>1. Adding!Picks(S)
  BY DEF Adding!Picks, SumPick
<1>2. S # {} => SumPick(S) \in S
  BY DEF SumPick
<1>3. /\ S = {} => Adding!Fold(g, S) = SumStart(g)
      /\ S # {} => Adding!Fold(g, S) = SumStep(g, Adding!Fold(g, S \ {SumPick(S)}), SumPick(S))
  BY <1>0, <1>1, Adding!FoldValues
<1> QED BY <1>2, <1>3, SumIsFold DEF SumStart, SumStep

\* A sum of integers over a finite set is an integer.
LEMMA SumIsInt ==
  ASSUME NEW g, NEW S, IsFiniteSet(S), \A x \in S : g[x] \in Int
  PROVE  SumFunctionOnSet(g, S) \in Int
<1> DEFINE D == {T \in SUBSET S : SumFunctionOnSet(g, T) \in Int}
<1>1. ASSUME NEW T \in SUBSET S, \A x \in T : T \ {x} \in D PROVE T \in D
  <2>1. IsFiniteSet(T)
    BY FS_Subset
  <2> DEFINE x == SumPick(T)
  <2>2. /\ T = {} => SumFunctionOnSet(g, T) = 0
        /\ T # {} => /\ x \in T
                     /\ SumFunctionOnSet(g, T) = g[x] + SumFunctionOnSet(g, T \ {x})
    BY <2>1, SumValues
  <2> HIDE DEF x
  <2> QED BY <1>1, <2>2
<1> HIDE DEF D
<1>2. S \in D
  BY <1>1, FiniteInd
<1> QED BY <1>2 DEF D

\* The order in which the elements are added does not matter.
LEMMA SumRemove ==
  ASSUME NEW g, NEW S, IsFiniteSet(S), \A x \in S : g[x] \in Int, NEW e \in S
  PROVE  SumFunctionOnSet(g, S) = g[e] + SumFunctionOnSet(g, S \ {e})
<1> DEFINE sum(T) == SumFunctionOnSet(g, T)
           D == {T \in SUBSET S : \A x \in T : sum(T) = g[x] + sum(T \ {x})}
<1>1. ASSUME NEW T \in SUBSET S
      PROVE  /\ sum(T) \in Int
             /\ T # {} => SumPick(T) \in T
                          /\ sum(T) = g[SumPick(T)] + sum(T \ {SumPick(T)})
  <2>1. IsFiniteSet(T)
    BY FS_Subset
  <2> QED BY <2>1, SumValues, SumIsInt
<1> HIDE DEF sum
<1>2. ASSUME NEW T \in SUBSET S, \A x \in T : T \ {x} \in D PROVE T \in D
  <2>1. SUFFICES ASSUME NEW x \in T PROVE sum(T) = g[x] + sum(T \ {x})
    OBVIOUS
  <2> DEFINE p == SumPick(T)
  <2>2. p \in T /\ sum(T) = g[p] + sum(T \ {p})
    BY <1>1
  <2> HIDE DEF p
  <2>3. CASE x = p
    BY <2>2, <2>3
  <2>4. CASE x # p
    <3>1. T \ {p} \in D /\ x \in T \ {p} /\ T \ {x} \in D /\ p \in T \ {x}
      BY <1>2, <2>2, <2>4
    <3>2. sum(T \ {p}) = g[x] + sum((T \ {p}) \ {x})
      BY <3>1
    <3>3. sum(T \ {x}) = g[p] + sum((T \ {x}) \ {p})
      BY <3>1
    <3>4. (T \ {x}) \ {p} = (T \ {p}) \ {x} /\ (T \ {p}) \ {x} \in SUBSET S
      OBVIOUS
    <3> DEFINE rest == sum((T \ {p}) \ {x})
               gx == g[x]
               gp == g[p]
    <3>5. rest \in Int /\ gx \in Int /\ gp \in Int
      <4>1. x \in S /\ p \in S
        BY <2>2
      <4> QED BY <1>1, <3>4, <4>1, Zenon
    <3>6. sum(T) = gp + (gx + rest) /\ sum(T \ {x}) = gp + rest
      BY <2>2, <3>2, <3>3, <3>4
    <3> HIDE DEF rest, gx, gp
    <3>7. sum(T) = gx + sum(T \ {x})
      BY <3>5, <3>6
    <3> QED BY <3>7 DEF gx
  <2> QED BY <2>3, <2>4
<1> HIDE DEF D
<1>3. S \in D
  BY <1>2, FiniteInd
<1> QED BY <1>3 DEF D, sum

\* A renaming of the elements does not change the sum.
LEMMA SumRenamed ==
  ASSUME NEW g, NEW h, NEW S, IsFiniteSet(S), NEW T, NEW f \in [S -> T],
         \A x, y \in S : f[x] = f[y] => x = y,
         \A y \in T : \E x \in S : f[x] = y,
         \A x \in S : g[x] \in Int /\ h[f[x]] = g[x]
  PROVE  SumFunctionOnSet(g, S) = SumFunctionOnSet(h, T)
<1> DEFINE image(U) == {f[x] : x \in U}
           D == {U \in SUBSET S : SumFunctionOnSet(g, U) = SumFunctionOnSet(h, image(U))}
<1>1. ASSUME NEW U \in SUBSET S, \A x \in U : U \ {x} \in D PROVE U \in D
  <2>1. IsFiniteSet(U)
    BY FS_Subset
  <2>2. CASE U = {}
    <3>1. image(U) = {}
      BY <2>2
    <3>2. SumFunctionOnSet(g, {}) = 0 /\ SumFunctionOnSet(h, {}) = 0
      BY FS_EmptySet, SumValues
    <3> QED BY <2>2, <3>1, <3>2
  <2>3. CASE U # {}
    <3>1. PICK x \in U : TRUE
      BY <2>3
    <3>2. SumFunctionOnSet(g, U) = g[x] + SumFunctionOnSet(g, U \ {x})
      BY <2>1, SumRemove
    <3>3. image(U) \ {f[x]} = image(U \ {x}) /\ f[x] \in image(U)
      OBVIOUS
    <3>4. IsFiniteSet(image(U)) /\ \A y \in image(U) : h[y] \in Int
      <4>1. [z \in U |-> f[z]] \in Surjection(U, image(U))
        BY DEF Surjection
      <4>2. IsFiniteSet(image(U))
        <5> HIDE DEF image
        <5> QED BY <2>1, <4>1, FS_Surjection
      <4> QED BY <4>2
    <3> HIDE DEF image
    <3>5. SumFunctionOnSet(h, image(U)) = h[f[x]] + SumFunctionOnSet(h, image(U) \ {f[x]})
      BY <3>3, <3>4, SumRemove
    <3>6. SumFunctionOnSet(g, U \ {x}) = SumFunctionOnSet(h, image(U \ {x}))
      BY <1>1
    <3> QED BY <3>2, <3>3, <3>5, <3>6
  <2> QED BY <2>2, <2>3
<1>2. image(S) = T
  OBVIOUS
<1>3. S \in D
  <2> HIDE DEF D
  <2> QED BY <1>1, FiniteInd
<1> QED BY <1>2, <1>3

\* Two functions that agree on a finite set have the same sum over it.
LEMMA SumEqual ==
  ASSUME NEW g, NEW h, NEW S, IsFiniteSet(S), \A x \in S : g[x] \in Int /\ h[x] = g[x]
  PROVE  SumFunctionOnSet(g, S) = SumFunctionOnSet(h, S)
<1> DEFINE id == [x \in S |-> x]
<1>1. /\ id \in [S -> S]
      /\ \A x, y \in S : id[x] = id[y] => x = y
      /\ \A y \in S : \E x \in S : id[x] = y
      /\ \A x \in S : g[x] \in Int /\ h[id[x]] = g[x]
  OBVIOUS
<1> HIDE DEF id
<1> QED BY <1>1, SumRenamed

\* A sum of numbers that are not negative is at least each of them.
LEMMA SumBounds ==
  ASSUME NEW g, NEW S, IsFiniteSet(S), \A x \in S : g[x] \in Nat
  PROVE  /\ SumFunctionOnSet(g, S) \in Nat
         /\ \A x \in S : g[x] <= SumFunctionOnSet(g, S)
<1> DEFINE sum(T) == SumFunctionOnSet(g, T)
           D == {T \in SUBSET S : sum(T) \in Nat}
<1>1. ASSUME NEW T \in SUBSET S
      PROVE  /\ T = {} => sum(T) = 0
             /\ \A x \in T : sum(T) = g[x] + sum(T \ {x})
  <2>1. IsFiniteSet(T) /\ \A x \in T : g[x] \in Int
    BY FS_Subset
  <2>2. T = {} => sum(T) = 0
    BY <2>1, SumValues
  <2>3. \A x \in T : sum(T) = g[x] + sum(T \ {x})
    BY <2>1, SumRemove
  <2> QED BY <2>2, <2>3
<1> HIDE DEF sum
<1>2. ASSUME NEW T \in SUBSET S, \A x \in T : T \ {x} \in D PROVE T \in D
  <2>1. CASE T = {}
    BY <1>1, <2>1
  <2>2. CASE T # {}
    <3>1. PICK x \in T : TRUE
      BY <2>2
    <3>2. sum(T) = g[x] + sum(T \ {x}) /\ sum(T \ {x}) \in Nat /\ g[x] \in Nat
      BY <1>1, <1>2, <3>1
    <3> QED BY <3>2
  <2> QED BY <2>1, <2>2
<1>3. \A T \in SUBSET S : sum(T) \in Nat
  <2>1. ASSUME NEW T \in SUBSET S PROVE T \in D
    <3>1. IsFiniteSet(T)
      BY FS_Subset
    <3>2. \A U \in SUBSET T : (\A x \in U : U \ {x} \in D) => U \in D
      <4> HIDE DEF D
      <4> QED BY <1>2
    <3> HIDE DEF D
    <3> QED BY <3>1, <3>2, FiniteInd
  <2> QED BY <2>1
<1>4. ASSUME NEW x \in S PROVE g[x] <= sum(S)
  <2>1. S \ {x} \in SUBSET S /\ sum(S) = g[x] + sum(S \ {x})
    BY <1>1
  <2> QED BY <1>3, <2>1
<1> QED BY <1>3, <1>4 DEF sum

\* A sum of zeros is zero.
LEMMA SumOfZeros ==
  ASSUME NEW g, NEW S, IsFiniteSet(S), \A x \in S : g[x] = 0
  PROVE  SumFunctionOnSet(g, S) = 0
<1> DEFINE sum(T) == SumFunctionOnSet(g, T)
           D == {T \in SUBSET S : sum(T) = 0}
<1>1. ASSUME NEW T \in SUBSET S
      PROVE  /\ T = {} => sum(T) = 0
             /\ \A x \in T : sum(T) = g[x] + sum(T \ {x})
  <2>1. IsFiniteSet(T) /\ \A x \in T : g[x] \in Int
    BY FS_Subset
  <2>2. T = {} => sum(T) = 0
    BY <2>1, SumValues
  <2>3. \A x \in T : sum(T) = g[x] + sum(T \ {x})
    BY <2>1, SumRemove
  <2> QED BY <2>2, <2>3
<1> HIDE DEF sum
<1>2. ASSUME NEW T \in SUBSET S, \A x \in T : T \ {x} \in D PROVE T \in D
  <2>1. CASE T = {}
    BY <1>1, <2>1
  <2>2. CASE T # {}
    <3>1. PICK x \in T : TRUE
      BY <2>2
    <3>2. sum(T) = g[x] + sum(T \ {x}) /\ sum(T \ {x}) = 0 /\ g[x] = 0
      BY <1>1, <1>2, <3>1
    <3> QED BY <3>2
  <2> QED BY <2>1, <2>2
<1>3. S \in D
  <2>1. \A U \in SUBSET S : (\A x \in U : U \ {x} \in D) => U \in D
    <3> HIDE DEF D
    <3> QED BY <1>2
  <2> HIDE DEF D
  <2> QED BY <2>1, FiniteInd
<1> QED BY <1>3 DEF sum

\* A sum over a part of a set is the sum over the set of what is 0 elsewhere.
LEMMA SumOfPart ==
  ASSUME NEW g, NEW h, NEW S, IsFiniteSet(S), NEW P \in SUBSET S,
         \A x \in P : g[x] \in Int /\ h[x] = g[x],
         \A x \in S \ P : h[x] = 0
  PROVE  SumFunctionOnSet(g, P) = SumFunctionOnSet(h, S)
<1> DEFINE sum(f, T) == SumFunctionOnSet(f, T)
           D == {T \in SUBSET S : sum(g, T \cap P) = sum(h, T)}
<1>1. ASSUME NEW T \in SUBSET S
      PROVE  /\ T = {} => sum(h, T) = 0
             /\ \A x \in T : sum(h, T) = h[x] + sum(h, T \ {x})
             /\ sum(h, T) \in Int
  <2>1. IsFiniteSet(T) /\ \A x \in T : h[x] \in Int
    BY FS_Subset
  <2>2. T = {} => sum(h, T) = 0
    BY <2>1, SumValues
  <2>3. \A x \in T : sum(h, T) = h[x] + sum(h, T \ {x})
    BY <2>1, SumRemove
  <2>4. sum(h, T) \in Int
    BY <2>1, SumIsInt
  <2> QED BY <2>2, <2>3, <2>4
<1>2. ASSUME NEW T \in SUBSET P
      PROVE  /\ T = {} => sum(g, T) = 0
             /\ \A x \in T : sum(g, T) = g[x] + sum(g, T \ {x})
  <2>1. IsFiniteSet(T) /\ \A x \in T : g[x] \in Int
    BY FS_Subset
  <2>2. T = {} => sum(g, T) = 0
    BY <2>1, SumValues
  <2>3. \A x \in T : sum(g, T) = g[x] + sum(g, T \ {x})
    BY <2>1, SumRemove
  <2> QED BY <2>2, <2>3
<1> HIDE DEF sum
<1>3. ASSUME NEW T \in SUBSET S, \A x \in T : T \ {x} \in D PROVE T \in D
  <2>1. CASE T = {}
    <3>1. T \cap P = {} /\ T \cap P \in SUBSET P
      BY <2>1
    <3>2. sum(g, T \cap P) = 0
      BY <1>2, <3>1
    <3>3. sum(h, T) = 0
      BY <1>1, <2>1
    <3> QED BY <3>2, <3>3
  <2>2. CASE T # {}
    <3>1. PICK x \in T : TRUE
      BY <2>2
    <3>2. sum(h, T) = h[x] + sum(h, T \ {x}) /\ sum(h, T \ {x}) \in Int
      BY <1>1
    <3>3. sum(g, (T \ {x}) \cap P) = sum(h, T \ {x})
      BY <1>3
    <3>4. CASE x \in P
      <4>1. (T \cap P) \ {x} = (T \ {x}) \cap P /\ T \cap P \in SUBSET P /\ x \in T \cap P
        BY <3>4
      <4>2. sum(g, T \cap P) = g[x] + sum(g, (T \ {x}) \cap P)
        BY <1>2, <4>1
      <4>3. sum(g, T \cap P) = sum(h, T)
        BY <3>2, <3>3, <3>4, <4>2
      <4> QED BY <4>3
    <3>5. CASE x \notin P
      <4>1. T \cap P = (T \ {x}) \cap P /\ h[x] = 0
        BY <3>5
      <4>2. sum(h, T) = sum(h, T \ {x})
        BY <3>2, <4>1
      <4>3. sum(g, T \cap P) = sum(h, T)
        BY <3>3, <4>1, <4>2
      <4> QED BY <4>3
    <3> QED BY <3>4, <3>5
  <2> QED BY <2>1, <2>2
<1>4. S \in D
  <2>1. \A U \in SUBSET S : (\A x \in U : U \ {x} \in D) => U \in D
    <3> HIDE DEF D
    <3> QED BY <1>3
  <2> HIDE DEF D
  <2> QED BY <2>1, FiniteInd
<1>5. S \cap P = P
  OBVIOUS
<1> QED BY <1>4, <1>5 DEF sum

\* Numbers that are not negative and add up to zero are all zero.
LEMMA NoSumNoTerms ==
  ASSUME NEW g, NEW S, IsFiniteSet(S), \A x \in S : g[x] \in Nat, SumFunctionOnSet(g, S) = 0
  PROVE  \A x \in S : g[x] = 0
<1>1. \A x \in S : g[x] <= SumFunctionOnSet(g, S)
  BY SumBounds
<1>2. ASSUME NEW x \in S PROVE g[x] = 0
  <2>1. g[x] <= 0 /\ g[x] \in Nat
    BY <1>1
  <2> QED BY <2>1
<1> QED BY <1>2

-----------------------------------------------------------------------------
(***************************************************************************)
(* What the iterators of a side of the book yield: leaves of that side, no *)
(* leaf twice, and only those whose price can be used.  These facts hold   *)
(* for every book whose leaves have numbers of their own; the matching     *)
(* loop depends on them.                                                   *)
(***************************************************************************)

\* A set of leaves that the order of keys makes a sequence of.
Keyed(L) ==
  /\ IsFiniteSet(L)
  /\ \A l \in L : l.price \in Int /\ l.id \in Int /\ l.tree \in Trees
  /\ \A l, k \in L : l.id = k.id => l = k

\* Distinct keys stay distinct in a subset of the leaves.
LEMMA KeyedSubset ==
  ASSUME NEW L, Keyed(L), NEW M \in SUBSET L
  PROVE  Keyed(M)
BY FS_Subset DEF Keyed

-----------------------------------------------------------------------------
(* The order of keys *)

\* The order of two leaves of a side: price first, then the sequence number in the key.
Better(side, l, k) == BetterKey(side, l.price, l.id, k.price, k.id)

\* The order of keys is a strict total order.
LEMMA BetterIsOrder ==
  ASSUME NEW side \in Sides, NEW L, Keyed(L), NEW l \in L, NEW k \in L, NEW j \in L
  PROVE  /\ ~Better(side, l, l)
         /\ Better(side, l, k) /\ Better(side, k, j) => Better(side, l, j)
         /\ l # k => Better(side, l, k) \/ Better(side, k, l)
<1>1. /\ l.price \in Int /\ k.price \in Int /\ j.price \in Int
      /\ l.id \in Int /\ k.id \in Int /\ j.id \in Int
      /\ l.id = k.id => l = k
  BY DEF Keyed
<1> QED BY <1>1 DEF Better, BetterKey, is_price_better, Sides

\* How many leaves are before a leaf.
Rank(side, L, leaf) == Cardinality({l \in L : Better(side, l, leaf)})

\* A rank is below the number of leaves, respects the order, and belongs to one leaf only.
LEMMA RankFacts ==
  ASSUME NEW side \in Sides, NEW L, Keyed(L)
  PROVE  /\ Cardinality(L) \in Nat
         /\ \A l \in L : Rank(side, L, l) \in 0 .. Cardinality(L) - 1
         /\ \A l, k \in L : Better(side, l, k) => Rank(side, L, l) < Rank(side, L, k)
         /\ \A l, k \in L : Rank(side, L, l) = Rank(side, L, k) => l = k
<1> DEFINE before(k) == {l \in L : Better(side, l, k)}
<1>0. IsFiniteSet(L) /\ Cardinality(L) \in Nat
  BY FS_CardinalityType DEF Keyed
<1>1. ASSUME NEW k \in L
      PROVE  /\ before(k) \in SUBSET L /\ IsFiniteSet(before(k))
             /\ Cardinality(before(k)) \in Nat /\ k \notin before(k)
  <2>1. before(k) \in SUBSET L /\ k \notin before(k)
    BY BetterIsOrder
  <2> HIDE DEF before
  <2> QED BY <2>1, <1>0, FS_Subset, FS_CardinalityType
<1>2. ASSUME NEW l \in L, NEW k \in L, Better(side, l, k)
      PROVE  Cardinality(before(l)) < Cardinality(before(k))
  <2>1. before(l) \in SUBSET before(k)
    BY <1>2, BetterIsOrder
  <2>2. l \in before(k) /\ l \notin before(l)
    BY <1>1, <1>2
  <2> HIDE DEF before
  <2> QED BY <1>1, <2>1, <2>2, FS_Subset
<1>3. ASSUME NEW k \in L
      PROVE  Cardinality(before(k)) \in 0 .. Cardinality(L) - 1
  <2> HIDE DEF before
  <2> QED BY <1>0, <1>1, FS_Subset
<1>4. \A k : Rank(side, L, k) = Cardinality(before(k))
  BY DEF Rank
<1> HIDE DEF before
<1>5. ASSUME NEW l \in L, NEW k \in L, l # k
      PROVE  Rank(side, L, l) # Rank(side, L, k)
  BY <1>1, <1>2, <1>4, <1>5, BetterIsOrder
<1> QED BY <1>0, <1>2, <1>3, <1>4, <1>5

\* The iterator of a tree yields each of its leaves once.
LEMMA InOrderFacts ==
  ASSUME NEW side \in Sides, NEW L, Keyed(L)
  PROVE  /\ InOrder(side, L) \in Seq(L)
         /\ Len(InOrder(side, L)) = Cardinality(L)
         /\ IsInjective(InOrder(side, L))
<1> DEFINE n == Cardinality(L)
           rank == [l \in L |-> Rank(side, L, l)]
           s == InOrder(side, L)
<1>1. n \in Nat /\ IsFiniteSet(0 .. n - 1) /\ Cardinality(0 .. n - 1) = n
  <2>1. n \in Nat /\ 0 \in Int /\ n - 1 \in Int /\ (0 > n - 1 => n = 0)
    BY RankFacts
  <2> HIDE DEF n
  <2> QED BY <2>1, FS_Interval
<1>2. rank \in Injection(L, 0 .. n - 1)
  <2>1. rank \in [L -> 0 .. n - 1] /\ \A l, k \in L : rank[l] = rank[k] => l = k
    BY RankFacts
  <2> HIDE DEF rank, n
  <2> QED BY <2>1 DEF Injection, IsInjective
<1>3. rank \in Surjection(L, 0 .. n - 1)
  <2> HIDE DEF rank
  <2> QED BY <1>1, <1>2, FS_Injection
<1>4. ASSUME NEW i \in 1 .. n
      PROVE  \E l \in L : Rank(side, L, l) = i - 1
  <2>1. i - 1 \in 0 .. n - 1
    BY <1>1
  <2>2. \E l \in L : rank[l] = i - 1
    <3> HIDE DEF rank, n
    <3> QED BY <1>3, <2>1 DEF Surjection
  <2> QED BY <2>2
<1>5. s = [i \in 1 .. n |-> CHOOSE l \in L : Rank(side, L, l) = i - 1]
  BY DEF InOrder, Rank, Better
<1>6. ASSUME NEW i \in 1 .. n
      PROVE  s[i] \in L /\ Rank(side, L, s[i]) = i - 1
  <2>1. s[i] = CHOOSE l \in L : Rank(side, L, l) = i - 1
    BY <1>5
  <2> HIDE DEF s, n
  <2> QED BY <1>4, <2>1
<1>7. s \in Seq(L) /\ Len(s) = n /\ DOMAIN s = 1 .. n
  <2>1. DOMAIN s = 1 .. n /\ s = [i \in 1 .. n |-> s[i]]
    BY <1>5
  <2> HIDE DEF s, n
  <2> QED BY <1>1, <1>6, <2>1
<1>8. ASSUME NEW i \in 1 .. n, NEW j \in 1 .. n, s[i] = s[j] PROVE i = j
  <2>1. i - 1 = j - 1
    BY <1>6, <1>8
  <2> QED BY <2>1, <1>1
<1> HIDE DEF s, n
<1>9. IsInjective(s)
  BY <1>7, <1>8 DEF IsInjective
<1> QED BY <1>7, <1>9 DEF s, n

-----------------------------------------------------------------------------
(* The iterator over both trees *)

\* The leaves of a side's two trees.
Fixed(L) == {l \in L : l.tree = "Fixed"}
\* The leaves of the oracle-pegged tree.
Pegged(L) == {l \in L : l.tree = "OraclePegged"}

\* A leaf that has a price.
Priced(side, leaf, feed) ==
  leaf.tree = "OraclePegged" =>
    feed # NoPrice /\ oracle_pegged_price(side, leaf, feed).state # "Skipped"

\* The state of the iterator: what its tree iterators have left and what it
\* yielded, no leaf of which is left.
ItOk(side, L, feed, clock, it) ==
  /\ it.fixed \in Listing(Fixed(L))
  /\ it.pegged \in Listing(Pegged(L))
  /\ it.out \in Seq({Item(side, l, feed, clock) : l \in L})
  /\ \A i \in 1 .. Len(it.out) :
       /\ Priced(side, it.out[i].leaf, feed)
       /\ it.out[i].leaf \notin Range(it.fixed) \cup Range(it.pegged)
  /\ \A i, j \in 1 .. Len(it.out) : it.out[i].leaf = it.out[j].leaf => i = j

\* What the iterator yields for a leaf still names that leaf.
LEMMA ItemFacts ==
  ASSUME NEW side, NEW leaf, NEW feed, NEW clock
  PROVE  Item(side, leaf, feed, clock).leaf = leaf
BY DEF Item

\* What the peek at the pegged tree finds, and what is left.
LEMMA PeekFacts ==
  ASSUME NEW side, NEW S, NEW s \in Listing(S), NEW feed
  PROVE  LET o == PeekPegged(side, s, feed)
         IN  /\ o.rest \in Listing(S) /\ Range(o.rest) \subseteq Range(s)
             /\ o.peek # << >> =>
                  /\ o.peek[1] \in Range(s) /\ o.peek[1] \in S
                  /\ feed # NoPrice
                  /\ oracle_pegged_price(side, o.peek[1], feed).state # "Skipped"
                  /\ o.rest # << >> =>
                       Tail(o.rest) \in Listing(S)
                       /\ Range(Tail(o.rest)) \subseteq Range(s) \ {o.peek[1]}
                  /\ o.rest = << >> => Range(o.rest) \subseteq Range(s) \ {o.peek[1]}
<1> DEFINE skipped(leaf) == oracle_pegged_price(side, leaf, feed).state = "Skipped"
           found == {i \in DOMAIN s : ~skipped(s[i])}
           first == CHOOSE i \in found : \A j \in found : i <= j
           o == PeekPegged(side, s, feed)
<1>0. s \in Seq(S) /\ Len(s) \in Nat /\ DOMAIN s = 1 .. Len(s)
  BY DEF Listing
<1>1. CASE feed = NoPrice
  <2>1. o = [peek |-> << >>, rest |-> s]
    BY <1>1 DEF PeekPegged
  <2> HIDE DEF o
  <2> QED BY <2>1 DEF o
<1>2. CASE feed # NoPrice /\ found = {}
  <2>1. o = [peek |-> << >>, rest |-> << >>]
    BY <1>2 DEF PeekPegged
  <2>2. << >> \in Listing(S) /\ Range(<< >>) = {}
    BY DEF Listing, Range, IsInjective
  <2> HIDE DEF o
  <2> QED BY <2>1, <2>2 DEF o
<1>3. CASE feed # NoPrice /\ found # {}
  <2>1. first \in DOMAIN s /\ ~skipped(s[first])
    <3>1. found \subseteq Nat
      BY <1>0
    <3>2. \E i \in found : \A j \in found : i <= j
      <4> HIDE DEF found
      <4> QED BY <1>3, <3>1, MinExists
    <3>3. first \in found
      <4> HIDE DEF found
      <4> QED BY <3>2
    <3> QED BY <3>3
  <2>2. o = [peek |-> <<s[first]>>,
             rest |-> SubSeq(s, IF first = 1 THEN 1 ELSE first + 1, Len(s))]
    BY <1>3 DEF PeekPegged
  <2> HIDE DEF o, first, found, skipped
  <2>3. o.peek[1] = s[first] /\ o.peek # << >> /\ s[first] \in Range(s) /\ s[first] \in S
    BY <1>0, <2>1, <2>2 DEF Range
  <2>4. CASE first = 1
    <3>1. o.rest = s
      BY <1>0, <2>2, <2>4
    <3>2. s # << >>
      BY <1>0, <2>1
    <3> QED BY <1>3, <2>1, <2>3, <2>4, <3>1, <3>2, TailFacts DEF o, skipped
  <2>5. CASE first # 1
    <3>1. o.rest = SubSeq(s, first + 1, Len(s)) /\ first \in 0 .. Len(s) /\ first \in 1 .. first
      BY <1>0, <2>1, <2>2, <2>5
    <3>2. /\ SubSeq(s, first + 1, Len(s)) \in Listing(S)
          /\ Range(SubSeq(s, first + 1, Len(s))) \subseteq Range(s)
          /\ s[first] \notin Range(SubSeq(s, first + 1, Len(s)))
      BY <3>1, DropFacts
    <3>4. o.rest \in Listing(S) /\ Range(o.rest) \subseteq Range(s) \ {s[first]}
      BY <3>1, <3>2
    <3>3. o.rest # << >> => Tail(o.rest) \in Listing(S) /\ Range(Tail(o.rest)) \subseteq Range(o.rest)
      BY <3>4, TailFacts
    <3> QED BY <1>3, <2>1, <2>3, <3>4, <3>3 DEF o, skipped
  <2> QED BY <2>4, <2>5
<1> QED BY <1>1, <1>2, <1>3

\* Of the heads of two sequences, rank_orders takes one that is there.
LEMMA RankOrdersFacts ==
  ASSUME NEW side, NEW fixed, NEW pegged, NEW return_worse, NEW feed
  PROVE  LET tree == rank_orders(side, fixed, pegged, return_worse, feed)
         IN  /\ tree \in {"None", "Fixed", "OraclePegged"}
             /\ tree = "Fixed" => fixed # << >>
             /\ tree = "OraclePegged" => pegged # << >>
             /\ tree = "None" => fixed = << >> /\ pegged = << >>
<1> DEFINE price == oracle_pegged_price(side, pegged[1], feed).price
           better == BetterKey(side, fixed[1].price, fixed[1].id, price, pegged[1].id)
<1> HIDE DEF better
<1>1. rank_orders(side, fixed, pegged, return_worse, feed) =
        IF fixed = << >> /\ pegged = << >> THEN "None"
        ELSE IF pegged = << >> THEN "Fixed"
        ELSE IF fixed = << >> THEN "OraclePegged"
        ELSE IF better # return_worse THEN "Fixed" ELSE "OraclePegged"
  BY DEF rank_orders, better
<1> QED BY <1>1

\* What the iterator yields next is a leaf of a tree that it leaves behind.
LEMMA YieldFacts ==
  ASSUME NEW side, NEW L, NEW feed, NEW clock, NEW it, ItOk(side, L, feed, clock, it),
         NEW leaf \in L, Priced(side, leaf, feed),
         leaf \in Range(it.fixed) \cup Range(it.pegged),
         NEW fixed \in Listing(Fixed(L)), NEW pegged \in Listing(Pegged(L)),
         Range(fixed) \cup Range(pegged) \subseteq (Range(it.fixed) \cup Range(it.pegged)) \ {leaf}
  PROVE  ItOk(side, L, feed, clock,
              [fixed |-> fixed, pegged |-> pegged,
               out |-> Append(it.out, Item(side, leaf, feed, clock))])
<1> DEFINE Items == {Item(side, l, feed, clock) : l \in L}
           item == Item(side, leaf, feed, clock)
           out == Append(it.out, item)
           n == Len(it.out)
<1>1. it.out \in Seq(Items) /\ item \in Items /\ item.leaf = leaf
  BY ItemFacts DEF ItOk
<1> HIDE DEF Items, item
<1>2. /\ out \in Seq(Items) /\ n \in Nat /\ Len(out) = n + 1
      /\ \A i \in 1 .. n : out[i] = it.out[i]
      /\ out[n + 1] = item
  BY <1>1, AppendProperties
<1> HIDE DEF out
<1>3. \A i \in 1 .. Len(out) : i \in 1 .. n \/ i = n + 1
  BY <1>2
<1>4. \A i \in 1 .. n :
        /\ Priced(side, it.out[i].leaf, feed)
        /\ it.out[i].leaf \notin Range(it.fixed) \cup Range(it.pegged)
  BY DEF ItOk
<1>5. \A i, j \in 1 .. n : it.out[i].leaf = it.out[j].leaf => i = j
  BY DEF ItOk
<1> HIDE DEF n
<1>6. ASSUME NEW i \in 1 .. Len(out)
      PROVE  /\ Priced(side, out[i].leaf, feed)
             /\ out[i].leaf \notin Range(fixed) \cup Range(pegged)
  BY <1>1, <1>2, <1>3, <1>4
<1>7. ASSUME NEW i \in 1 .. Len(out), NEW j \in 1 .. Len(out), out[i].leaf = out[j].leaf
      PROVE  i = j
  <2>1. CASE i \in 1 .. n /\ j \in 1 .. n
    BY <1>2, <1>5, <1>7, <2>1
  <2>2. CASE i = n + 1 /\ j \in 1 .. n
    BY <1>1, <1>2, <1>4, <1>7, <2>2
  <2>3. CASE j = n + 1 /\ i \in 1 .. n
    BY <1>1, <1>2, <1>4, <1>7, <2>3
  <2> QED BY <1>3, <2>1, <2>2, <2>3
<1> DEFINE next == [fixed |-> fixed, pegged |-> pegged, out |-> out]
<1>8. next.fixed = fixed /\ next.pegged = pegged /\ next.out = out
  OBVIOUS
<1>9. ItOk(side, L, feed, clock, next)
  <2> HIDE DEF next
  <2> QED BY <1>2, <1>6, <1>7, <1>8 DEF ItOk, Items
<1> QED BY <1>9 DEF out, item

\* Each call of the iterator keeps to what ItOk says.
LEMMA NextItemFacts ==
  ASSUME NEW side, NEW L, NEW feed, NEW clock, NEW it, ItOk(side, L, feed, clock, it)
  PROVE  ItOk(side, L, feed, clock, NextItem(side, it, feed, clock))
<1> DEFINE o == PeekPegged(side, it.pegged, feed)
           tree == rank_orders(side, it.fixed, o.peek, FALSE, feed)
           F == Fixed(L)
           P == Pegged(L)
<1>1. it.fixed \in Listing(F) /\ it.pegged \in Listing(P)
  BY DEF ItOk
<1>2. /\ o.rest \in Listing(P) /\ Range(o.rest) \subseteq Range(it.pegged)
      /\ o.peek # << >> =>
           /\ o.peek[1] \in Range(it.pegged) /\ o.peek[1] \in P
           /\ feed # NoPrice
           /\ oracle_pegged_price(side, o.peek[1], feed).state # "Skipped"
           /\ o.rest # << >> =>
                Tail(o.rest) \in Listing(P)
                /\ Range(Tail(o.rest)) \subseteq Range(it.pegged) \ {o.peek[1]}
           /\ o.rest = << >> => Range(o.rest) \subseteq Range(it.pegged) \ {o.peek[1]}
  <2> HIDE DEF P
  <2> QED BY <1>1, PeekFacts
<1>3. /\ tree \in {"None", "Fixed", "OraclePegged"}
      /\ tree = "Fixed" => it.fixed # << >>
      /\ tree = "OraclePegged" => o.peek # << >>
  BY RankOrdersFacts
<1>4. Range(it.fixed) \subseteq F /\ Range(it.pegged) \subseteq P
  BY <1>1 DEF Listing, Range
<1>5. F \cap P = {} /\ F \subseteq L /\ P \subseteq L
  BY DEF Fixed, Pegged
<1>n. NextItem(side, it, feed, clock) =
        CASE tree = "None" -> it
          [] tree = "Fixed" ->
               [fixed |-> Tail(it.fixed), pegged |-> o.rest,
                out |-> Append(it.out, Item(side, it.fixed[1], feed, clock))]
          [] tree = "OraclePegged" ->
               [fixed |-> it.fixed, pegged |-> IF o.rest = << >> THEN o.rest ELSE Tail(o.rest),
                out |-> Append(it.out, Item(side, o.peek[1], feed, clock))]
  BY DEF NextItem
<1> HIDE DEF o, tree
<1>6. CASE tree = "None"
  BY <1>n, <1>6
<1>7. CASE tree = "Fixed"
  <2>1. /\ it.fixed[1] \in Range(it.fixed) /\ it.fixed[1] \in F
        /\ Tail(it.fixed) \in Listing(F)
        /\ Range(Tail(it.fixed)) \subseteq Range(it.fixed) \ {it.fixed[1]}
    <3> HIDE DEF F
    <3> QED BY <1>1, <1>3, <1>7, TailFacts
  <2>2. Priced(side, it.fixed[1], feed)
    BY <2>1 DEF Priced, Fixed
  <2>3. it.fixed[1] \in L
        /\ Range(Tail(it.fixed)) \cup Range(o.rest)
             \subseteq (Range(it.fixed) \cup Range(it.pegged)) \ {it.fixed[1]}
    <3> HIDE DEF F, P
    <3> QED BY <2>1, <1>2, <1>4, <1>5
  <2>4. NextItem(side, it, feed, clock) =
          [fixed |-> Tail(it.fixed), pegged |-> o.rest,
           out |-> Append(it.out, Item(side, it.fixed[1], feed, clock))]
    BY <1>n, <1>7
  <2> QED BY <1>2, <2>1, <2>2, <2>3, <2>4, YieldFacts
<1>8. CASE tree = "OraclePegged"
  <2> DEFINE rest == IF o.rest = << >> THEN o.rest ELSE Tail(o.rest)
  <2>1. /\ o.peek[1] \in Range(it.pegged) /\ o.peek[1] \in P
        /\ rest \in Listing(P) /\ Range(rest) \subseteq Range(it.pegged) \ {o.peek[1]}
    <3> HIDE DEF P
    <3> QED BY <1>2, <1>3, <1>8
  <2>2. Priced(side, o.peek[1], feed)
    BY <1>2, <1>3, <1>8 DEF Priced
  <2>4. NextItem(side, it, feed, clock) =
          [fixed |-> it.fixed, pegged |-> rest,
           out |-> Append(it.out, Item(side, o.peek[1], feed, clock))]
    BY <1>n, <1>8
  <2> HIDE DEF rest
  <2>3. o.peek[1] \in L
        /\ Range(it.fixed) \cup Range(rest)
             \subseteq (Range(it.fixed) \cup Range(it.pegged)) \ {o.peek[1]}
    <3> HIDE DEF F, P
    <3> QED BY <2>1, <1>4, <1>5
  <2> QED BY <1>1, <2>1, <2>2, <2>3, <2>4, YieldFacts
<1> QED BY <1>3, <1>6, <1>7, <1>8

-----------------------------------------------------------------------------
\* The iterator over both trees as an instance of the recursion: it starts at both best
\* leaves ...
WalkStart(p) ==
  [fixed  |-> InOrder(p.side, LeavesOf(p.bs, "Fixed")),
   pegged |-> InOrder(p.side, LeavesOf(p.bs, "OraclePegged")),
   out    |-> << >>]
\* ... and each step yields the better of the two current ones.
WalkStep(p, it, n) == NextItem(p.side, it, p.feed, p.clock)

\* The instance whose fold these operators define.
Walk == INSTANCE Recursion WITH Start <- WalkStart, Step <- WalkStep, Pick <- Max

\* Every leaf that iter_all yields is on the side, has a price, and is yielded
\* once.
THEOREM IterAllFacts ==
  ASSUME NEW side \in Sides, NEW bs, Keyed(bs.leaves), NEW feed, NEW clock
  PROVE  LET items == iter_all(side, bs, feed, clock)
         IN  /\ items \in Seq({Item(side, l, feed, clock) : l \in bs.leaves})
             /\ \A i \in 1 .. Len(items) : Priced(side, items[i].leaf, feed)
             /\ \A i, j \in 1 .. Len(items) : items[i].leaf = items[j].leaf => i = j
<1> DEFINE p == [side |-> side, bs |-> bs, feed |-> feed, clock |-> clock]
           walk == Walk!Iter(p)
           L == bs.leaves
           S == {n \in Nat : ItOk(side, L, feed, clock, walk[n])}
<1>1. iter_all(side, bs, feed, clock) = walk[Cardinality(L)].out
  BY DEF iter_all, Walk!Iter, WalkStart, WalkStep
<1>2. /\ walk[0] = WalkStart(p)
      /\ \A n \in Nat : walk[n + 1] = WalkStep(p, walk[n], n + 1)
  BY Walk!IterValues
<1> HIDE DEF walk
<1>3. 0 \in S
  <2>1. /\ LeavesOf(bs, "Fixed") = Fixed(L) /\ LeavesOf(bs, "OraclePegged") = Pegged(L)
        /\ Fixed(L) \in SUBSET L /\ Pegged(L) \in SUBSET L
    BY DEF LeavesOf, Fixed, Pegged
  <2>2. InOrder(side, Fixed(L)) \in Listing(Fixed(L))
        /\ InOrder(side, Pegged(L)) \in Listing(Pegged(L))
    BY <2>1, KeyedSubset, InOrderFacts DEF Listing
  <2>3. /\ walk[0].fixed = InOrder(side, Fixed(L))
        /\ walk[0].pegged = InOrder(side, Pegged(L))
        /\ walk[0].out = << >>
    BY <1>2, <2>1 DEF WalkStart
  <2>4. ItOk(side, L, feed, clock, walk[0])
    BY <2>2, <2>3 DEF ItOk
  <2> QED BY <2>4
<1>4. ASSUME NEW n \in Nat, n \in S PROVE n + 1 \in S
  <2>1. ItOk(side, L, feed, clock, NextItem(side, walk[n], feed, clock))
    BY <1>4, NextItemFacts
  <2>2. walk[n + 1] = NextItem(side, walk[n], feed, clock)
    BY <1>2 DEF WalkStep
  <2> QED BY <2>1, <2>2
<1>5. Nat \subseteq S
  <2> HIDE DEF S
  <2> QED BY <1>3, <1>4, NatInd
<1>6. Cardinality(L) \in Nat
  BY FS_CardinalityType DEF Keyed
<1>7. ItOk(side, L, feed, clock, walk[Cardinality(L)])
  BY <1>5, <1>6
<1> QED BY <1>1, <1>7 DEF ItOk

\* Integer division by a positive number, as a bound on both sides.
LEMMA DivFacts ==
  ASSUME NEW a \in Int, NEW n \in Nat \ {0}
  PROVE  /\ a \div n \in Int /\ (a \div n) * n <= a /\ a < (a \div n) * n + n
         /\ a >= 0 => a \div n >= 0
OBVIOUS

\* Integer division is monotone.
LEMMA DivMonotone ==
  ASSUME NEW a \in Int, NEW b \in Int, NEW n \in Nat \ {0}, a <= b
  PROVE  a \div n <= b \div n
<1> DEFINE qa == a \div n
           qb == b \div n
<1>1. qa \in Int /\ qb \in Int /\ qa * n <= a /\ b < qb * n + n
  BY DivFacts
<1> HIDE DEF qa, qb
<1>2. SUFFICES ASSUME qa >= qb + 1 PROVE FALSE
  BY <1>1 DEF qa, qb
<1>3. qa * n >= (qb + 1) * n
  BY <1>1, <1>2
<1>4. (qb + 1) * n = qb * n + n
  BY <1>1
<1> QED BY <1>1, <1>3, <1>4

\* Dividing two parts separately never yields more than dividing their sum.
LEMMA DivParts ==
  ASSUME NEW a \in Int, NEW b \in Int, NEW n \in Nat \ {0}
  PROVE  (a \div n) + (b \div n) <= (a + b) \div n
<1> DEFINE qa == a \div n
           qb == b \div n
           q == (a + b) \div n
<1>1. /\ qa \in Int /\ qb \in Int /\ qa * n <= a /\ qb * n <= b
  BY DivFacts
<1>2. a + b \in Int
  OBVIOUS
<1>3. q \in Int /\ a + b < q * n + n
  BY <1>2, DivFacts
<1> HIDE DEF qa, qb, q
<1>4. SUFFICES ASSUME qa + qb >= q + 1 PROVE FALSE
  BY <1>1, <1>3 DEF qa, qb, q
<1>5. (qa + qb) * n >= (q + 1) * n
  BY <1>1, <1>3, <1>4
<1>6. (q + 1) * n = q * n + n /\ (qa + qb) * n = qa * n + qb * n
  BY <1>1, <1>3
<1>7. qa * n \in Int /\ qb * n \in Int /\ q * n \in Int
  BY <1>1, <1>3
<1> QED BY <1>1, <1>3, <1>5, <1>6, <1>7

\* A fraction of an amount is at most the amount.
LEMMA DivAtMost ==
  ASSUME NEW a \in Nat, NEW m \in Nat, NEW n \in Nat \ {0}, m <= n
  PROVE  (a * m) \div n <= a
<1>1. a * m \in Int /\ a * m <= a * n /\ a * n \in Int
  OBVIOUS
<1>2. (a * m) \div n <= (a * n) \div n
  BY <1>1, DivMonotone
<1>3. (a * n) \div n = a
  OBVIOUS
<1> QED BY <1>1, <1>2, <1>3, DivFacts

\* Maker fees and rebates of an amount: natural numbers, the floor at most the amount and at
\* most the ceiling.
LEMMA FeeFacts ==
  ASSUME NEW x \in Nat
  PROVE  /\ maker_fees_floor(x) \in Nat /\ maker_fees_floor(x) <= x
         /\ maker_fees_ceil(x) \in Nat /\ maker_fees_floor(x) <= maker_fees_ceil(x)
         /\ maker_rebate_floor(x) \in Nat
<1> DEFINE S == FEES_SCALE_FACTOR
           f == maker_fee
<1>0. S \in Nat \ {0} /\ f \in Int /\ f <= S /\ -f <= S
  BY FeeAssumption
<1> HIDE DEF S, f
<1>1. CASE f > 0
  <2>1. f \in Nat /\ x * f \in Int /\ x * f >= 0
    BY <1>0, <1>1
  <2> DEFINE p == x * f
  <2>2. (x * f) \div S \in Int /\ (x * f) \div S >= 0 /\ (x * f) \div S <= x
    BY <1>0, <2>1, DivAtMost, DivFacts
  <2>3. p \in Int /\ p >= 0
    BY <2>1
  <2> HIDE DEF p
  <2>4. p + S - 1 \in Int /\ p <= p + S - 1
    BY <2>3, <1>0
  <2>5. p \div S <= (p + S - 1) \div S /\ (p + S - 1) \div S \in Int /\ p \div S \in Int /\ p \div S >= 0
    BY <1>0, <2>3, <2>4, DivMonotone, DivFacts
  <2>6. maker_fees_floor(x) = p \div S
    BY <1>1 DEF maker_fees_floor, p, S, f
  <2>7. maker_fees_ceil(x) = (p + S - 1) \div S
    BY <1>1 DEF maker_fees_ceil, ceil_fee_division, p, S, f
  <2>8. maker_rebate_floor(x) = 0
    BY <1>1 DEF maker_rebate_floor, S, f
  <2>9. p \div S <= x
    BY <2>2 DEF p
  <2> QED BY <2>5, <2>6, <2>7, <2>8, <2>9
<1>2. CASE ~(f > 0)
  <2>1. maker_fees_floor(x) = 0 /\ maker_fees_ceil(x) = 0
    BY <1>2 DEF maker_fees_floor, maker_fees_ceil, f
  <2>2. maker_rebate_floor(x) = (x * (-f)) \div S
    BY <1>2 DEF maker_rebate_floor, f, S
  <2>3. -f \in Nat
    BY <1>0, <1>2
  <2> DEFINE g == -f
  <2> HIDE DEF g
  <2>4. g \in Nat
    BY <2>3 DEF g
  <2>5. x * g \in Int /\ x * g >= 0
    BY <2>4
  <2>6. (x * g) \div S \in Int /\ (x * g) \div S >= 0
    BY <1>0, <2>5, DivFacts
  <2> QED BY <2>1, <2>2, <2>6 DEF g
<1> QED BY <1>1, <1>2

\* The fee reserved for a whole covers the fee taken for one part and the one reserved for
\* the other; fees grow with the amount.
LEMMA FeeParts ==
  ASSUME NEW x \in Nat, NEW y \in Nat
  PROVE  /\ maker_fees_ceil(x) + maker_fees_floor(y) <= maker_fees_ceil(x + y)
         /\ x <= y => maker_fees_floor(x) <= maker_fees_floor(y)
<1> DEFINE S == FEES_SCALE_FACTOR
           f == maker_fee
<1>0. S \in Nat \ {0} /\ f \in Int
  BY FeeAssumption
<1> HIDE DEF S, f
<1>1. CASE f > 0
  <2> DEFINE a == x * f
             b == y * f
             c == (x + y) * f
  <2>1. a \in Int /\ b \in Int /\ c \in Int /\ c = a + b
    BY <1>0
  <2>2. x <= y => a <= b
    BY <1>0, <1>1
  <2>3. maker_fees_ceil(x) = (a + S - 1) \div S /\ maker_fees_floor(y) = b \div S
        /\ maker_fees_ceil(x + y) = (c + S - 1) \div S /\ maker_fees_floor(x) = a \div S
    BY <1>1 DEF maker_fees_floor, maker_fees_ceil, ceil_fee_division, f, S
  <2> HIDE DEF a, b, c
  <2>4. a + S - 1 \in Int /\ (a + S - 1) + b = c + S - 1
    BY <1>0, <2>1
  <2>5. (a + S - 1) \div S + b \div S <= (c + S - 1) \div S
    BY <1>0, <2>1, <2>4, DivParts
  <2>6. x <= y => a \div S <= b \div S
    BY <1>0, <2>1, <2>2, DivMonotone
  <2> QED BY <2>3, <2>5, <2>6
<1>2. CASE ~(f > 0)
  BY <1>2 DEF maker_fees_floor, maker_fees_ceil, f
<1> QED BY <1>1, <1>2

\* What a fill event makes its maker pay and receive.
LEMMA FillTermsFacts ==
  ASSUME NEW e \in FillEvents, EventOk(e)
  PROVE  LET t == FillTerms(e)
             locked == e.quantity * t.locked_price * quote_lot_size
         IN  /\ t.side \in Sides /\ t.side = invert_side(e.taker_side)
             /\ t.quote \in Nat /\ t.quote = e.quantity * e.price * quote_lot_size
             /\ t.fees \in Nat /\ t.fees <= t.quote
             /\ t.rebate \in Nat
             /\ t.rebate = IF e.maker = e.taker THEN 0 ELSE maker_rebate_floor(t.quote)
             /\ t.locked_price \in Nat \ {0}
             /\ t.locked_price = IF e.peg_limit # NoPegLimit /\ t.side = "Bid"
                                 THEN e.peg_limit ELSE e.price
             /\ t.locked_fees \in Nat
             /\ t.side = "Bid" => t.locked_fees <= maker_fees_floor(locked)
             /\ locked \in Nat
             /\ t.side = "Bid" => t.above_fill_price = (locked - t.quote) + (t.locked_fees - t.fees)
             /\ t.side = "Bid" => t.above_fill_price \in Nat
<1> DEFINE t == FillTerms(e)
           side == IF e.taker_side = "Bid" THEN "Ask" ELSE "Bid"
           self == e.maker = e.taker
           quote == e.quantity * e.price * quote_lot_size
           fees == IF self THEN 0 ELSE maker_fees_floor(quote)
           pegged_bid == e.peg_limit # -1 /\ side = "Bid"
           price == IF pegged_bid THEN e.peg_limit ELSE e.price
           locked == e.quantity * price * quote_lot_size
           locked_fees == IF pegged_bid THEN maker_fees_floor(locked) ELSE fees
<1>1. /\ e.taker_side \in Sides /\ e.price \in Nat \ {0} /\ e.quantity \in Nat \ {0}
      /\ e.peg_limit \in Int
      /\ e.peg_limit = NoPegLimit \/ e.peg_limit >= 1
      /\ e.taker_side = "Ask" /\ e.peg_limit # NoPegLimit => e.price <= e.peg_limit
  BY DEF FillEvents, EventOk, OutEvents
<1>2. /\ t.side = side /\ t.quote = quote /\ t.fees = fees
      /\ t.rebate = IF self THEN 0 ELSE maker_rebate_floor(quote)
      /\ t.locked_price = price /\ t.locked_fees = locked_fees
      /\ t.above_fill_price = (locked - quote) + (locked_fees - fees)
  BY DEF FillTerms
<1>3. side \in Sides /\ side = invert_side(e.taker_side)
  BY <1>1 DEF Sides, invert_side
<1>4. price \in Nat \ {0} /\ (side = "Bid" => e.price <= price)
      /\ (pegged_bid <=> e.peg_limit # NoPegLimit /\ side = "Bid")
  BY <1>1 DEF NoPegLimit, Sides
<1> HIDE DEF side
<1>5. pegged_bid \/ price = e.price
  OBVIOUS
<1>6. t.locked_price = IF e.peg_limit # NoPegLimit /\ side = "Bid" THEN e.peg_limit ELSE e.price
  BY <1>2, <1>4
<1>7. locked_fees = IF pegged_bid THEN maker_fees_floor(locked) ELSE fees
  OBVIOUS
<1> HIDE DEF price, pegged_bid, locked_fees
<1>8. quote \in Nat /\ locked \in Nat /\ (side = "Bid" => quote <= locked)
  <2> DEFINE u == e.quantity * quote_lot_size
  <2>1. u \in Nat /\ quote_lot_size \in Nat
    BY <1>1, FeeAssumption
  <2>2. quote = u * e.price /\ locked = u * price
    BY <1>1, <1>4, <2>1
  <2> HIDE DEF u
  <2>3. quote \in Nat /\ locked \in Nat
    BY <2>1, <2>2, <1>1, <1>4
  <2>4. side = "Bid" => u * e.price <= u * price
    BY <2>1, <1>1, <1>4
  <2> QED BY <2>2, <2>3, <2>4
<1>9. price = e.price => locked = quote
  OBVIOUS
<1> HIDE DEF quote, locked
<1>10. /\ maker_fees_floor(quote) \in Nat /\ maker_fees_floor(quote) <= quote
       /\ maker_fees_floor(locked) \in Nat /\ maker_rebate_floor(quote) \in Nat
       /\ (side = "Bid" => maker_fees_floor(quote) <= maker_fees_floor(locked))
  BY <1>8, FeeFacts, FeeParts
<1>11. fees \in Nat /\ fees <= quote /\ fees <= maker_fees_floor(quote)
       /\ (fees = 0 \/ fees = maker_fees_floor(quote))
  BY <1>8, <1>10
<1>12. t.rebate \in Nat
  BY <1>2, <1>10
<1> HIDE DEF fees, self
<1>13. locked_fees \in Nat /\ (side = "Bid" => locked_fees <= maker_fees_floor(locked) /\ fees <= locked_fees)
  <2>1. CASE pegged_bid
    BY <2>1, <1>7, <1>10, <1>11
  <2>2. CASE ~pegged_bid
    BY <2>2, <1>5, <1>7, <1>9, <1>10, <1>11
  <2> QED BY <2>1, <2>2
<1>14. side = "Bid" => (locked - quote) + (locked_fees - fees) \in Nat
  BY <1>8, <1>11, <1>13
<1>15. t.locked_price \in Nat \ {0}
  BY <1>2, <1>4
<1>16. e.quantity * t.locked_price * quote_lot_size = locked
  BY <1>2 DEF locked
<1>17. t.quote = e.quantity * e.price * quote_lot_size
  BY <1>2 DEF quote
<1>18. t.rebate = IF e.maker = e.taker THEN 0 ELSE maker_rebate_floor(t.quote)
  BY <1>2 DEF self
<1> HIDE DEF t
<1> QED BY <1>2, <1>3, <1>6, <1>8, <1>11, <1>12, <1>13, <1>14, <1>15, <1>16, <1>17, <1>18 DEF t

\* Lots taken off an account's counters.
LEMMA TakeLotsFacts ==
  ASSUME NEW acc \in AccountValues, NEW side \in Sides, NEW q \in Int, NEW p \in Nat
  PROVE  LET new == TakeLots(acc, side, q, p)
             bids == IF side = "Bid" THEN q ELSE 0
             asks == IF side = "Ask" THEN q ELSE 0
             quote == IF side = "Bid" THEN q * p ELSE 0
         IN  /\ new \in AccountValues
             /\ new.open = acc.open /\ new.open_orders = acc.open_orders
             /\ new.bids_base_lots = acc.bids_base_lots - bids
             /\ new.asks_base_lots = acc.asks_base_lots - asks
             /\ new.bids_quote_lots = acc.bids_quote_lots - quote
             /\ new.base_free_native = acc.base_free_native
             /\ new.quote_free_native = acc.quote_free_native
             /\ new.locked_maker_fees = acc.locked_maker_fees
             /\ new.referrer_rebates_available = acc.referrer_rebates_available
             /\ new.penalty_heap_count = acc.penalty_heap_count
<1> DEFINE new == TakeLots(acc, side, q, p)
<1>0. q * p \in Int /\ q \in Int
  OBVIOUS
<1>1. CASE side = "Bid"
  <2>1. new = [acc EXCEPT !.bids_base_lots = @ - q, !.bids_quote_lots = @ - q * p]
    BY <1>1 DEF TakeLots
  <2> DEFINE x == q * p
  <2>2. x \in Int /\ new = [acc EXCEPT !.bids_base_lots = @ - q, !.bids_quote_lots = @ - x]
    BY <1>0, <2>1
  <2> HIDE DEF x, new
  <2>3. acc.bids_base_lots - q \in Int /\ acc.bids_quote_lots - x \in Int /\ acc.asks_base_lots \in Int
    BY <2>2 DEF AccountValues
  <2>4. /\ new \in AccountValues
        /\ new.open = acc.open /\ new.open_orders = acc.open_orders
        /\ new.bids_base_lots = acc.bids_base_lots - q
        /\ new.asks_base_lots = acc.asks_base_lots
        /\ new.bids_quote_lots = acc.bids_quote_lots - x
        /\ new.base_free_native = acc.base_free_native
        /\ new.quote_free_native = acc.quote_free_native
        /\ new.locked_maker_fees = acc.locked_maker_fees
        /\ new.referrer_rebates_available = acc.referrer_rebates_available
        /\ new.penalty_heap_count = acc.penalty_heap_count
    BY <2>2, <2>3 DEF AccountValues
  <2> QED BY <1>1, <2>3, <2>4 DEF x, new
<1>2. CASE side = "Ask"
  <2>1. new = [acc EXCEPT !.asks_base_lots = @ - q]
    BY <1>2 DEF TakeLots
  <2> HIDE DEF new
  <2>3. acc.asks_base_lots - q \in Int /\ acc.bids_base_lots \in Int /\ acc.bids_quote_lots \in Int
    BY DEF AccountValues
  <2>4. /\ new \in AccountValues
        /\ new.open = acc.open /\ new.open_orders = acc.open_orders
        /\ new.bids_base_lots = acc.bids_base_lots
        /\ new.asks_base_lots = acc.asks_base_lots - q
        /\ new.bids_quote_lots = acc.bids_quote_lots
        /\ new.base_free_native = acc.base_free_native
        /\ new.quote_free_native = acc.quote_free_native
        /\ new.locked_maker_fees = acc.locked_maker_fees
        /\ new.referrer_rebates_available = acc.referrer_rebates_available
        /\ new.penalty_heap_count = acc.penalty_heap_count
    BY <2>1, <2>3 DEF AccountValues
  <2> QED BY <1>2, <2>3, <2>4 DEF new
<1> QED BY <1>1, <1>2 DEF Sides

\* A free slot is an order value.
LEMMA FreeSlotValue == FreeSlot \in OrderValues
BY DEF FreeSlot, OrderValues, Sides, Trees

\* Removing an order frees its slot and takes its lots off the counters.
LEMMA RemoveOrderFacts ==
  ASSUME NEW acc \in AccountValues, NEW slot \in OrderSlots, NEW q \in Int, NEW p \in Nat
  PROVE  LET new == remove_order(acc, slot, q, p)
             side == acc.open_orders[slot].side
             bids == IF side = "Bid" THEN q ELSE 0
             asks == IF side = "Ask" THEN q ELSE 0
             quote == IF side = "Bid" THEN q * p ELSE 0
         IN  /\ new \in AccountValues
             /\ new.open = acc.open
             /\ new.open_orders = [acc.open_orders EXCEPT ![slot] = FreeSlot]
             /\ new.bids_base_lots = acc.bids_base_lots - bids
             /\ new.asks_base_lots = acc.asks_base_lots - asks
             /\ new.bids_quote_lots = acc.bids_quote_lots - quote
             /\ new.base_free_native = acc.base_free_native
             /\ new.quote_free_native = acc.quote_free_native
             /\ new.locked_maker_fees = acc.locked_maker_fees
             /\ new.referrer_rebates_available = acc.referrer_rebates_available
             /\ new.penalty_heap_count = acc.penalty_heap_count
<1> DEFINE new == remove_order(acc, slot, q, p)
           side == acc.open_orders[slot].side
           taken == TakeLots(acc, side, q, p)
<1>1. acc.open_orders \in [OrderSlots -> OrderValues] /\ side \in Sides
  BY DEF AccountValues, OrderValues
<1> HIDE DEF side
<1>2. LET bids == IF side = "Bid" THEN q ELSE 0
          asks == IF side = "Ask" THEN q ELSE 0
          quote == IF side = "Bid" THEN q * p ELSE 0
      IN  /\ taken \in AccountValues
          /\ taken.open = acc.open /\ taken.open_orders = acc.open_orders
          /\ taken.bids_base_lots = acc.bids_base_lots - bids
          /\ taken.asks_base_lots = acc.asks_base_lots - asks
          /\ taken.bids_quote_lots = acc.bids_quote_lots - quote
          /\ taken.base_free_native = acc.base_free_native
          /\ taken.quote_free_native = acc.quote_free_native
          /\ taken.locked_maker_fees = acc.locked_maker_fees
          /\ taken.referrer_rebates_available = acc.referrer_rebates_available
          /\ taken.penalty_heap_count = acc.penalty_heap_count
  BY <1>1, TakeLotsFacts, Zenon
<1>3. new = [taken EXCEPT !.open_orders[slot] = FreeSlot]
  BY DEF remove_order, side
<1> HIDE DEF taken, new
<1> DEFINE os == [acc.open_orders EXCEPT ![slot] = FreeSlot]
<1>4. os \in [OrderSlots -> OrderValues] /\ taken.open_orders = acc.open_orders
  BY <1>1, <1>2, FreeSlotValue
<1>5. new = [taken EXCEPT !.open_orders = os]
  BY <1>3, <1>4
<1> HIDE DEF os
<1>6. /\ new \in AccountValues
      /\ new.open = taken.open /\ new.open_orders = os
      /\ new.bids_base_lots = taken.bids_base_lots
      /\ new.asks_base_lots = taken.asks_base_lots
      /\ new.bids_quote_lots = taken.bids_quote_lots
      /\ new.base_free_native = taken.base_free_native
      /\ new.quote_free_native = taken.quote_free_native
      /\ new.locked_maker_fees = taken.locked_maker_fees
      /\ new.referrer_rebates_available = taken.referrer_rebates_available
      /\ new.penalty_heap_count = taken.penalty_heap_count
  BY <1>2, <1>4, <1>5 DEF AccountValues
<1> QED BY <1>2, <1>6 DEF new, side, os

\* The four counters an account holds, spelled out.
LEMMA HeldFacts ==
  ASSUME NEW acc
  PROVE  /\ Held("asks_base", acc) = acc.asks_base_lots
         /\ Held("bids_base", acc) = acc.bids_base_lots
         /\ Held("bids_quote", acc) = acc.bids_quote_lots
         /\ Held("fees", acc) = acc.locked_maker_fees
BY DEF Held

\* What an order of q lots locks in each counter, spelled out.
LEMMA LocksFacts ==
  ASSUME NEW side \in Sides, NEW q \in Nat, NEW p \in Nat
  PROVE  /\ Locks("asks_base", side, q, p) = IF side = "Ask" THEN q ELSE 0
         /\ Locks("bids_base", side, q, p) = IF side = "Bid" THEN q ELSE 0
         /\ Locks("bids_quote", side, q, p) = IF side = "Bid" THEN q * p ELSE 0
         /\ Locks("fees", side, q, p) =
              IF side = "Bid" THEN maker_fees_ceil(q * p * quote_lot_size) ELSE 0
         /\ q * p \in Nat /\ q * p * quote_lot_size \in Nat
         /\ maker_fees_ceil(q * p * quote_lot_size) \in Nat
         /\ \A kind \in Kinds : Locks(kind, side, q, p) \in Nat
<1>1. /\ Locks("asks_base", side, q, p) = IF side = "Ask" THEN q ELSE 0
      /\ Locks("bids_base", side, q, p) = IF side = "Bid" THEN q ELSE 0
      /\ Locks("bids_quote", side, q, p) = IF side = "Bid" THEN q * p ELSE 0
      /\ Locks("fees", side, q, p) =
           IF side = "Bid" THEN maker_fees_ceil(q * p * quote_lot_size) ELSE 0
  BY DEF Locks
<1>2. q * p \in Nat
  OBVIOUS
<1>3. q * p * quote_lot_size \in Nat
  BY <1>2, FeeAssumption
<1>4. maker_fees_ceil(q * p * quote_lot_size) \in Nat
  BY <1>3, FeeFacts
<1>5. \A kind \in Kinds : Locks(kind, side, q, p) \in Nat
  BY <1>1, <1>2, <1>4 DEF Kinds
<1> QED BY <1>1, <1>2, <1>3, <1>4, <1>5

\* What a market owes an account, spelled out.
LEMMA OwedFacts ==
  ASSUME NEW acc
  PROVE  /\ OwedTo("base", acc) = acc.base_free_native + acc.asks_base_lots * base_lot_size
         /\ OwedTo("quote", acc) = acc.quote_free_native + acc.bids_quote_lots * quote_lot_size
                                   + acc.locked_maker_fees + acc.referrer_rebates_available
         /\ OwedTo("rebates", acc) = acc.referrer_rebates_available
BY DEF OwedTo

\* Cancelling an order gives back what it locked, so the account is owed as much as before.
LEMMA CancelSlotFacts ==
  ASSUME NEW acc \in AccountValues, NEW slot \in OrderSlots, NEW q \in Nat
  PROVE  LET new == cancel_slot(acc, slot, q)
         IN  /\ new \in AccountValues
             /\ new.open = acc.open
             /\ new.open_orders = [acc.open_orders EXCEPT ![slot] = FreeSlot]
             /\ \A kind \in Kinds :
                  Held(kind, new) = Held(kind, acc) - OrderLocks(kind, acc.open_orders[slot], q)
             /\ \A unit \in Units : OwedTo(unit, new) = OwedTo(unit, acc)
             /\ new.base_free_native >= acc.base_free_native
             /\ new.quote_free_native >= acc.quote_free_native
             /\ new.referrer_rebates_available = acc.referrer_rebates_available
<1> DEFINE new == cancel_slot(acc, slot, q)
           order == acc.open_orders[slot]
           side == order.side
           price == order.locked_price
           quote == q * price * quote_lot_size
           fees == maker_fees_ceil(quote)
           freed == IF side = "Bid"
                    THEN [acc EXCEPT !.quote_free_native = @ + quote + fees,
                                     !.locked_maker_fees = @ - fees]
                    ELSE [acc EXCEPT !.base_free_native = @ + q * base_lot_size]
<1>1. order \in OrderValues /\ side \in Sides /\ price \in Nat
  BY DEF AccountValues, OrderValues
<1>2. new = remove_order(freed, slot, q, price)
  BY DEF cancel_slot
<1> DEFINE qp == q * price
           native == q * base_lot_size
<1>3. qp \in Nat /\ quote \in Nat /\ fees \in Nat /\ quote = qp * quote_lot_size /\ native \in Nat
  BY <1>1, LocksFacts, FeeAssumption
<1>4. /\ Locks("asks_base", side, q, price) = IF side = "Ask" THEN q ELSE 0
      /\ Locks("bids_base", side, q, price) = IF side = "Bid" THEN q ELSE 0
      /\ Locks("bids_quote", side, q, price) = IF side = "Bid" THEN qp ELSE 0
      /\ Locks("fees", side, q, price) = IF side = "Bid" THEN fees ELSE 0
  BY <1>1, LocksFacts, Zenon
<1>5. \A kind \in Kinds : OrderLocks(kind, order, q) = Locks(kind, side, q, price)
  BY DEF OrderLocks
<1>6. freed.open_orders = acc.open_orders
  BY DEF AccountValues
<1> HIDE DEF quote, fees, qp, native, side, price
<1>7. /\ freed \in AccountValues /\ freed.open = acc.open
      /\ freed.quote_free_native = acc.quote_free_native + (IF side = "Bid" THEN quote + fees ELSE 0)
      /\ freed.base_free_native = acc.base_free_native + (IF side = "Bid" THEN 0 ELSE native)
      /\ freed.locked_maker_fees = acc.locked_maker_fees - (IF side = "Bid" THEN fees ELSE 0)
      /\ freed.bids_base_lots = acc.bids_base_lots /\ freed.asks_base_lots = acc.asks_base_lots
      /\ freed.bids_quote_lots = acc.bids_quote_lots
      /\ freed.referrer_rebates_available = acc.referrer_rebates_available
  <2>1. /\ acc.quote_free_native + quote + fees \in Int /\ acc.locked_maker_fees - fees \in Int
        /\ acc.base_free_native + native \in Int
        /\ acc.quote_free_native \in Int /\ acc.locked_maker_fees \in Int /\ acc.base_free_native \in Int
    BY <1>3 DEF AccountValues
  <2>2. CASE side = "Bid"
    <3>1. freed = [acc EXCEPT !.quote_free_native = @ + quote + fees,
                              !.locked_maker_fees = @ - fees]
      BY <2>2 DEF side
    <3> DEFINE x == acc.quote_free_native + quote + fees
               y == acc.locked_maker_fees - fees
               half == [acc EXCEPT !.quote_free_native = x]
    <3>2. x \in Int /\ y \in Int /\ x = acc.quote_free_native + (quote + fees)
      BY <2>1, <1>3
    <3>3. half \in AccountValues /\ half.locked_maker_fees = acc.locked_maker_fees
          /\ freed = [half EXCEPT !.locked_maker_fees = y]
      <4>1. freed = [acc EXCEPT !.quote_free_native = x, !.locked_maker_fees = y]
        BY <3>1
      <4> HIDE DEF x, y, freed
      <4> QED BY <3>2, <4>1 DEF AccountValues
    <3>4. /\ half.open = acc.open /\ half.quote_free_native = x
          /\ half.base_free_native = acc.base_free_native
          /\ half.bids_base_lots = acc.bids_base_lots /\ half.asks_base_lots = acc.asks_base_lots
          /\ half.bids_quote_lots = acc.bids_quote_lots
          /\ half.referrer_rebates_available = acc.referrer_rebates_available
      BY DEF AccountValues
    <3> HIDE DEF half, x, y, freed
    <3>5. /\ freed \in AccountValues /\ freed.open = half.open
          /\ freed.quote_free_native = x
          /\ freed.base_free_native = half.base_free_native
          /\ freed.locked_maker_fees = y
          /\ freed.bids_base_lots = half.bids_base_lots /\ freed.asks_base_lots = half.asks_base_lots
          /\ freed.bids_quote_lots = half.bids_quote_lots
          /\ freed.referrer_rebates_available = half.referrer_rebates_available
      BY <3>2, <3>3, <3>4 DEF AccountValues
    <3>6. acc.base_free_native + 0 = acc.base_free_native
      BY <2>1
    <3> QED BY <2>2, <3>2, <3>4, <3>5, <3>6 DEF y
  <2>3. CASE side # "Bid"
    <3>1. freed = [acc EXCEPT !.base_free_native = @ + native]
      BY <2>3 DEF side, native
    <3> HIDE DEF freed
    <3> QED BY <2>1, <2>3, <3>1, <1>3 DEF AccountValues
  <2> QED BY <2>2, <2>3
<1> HIDE DEF freed
<1>8. freed.open_orders[slot].side = side
  BY <1>6 DEF side
<1>9. LET bids == IF side = "Bid" THEN q ELSE 0
          asks == IF side = "Ask" THEN q ELSE 0
          taken == IF side = "Bid" THEN q * price ELSE 0
      IN  /\ new \in AccountValues
          /\ new.open = freed.open
          /\ new.open_orders = [freed.open_orders EXCEPT ![slot] = FreeSlot]
          /\ new.bids_base_lots = freed.bids_base_lots - bids
          /\ new.asks_base_lots = freed.asks_base_lots - asks
          /\ new.bids_quote_lots = freed.bids_quote_lots - taken
          /\ new.base_free_native = freed.base_free_native
          /\ new.quote_free_native = freed.quote_free_native
          /\ new.locked_maker_fees = freed.locked_maker_fees
          /\ new.referrer_rebates_available = freed.referrer_rebates_available
          /\ new.penalty_heap_count = freed.penalty_heap_count
  <2>1. q \in Int /\ price \in Nat /\ freed \in AccountValues
    BY <1>1, <1>7
  <2> DEFINE r == remove_order(freed, slot, q, price)
  <2>2. LET own == freed.open_orders[slot].side
            bids == IF own = "Bid" THEN q ELSE 0
            asks == IF own = "Ask" THEN q ELSE 0
            taken == IF own = "Bid" THEN q * price ELSE 0
        IN  /\ r \in AccountValues
            /\ r.open = freed.open
            /\ r.open_orders = [freed.open_orders EXCEPT ![slot] = FreeSlot]
            /\ r.bids_base_lots = freed.bids_base_lots - bids
            /\ r.asks_base_lots = freed.asks_base_lots - asks
            /\ r.bids_quote_lots = freed.bids_quote_lots - taken
            /\ r.base_free_native = freed.base_free_native
            /\ r.quote_free_native = freed.quote_free_native
            /\ r.locked_maker_fees = freed.locked_maker_fees
            /\ r.referrer_rebates_available = freed.referrer_rebates_available
            /\ r.penalty_heap_count = freed.penalty_heap_count
    BY ONLY <2>1, RemoveOrderFacts, slot \in OrderSlots
  <2>3. new = r
    BY <1>2
  <2> HIDE DEF new, r
  <2> QED BY <2>2, <2>3, <1>8
<1> HIDE DEF new, order
<1>10. /\ new.bids_base_lots = acc.bids_base_lots - (IF side = "Bid" THEN q ELSE 0)
       /\ new.asks_base_lots = acc.asks_base_lots - (IF side = "Ask" THEN q ELSE 0)
       /\ new.bids_quote_lots = acc.bids_quote_lots - (IF side = "Bid" THEN qp ELSE 0)
       /\ new.locked_maker_fees = acc.locked_maker_fees - (IF side = "Bid" THEN fees ELSE 0)
       /\ new.quote_free_native = acc.quote_free_native + (IF side = "Bid" THEN quote + fees ELSE 0)
       /\ new.base_free_native = acc.base_free_native + (IF side = "Bid" THEN 0 ELSE native)
       /\ new.referrer_rebates_available = acc.referrer_rebates_available
  BY <1>7, <1>9 DEF qp
<1>11. new \in AccountValues /\ new.open = acc.open
       /\ new.open_orders = [acc.open_orders EXCEPT ![slot] = FreeSlot]
  BY <1>6, <1>7, <1>9
<1>12. \A kind \in Kinds : Held(kind, new) = Held(kind, acc) - OrderLocks(kind, order, q)
  <2>1. \A kind \in Kinds : Held(kind, new) = Held(kind, acc) - Locks(kind, side, q, price)
    BY <1>4, <1>10, HeldFacts DEF Kinds
  <2> QED BY <1>5, <2>1
<1> DEFINE bl == acc.bids_quote_lots
           al == acc.asks_base_lots
<1>13. /\ acc.quote_free_native \in Int /\ bl \in Int /\ al \in Int
       /\ acc.locked_maker_fees \in Int /\ acc.base_free_native \in Int
       /\ acc.referrer_rebates_available \in Int
       /\ quote_lot_size \in Nat \ {0} /\ base_lot_size \in Nat \ {0}
  BY FeeAssumption DEF AccountValues
<1>14. /\ (bl - qp) * quote_lot_size = bl * quote_lot_size - quote
       /\ (al - q) * base_lot_size = al * base_lot_size - native
       /\ bl * quote_lot_size \in Int /\ al * base_lot_size \in Int
  BY <1>13, <1>3 DEF native
<1>15. OwedTo("quote", new) = OwedTo("quote", acc) /\ OwedTo("base", new) = OwedTo("base", acc)
       /\ OwedTo("rebates", new) = OwedTo("rebates", acc)
  <2> DEFINE B == bl * quote_lot_size
             A == al * base_lot_size
             B1 == (bl - qp) * quote_lot_size
             A1 == (al - q) * base_lot_size
  <2>1. B \in Int /\ A \in Int /\ B1 = B - quote /\ A1 = A - native
    BY <1>14
  <2> HIDE DEF B, A, B1, A1
  <2>2. CASE side = "Bid"
    <3>1. new.bids_quote_lots = bl - qp /\ new.asks_base_lots = al
      BY <1>10, <2>2, <1>13
    <3>2. OwedTo("quote", new) = new.quote_free_native + B1 + new.locked_maker_fees + new.referrer_rebates_available
          /\ OwedTo("base", new) = new.base_free_native + A
      BY <3>1, OwedFacts DEF B1, A
    <3>3. OwedTo("quote", acc) = acc.quote_free_native + B + acc.locked_maker_fees + acc.referrer_rebates_available
          /\ OwedTo("base", acc) = acc.base_free_native + A
      BY OwedFacts DEF B, A
    <3> QED BY <3>2, <3>3, <2>1, <2>2, <1>10, <1>13, <1>3, OwedFacts
  <2>3. CASE side # "Bid"
    <3>1. new.bids_quote_lots = bl /\ new.asks_base_lots = al - q
      BY <1>10, <2>3, <1>13, <1>1 DEF Sides
    <3>2. OwedTo("quote", new) = new.quote_free_native + B + new.locked_maker_fees + new.referrer_rebates_available
          /\ OwedTo("base", new) = new.base_free_native + A1
      BY <3>1, OwedFacts DEF B, A1
    <3>3. OwedTo("quote", acc) = acc.quote_free_native + B + acc.locked_maker_fees + acc.referrer_rebates_available
          /\ OwedTo("base", acc) = acc.base_free_native + A
      BY OwedFacts DEF B, A
    <3> QED BY <3>2, <3>3, <2>1, <2>3, <1>10, <1>13, <1>3, OwedFacts
  <2> QED BY <2>2, <2>3
<1>16. \A unit \in Units : OwedTo(unit, new) = OwedTo(unit, acc)
  BY <1>15 DEF Units
<1>17. new.base_free_native >= acc.base_free_native /\ new.quote_free_native >= acc.quote_free_native
  BY <1>10, <1>13, <1>3
<1> QED BY <1>10, <1>11, <1>12, <1>16, <1>17 DEF new, order

\* Executing a maker moves what the fill locked to free balances, less the fee and plus the
\* rebate.
LEMMA ExecuteMakerFacts ==
  ASSUME NEW acc \in AccountValues, NEW e \in FillEvents, EventOk(e),
         e.maker_out => acc.open_orders[e.maker_slot].side = FillTerms(e).side
  PROVE  LET new == execute_maker(acc, e)
             fees == FillTerms(e).fees
         IN  /\ new \in AccountValues
             /\ new.open = acc.open
             /\ new.open_orders = IF e.maker_out
                                  THEN [acc.open_orders EXCEPT ![e.maker_slot] = FreeSlot]
                                  ELSE acc.open_orders
             /\ \A kind \in Kinds : Held(kind, new) = Held(kind, acc) - FillLocks(kind, e)
             /\ \A unit \in Units :
                  OwedTo(unit, new) = OwedTo(unit, acc) + FillDue(unit, e)
                                      + (IF unit = "rebates" THEN fees ELSE 0)
             /\ new.base_free_native >= acc.base_free_native
             /\ new.quote_free_native >= acc.quote_free_native
             /\ new.referrer_rebates_available >= acc.referrer_rebates_available
<1> DEFINE new == execute_maker(acc, e)
           t == FillTerms(e)
           q == e.quantity
           price == t.locked_price
           native == q * base_lot_size
           paid == IF t.side = "Bid"
                   THEN [acc EXCEPT
                           !.base_free_native = @ + native,
                           !.quote_free_native = @ + t.rebate + t.above_fill_price,
                           !.locked_maker_fees = @ - t.locked_fees,
                           !.referrer_rebates_available = @ + t.fees]
                   ELSE [acc EXCEPT
                           !.quote_free_native = @ + t.quote + t.rebate - t.fees,
                           !.referrer_rebates_available = @ + t.fees]
           rest == IF e.maker_out THEN remove_order(paid, e.maker_slot, q, price)
                   ELSE TakeLots(paid, t.side, q, price)
           locked == q * price * quote_lot_size
<1>1. new = rest
  BY DEF execute_maker
<1>2. /\ t.side \in Sides /\ t.side = invert_side(e.taker_side)
      /\ t.quote \in Nat /\ t.quote = e.quantity * e.price * quote_lot_size
      /\ t.fees \in Nat /\ t.fees <= t.quote
      /\ t.rebate \in Nat
      /\ price \in Nat \ {0}
      /\ t.locked_fees \in Nat
      /\ t.side = "Bid" => t.locked_fees <= maker_fees_floor(locked)
      /\ locked \in Nat
      /\ t.side = "Bid" => t.above_fill_price = (locked - t.quote) + (t.locked_fees - t.fees)
      /\ t.side = "Bid" => t.above_fill_price \in Nat
  BY FillTermsFacts
<1>3. q \in Nat \ {0} /\ e.maker_slot \in OrderSlots
  BY DEF FillEvents
<1>4. native \in Nat
  BY <1>3, FeeAssumption
<1>5. FillLocks("fees", e) = (IF t.side = "Bid" THEN t.locked_fees ELSE 0)
      /\ \A kind \in Kinds : kind # "fees" => FillLocks(kind, e) = Locks(kind, t.side, q, price)
  BY DEF FillLocks
<1>6. /\ FillDue("base", e) = (IF t.side = "Bid" THEN native ELSE -native)
      /\ FillDue("quote", e) = t.rebate + (IF t.side = "Ask" THEN t.quote ELSE -t.quote)
      /\ FillDue("rebates", e) = 0
  BY DEF FillDue
<1>7. acc.open_orders \in [OrderSlots -> OrderValues]
  BY DEF AccountValues
<1>8. e.maker_out => acc.open_orders[e.maker_slot].side = t.side
  OBVIOUS
<1> DEFINE side == t.side
           fees == t.fees
           lf == t.locked_fees
           above == t.above_fill_price
           rebate == t.rebate
           quote == t.quote
           dbase == IF side = "Bid" THEN native ELSE 0
           dquote == IF side = "Bid" THEN rebate + above ELSE quote + rebate - fees
           dfees == IF side = "Bid" THEN lf ELSE 0
<1>9. paid = [acc EXCEPT !.base_free_native = @ + dbase, !.quote_free_native = @ + dquote,
                         !.locked_maker_fees = @ - dfees, !.referrer_rebates_available = @ + fees]
  <2>0. /\ acc.base_free_native \in Int /\ acc.quote_free_native \in Int
        /\ acc.locked_maker_fees \in Int
    BY DEF AccountValues
  <2>1. CASE side = "Bid"
    <3>1. acc.quote_free_native + (rebate + above) = acc.quote_free_native + rebate + above
      BY <2>0, <2>1, <1>2
    <3> QED BY <2>1, <3>1, Zenon
  <2>2. CASE side # "Bid"
    <3>1. /\ acc.quote_free_native + (quote + rebate - fees) = acc.quote_free_native + quote + rebate - fees
          /\ acc.base_free_native + 0 = acc.base_free_native
          /\ acc.locked_maker_fees - 0 = acc.locked_maker_fees
      BY <2>0, <2>2, <1>2
    <3>2. paid = [acc EXCEPT
                    !.quote_free_native = @ + quote + rebate - fees,
                    !.referrer_rebates_available = @ + fees]
      BY <2>2
    <3>3. [acc EXCEPT !.base_free_native = @ + dbase, !.quote_free_native = @ + dquote,
                      !.locked_maker_fees = @ - dfees, !.referrer_rebates_available = @ + fees]
          = [acc EXCEPT !.base_free_native = acc.base_free_native,
                        !.quote_free_native = @ + quote + rebate - fees,
                        !.locked_maker_fees = acc.locked_maker_fees,
                        !.referrer_rebates_available = @ + fees]
      BY <2>2, <3>1
    <3> DEFINE x == acc.quote_free_native + quote + rebate - fees
               y == acc.referrer_rebates_available + fees
    <3>4. [acc EXCEPT !.base_free_native = acc.base_free_native,
                        !.quote_free_native = x,
                        !.locked_maker_fees = acc.locked_maker_fees,
                        !.referrer_rebates_available = y]
          = [acc EXCEPT !.quote_free_native = x, !.referrer_rebates_available = y]
      <4> HIDE DEF x, y
      <4> QED BY DEF AccountValues
    <3> QED BY <3>2, <3>3, <3>4
  <2> QED BY <2>1, <2>2
<1>10. dbase \in Nat /\ dquote \in Nat /\ dfees \in Nat /\ fees \in Nat
  BY <1>2, <1>4 DEF Sides
<1> HIDE DEF t, native, paid, locked, dbase, dquote, dfees, fees, lf, above, rebate, quote, side, q, price
<1>11. /\ paid \in AccountValues /\ paid.open = acc.open /\ paid.open_orders = acc.open_orders
       /\ paid.base_free_native = acc.base_free_native + dbase
       /\ paid.quote_free_native = acc.quote_free_native + dquote
       /\ paid.locked_maker_fees = acc.locked_maker_fees - dfees
       /\ paid.referrer_rebates_available = acc.referrer_rebates_available + fees
       /\ paid.bids_base_lots = acc.bids_base_lots /\ paid.asks_base_lots = acc.asks_base_lots
       /\ paid.bids_quote_lots = acc.bids_quote_lots
  <2> DEFINE a == acc.base_free_native + dbase
             b == acc.quote_free_native + dquote
             c == acc.locked_maker_fees - dfees
             d == acc.referrer_rebates_available + fees
  <2>1. a \in Int /\ b \in Int /\ c \in Int /\ d \in Int
    BY <1>10 DEF AccountValues
  <2>2. paid = [acc EXCEPT !.base_free_native = a, !.quote_free_native = b,
                           !.locked_maker_fees = c, !.referrer_rebates_available = d]
    BY <1>9
  <2> HIDE DEF a, b, c, d
  <2>3. /\ paid \in AccountValues /\ paid.open = acc.open /\ paid.open_orders = acc.open_orders
        /\ paid.base_free_native = a /\ paid.quote_free_native = b
        /\ paid.locked_maker_fees = c /\ paid.referrer_rebates_available = d
        /\ paid.bids_base_lots = acc.bids_base_lots /\ paid.asks_base_lots = acc.asks_base_lots
        /\ paid.bids_quote_lots = acc.bids_quote_lots
    BY <2>1, <2>2 DEF AccountValues
  <2> QED BY <2>3 DEF a, b, c, d
<1>12. q \in Int /\ q \in Nat /\ price \in Nat /\ side \in Sides
  BY <1>2, <1>3 DEF side
<1> DEFINE bids == IF side = "Bid" THEN q ELSE 0
           asks == IF side = "Ask" THEN q ELSE 0
           qp == q * price
           lots == IF side = "Bid" THEN qp ELSE 0
<1>13. /\ rest \in AccountValues
       /\ rest.open = paid.open
       /\ rest.open_orders = IF e.maker_out THEN [paid.open_orders EXCEPT ![e.maker_slot] = FreeSlot]
                             ELSE paid.open_orders
       /\ rest.bids_base_lots = paid.bids_base_lots - bids
       /\ rest.asks_base_lots = paid.asks_base_lots - asks
       /\ rest.bids_quote_lots = paid.bids_quote_lots - lots
       /\ rest.base_free_native = paid.base_free_native
       /\ rest.quote_free_native = paid.quote_free_native
       /\ rest.locked_maker_fees = paid.locked_maker_fees
       /\ rest.referrer_rebates_available = paid.referrer_rebates_available
  <2>1. CASE e.maker_out
    <3> DEFINE r == remove_order(paid, e.maker_slot, q, price)
    <3>1. paid \in AccountValues /\ q \in Int /\ price \in Nat /\ e.maker_slot \in OrderSlots
      BY <1>3, <1>11, <1>12
    <3>2. LET own == paid.open_orders[e.maker_slot].side
              bd == IF own = "Bid" THEN q ELSE 0
              as == IF own = "Ask" THEN q ELSE 0
              ql == IF own = "Bid" THEN q * price ELSE 0
          IN  /\ r \in AccountValues
              /\ r.open = paid.open
              /\ r.open_orders = [paid.open_orders EXCEPT ![e.maker_slot] = FreeSlot]
              /\ r.bids_base_lots = paid.bids_base_lots - bd
              /\ r.asks_base_lots = paid.asks_base_lots - as
              /\ r.bids_quote_lots = paid.bids_quote_lots - ql
              /\ r.base_free_native = paid.base_free_native
              /\ r.quote_free_native = paid.quote_free_native
              /\ r.locked_maker_fees = paid.locked_maker_fees
              /\ r.referrer_rebates_available = paid.referrer_rebates_available
              /\ r.penalty_heap_count = paid.penalty_heap_count
      BY ONLY <3>1, RemoveOrderFacts
    <3>3. paid.open_orders[e.maker_slot].side = side
      BY <1>8, <1>11, <2>1 DEF side
    <3>4. rest = r
      BY <2>1 DEF side
    <3> HIDE DEF rest, r
    <3> QED BY <2>1, <3>2, <3>3, <3>4
  <2>2. CASE ~e.maker_out
    <3> DEFINE r == TakeLots(paid, side, q, price)
    <3>1. paid \in AccountValues /\ q \in Int /\ price \in Nat /\ side \in Sides
      BY <1>3, <1>11, <1>12
    <3>2. LET bd == IF side = "Bid" THEN q ELSE 0
              as == IF side = "Ask" THEN q ELSE 0
              ql == IF side = "Bid" THEN q * price ELSE 0
          IN  /\ r \in AccountValues
              /\ r.open = paid.open /\ r.open_orders = paid.open_orders
              /\ r.bids_base_lots = paid.bids_base_lots - bd
              /\ r.asks_base_lots = paid.asks_base_lots - as
              /\ r.bids_quote_lots = paid.bids_quote_lots - ql
              /\ r.base_free_native = paid.base_free_native
              /\ r.quote_free_native = paid.quote_free_native
              /\ r.locked_maker_fees = paid.locked_maker_fees
              /\ r.referrer_rebates_available = paid.referrer_rebates_available
              /\ r.penalty_heap_count = paid.penalty_heap_count
      BY ONLY <3>1, TakeLotsFacts
    <3>4. rest = r
      BY <2>2 DEF side
    <3> HIDE DEF rest, r
    <3> QED BY <2>2, <3>2, <3>4
  <2> QED BY <2>1, <2>2
<1> HIDE DEF rest, new
<1>14. /\ new \in AccountValues
       /\ new.open = acc.open
       /\ new.open_orders = IF e.maker_out THEN [acc.open_orders EXCEPT ![e.maker_slot] = FreeSlot]
                            ELSE acc.open_orders
  BY <1>1, <1>11, <1>13
<1>15. /\ new.bids_base_lots = acc.bids_base_lots - bids
       /\ new.asks_base_lots = acc.asks_base_lots - asks
       /\ new.bids_quote_lots = acc.bids_quote_lots - lots
       /\ new.base_free_native = acc.base_free_native + dbase
       /\ new.quote_free_native = acc.quote_free_native + dquote
       /\ new.locked_maker_fees = acc.locked_maker_fees - dfees
       /\ new.referrer_rebates_available = acc.referrer_rebates_available + fees
  BY <1>1, <1>11, <1>13
<1>16. \A kind \in Kinds : Held(kind, new) = Held(kind, acc) - FillLocks(kind, e)
  <2>1. /\ Locks("asks_base", side, q, price) = IF side = "Ask" THEN q ELSE 0
        /\ Locks("bids_base", side, q, price) = IF side = "Bid" THEN q ELSE 0
        /\ Locks("bids_quote", side, q, price) = IF side = "Bid" THEN q * price ELSE 0
    BY ONLY <1>12, LocksFacts
  <2>2. /\ FillLocks("asks_base", e) = asks /\ FillLocks("bids_base", e) = bids
        /\ FillLocks("bids_quote", e) = lots /\ FillLocks("fees", e) = dfees
    BY <2>1, <1>5 DEF Kinds, side, dfees, lf
  <2> HIDE DEF asks, bids, lots
  <2> QED BY <1>15, <2>2, HeldFacts DEF Kinds
<1> DEFINE bl == acc.bids_quote_lots
           al == acc.asks_base_lots
           B == bl * quote_lot_size
           A == al * base_lot_size
<1>17. /\ acc.quote_free_native \in Int /\ bl \in Int /\ al \in Int
       /\ acc.locked_maker_fees \in Int /\ acc.base_free_native \in Int
       /\ acc.referrer_rebates_available \in Int
       /\ quote_lot_size \in Nat \ {0} /\ base_lot_size \in Nat \ {0}
       /\ qp \in Int
  BY <1>12, FeeAssumption DEF AccountValues
<1>18. /\ (bl - qp) * quote_lot_size = B - locked
       /\ (al - q) * base_lot_size = A - native
       /\ B \in Int /\ A \in Int
  <2>1. locked = qp * quote_lot_size /\ native = q * base_lot_size
    BY DEF locked, native
  <2> HIDE DEF qp, bl, al
  <2> QED BY <1>12, <1>17, <2>1 DEF B, A
<1>19. side = "Bid" => above = (locked - quote) + (lf - fees)
  BY <1>2 DEF side, above, quote, lf, fees
<1>20. locked \in Nat /\ quote \in Nat /\ lf \in Nat /\ fees \in Nat /\ rebate \in Nat /\ native \in Nat
  BY <1>2, <1>4 DEF quote, lf, fees, rebate
<1>21. /\ FillDue("base", e) = (IF side = "Bid" THEN native ELSE -native)
       /\ FillDue("quote", e) = rebate + (IF side = "Ask" THEN quote ELSE -quote)
       /\ FillDue("rebates", e) = 0
  BY <1>6 DEF side, rebate, quote
<1>22. /\ OwedTo("base", acc) = acc.base_free_native + A
       /\ OwedTo("quote", acc) = acc.quote_free_native + B + acc.locked_maker_fees + acc.referrer_rebates_available
       /\ OwedTo("rebates", acc) = acc.referrer_rebates_available
       /\ OwedTo("rebates", new) = new.referrer_rebates_available
  BY OwedFacts
<1> DEFINE B1 == (bl - qp) * quote_lot_size
           A1 == (al - q) * base_lot_size
<1>23. B1 = B - locked /\ A1 = A - native
  BY <1>18
<1>24. CASE side = "Bid"
  <2>1. new.bids_quote_lots = bl - qp /\ new.asks_base_lots = al
    BY <1>15, <1>17, <1>24
  <2>2. /\ OwedTo("base", new) = new.base_free_native + A
        /\ OwedTo("quote", new) = new.quote_free_native + B1 + new.locked_maker_fees + new.referrer_rebates_available
    BY <2>1, OwedFacts
  <2>3. dbase = native /\ dquote = rebate + above /\ dfees = lf
    BY <1>24 DEF dbase, dquote, dfees
  <2> HIDE DEF B1, A1, B, A, bl, al, qp
  <2>4. /\ OwedTo("base", new) = OwedTo("base", acc) + FillDue("base", e)
        /\ OwedTo("rebates", new) = OwedTo("rebates", acc) + FillDue("rebates", e) + fees
    BY <2>2, <2>3, <1>15, <1>17, <1>18, <1>20, <1>21, <1>22, <1>24
  <2>5. OwedTo("quote", new) = (acc.quote_free_native + (rebate + above)) + (B - locked)
           + (acc.locked_maker_fees - lf) + (acc.referrer_rebates_available + fees)
    BY <2>2, <2>3, <1>15, <1>23
  <2>6. OwedTo("quote", new) = OwedTo("quote", acc) + FillDue("quote", e)
    BY <2>5, <1>17, <1>18, <1>19, <1>20, <1>21, <1>22, <1>24
  <2>7. OwedTo("base", acc) + FillDue("base", e) \in Int /\ OwedTo("quote", acc) + FillDue("quote", e) \in Int
    BY <1>17, <1>18, <1>20, <1>21, <1>22, <1>24
  <2>8. \A unit \in Units : OwedTo(unit, new) = OwedTo(unit, acc) + FillDue(unit, e)
                                      + (IF unit = "rebates" THEN fees ELSE 0)
    BY <2>4, <2>6, <2>7 DEF Units
  <2>9. new.base_free_native >= acc.base_free_native /\ new.quote_free_native >= acc.quote_free_native
        /\ new.referrer_rebates_available >= acc.referrer_rebates_available
    BY <1>10, <1>15, <1>17
  <2> QED BY <1>14, <1>16, <2>8, <2>9 DEF new, fees, t
<1>25. CASE side # "Bid"
  <2>0. side = "Ask"
    BY <1>12, <1>25 DEF Sides
  <2>1. new.bids_quote_lots = bl /\ new.asks_base_lots = al - q
    BY <1>15, <1>17, <2>0
  <2>2. /\ OwedTo("base", new) = new.base_free_native + A1
        /\ OwedTo("quote", new) = new.quote_free_native + B + new.locked_maker_fees + new.referrer_rebates_available
    BY <2>1, OwedFacts
  <2>3. dbase = 0 /\ dquote = quote + rebate - fees /\ dfees = 0
    BY <2>0 DEF dbase, dquote, dfees
  <2> HIDE DEF B1, A1, B, A, bl, al, qp
  <2>4. /\ OwedTo("base", new) = OwedTo("base", acc) + FillDue("base", e)
        /\ OwedTo("rebates", new) = OwedTo("rebates", acc) + FillDue("rebates", e) + fees
    BY <2>2, <2>3, <1>15, <1>17, <1>18, <1>20, <1>21, <1>22, <1>23, <2>0
  <2>5. OwedTo("quote", new) = (acc.quote_free_native + (quote + rebate - fees)) + B
           + (acc.locked_maker_fees - 0) + (acc.referrer_rebates_available + fees)
    BY <2>2, <2>3, <1>15
  <2>6. OwedTo("quote", new) = OwedTo("quote", acc) + FillDue("quote", e)
    BY <2>5, <1>17, <1>18, <1>20, <1>21, <1>22, <2>0
  <2>7. OwedTo("base", acc) + FillDue("base", e) \in Int /\ OwedTo("quote", acc) + FillDue("quote", e) \in Int
    BY <1>17, <1>18, <1>20, <1>21, <1>22, <2>0
  <2>8. \A unit \in Units : OwedTo(unit, new) = OwedTo(unit, acc) + FillDue(unit, e)
                                      + (IF unit = "rebates" THEN fees ELSE 0)
    BY <2>4, <2>6, <2>7 DEF Units
  <2>9. new.base_free_native >= acc.base_free_native /\ new.quote_free_native >= acc.quote_free_native
        /\ new.referrer_rebates_available >= acc.referrer_rebates_available
    BY <1>10, <1>15, <1>17
  <2> QED BY <1>14, <1>16, <2>8, <2>9 DEF new, fees, t
<1> QED BY <1>24, <1>25

\* A collection of events with one more at a new index, and with one index removed.
Plus(E, n, e) == [i \in DOMAIN E \cup {n} |-> IF i = n THEN e ELSE E[i]]
\* The collection without one index.
Minus(E, n) == [i \in DOMAIN E \ {n} |-> E[i]]

\* The elements of a collection with one more event.
LEMMA PlusMinusFacts ==
  ASSUME NEW E, NEW n, n \notin DOMAIN E, NEW e
  PROVE  /\ DOMAIN Plus(E, n, e) = DOMAIN E \cup {n}
         /\ Plus(E, n, e)[n] = e
         /\ \A i \in DOMAIN E : Plus(E, n, e)[i] = E[i]
BY DEF Plus

\* The elements of a collection with one event less.
LEMMA MinusFacts ==
  ASSUME NEW E, NEW n
  PROVE  /\ DOMAIN Minus(E, n) = DOMAIN E \ {n}
         /\ \A i \in DOMAIN E \ {n} : Minus(E, n)[i] = E[i]
BY DEF Minus

\* A leaf that left the book for a last event hands its claim on the slot to that event.
LEMMA LeafToEvent ==
  ASSUME NEW o \in [Places -> OrderValues], NEW L \in SUBSET LeafValues, NEW E,
         LeavesClaim(o, L), EventsClaim(o, L, E), OrdersClaimed(o, L, E),
         NEW l \in L, NEW n, n \notin DOMAIN E, NEW e, IsLast(e),
         PlaceOfEvent(e) = PlaceOfLeaf(l), SideOf(e) = o[PlaceOfLeaf(l)].side
  PROVE  /\ LeavesClaim(o, L \ {l})
         /\ EventsClaim(o, L \ {l}, Plus(E, n, e))
         /\ OrdersClaimed(o, L \ {l}, Plus(E, n, e))
<1> DEFINE F == Plus(E, n, e)
           M == L \ {l}
           p == PlaceOfLeaf(l)
<1>1. /\ DOMAIN F = DOMAIN E \cup {n} /\ F[n] = e /\ \A i \in DOMAIN E : F[i] = E[i]
  BY DEF Plus
<1> HIDE DEF F
<1>2. p \in Places /\ LeafFits(o[p], l) /\ l.id # 0
  BY DEF PlaceOfLeaf, Places, LeafValues, LeavesClaim
<1>3. o[p].id # 0
  BY <1>2 DEF LeafFits
<1>4. LeavesClaim(o, M)
  BY DEF LeavesClaim
<1>5. \A k \in L : PlaceOfLeaf(k) = p => k = l
  BY DEF LeavesClaim
<1>6. EventsClaim(o, M, F)
  <2>1. ASSUME NEW i \in DOMAIN F, IsLast(F[i])
        PROVE  /\ o[PlaceOfEvent(F[i])].id # 0 /\ o[PlaceOfEvent(F[i])].side = SideOf(F[i])
               /\ \A k \in M : PlaceOfLeaf(k) # PlaceOfEvent(F[i])
               /\ \A j \in DOMAIN F : IsLast(F[j]) /\ PlaceOfEvent(F[i]) = PlaceOfEvent(F[j]) => i = j
    <3>1. CASE i = n
      <4>1. F[i] = e
        BY <1>1, <3>1
      <4>2. \A k \in M : PlaceOfLeaf(k) # p
        BY <1>5
      <4>3. \A j \in DOMAIN E : IsLast(E[j]) => PlaceOfEvent(E[j]) # p
        BY DEF EventsClaim
      <4> QED BY <1>1, <1>3, <3>1, <4>1, <4>2, <4>3
    <3>2. CASE i # n
      <4>1. i \in DOMAIN E /\ F[i] = E[i]
        BY <1>1, <3>2
      <4>2. /\ o[PlaceOfEvent(E[i])].id # 0 /\ o[PlaceOfEvent(E[i])].side = SideOf(E[i])
            /\ \A k \in L : PlaceOfLeaf(k) # PlaceOfEvent(E[i])
            /\ \A j \in DOMAIN E : IsLast(E[j]) /\ PlaceOfEvent(E[i]) = PlaceOfEvent(E[j]) => i = j
        BY <4>1, <2>1 DEF EventsClaim
      <4>3. PlaceOfEvent(E[i]) # p
        BY <4>2
      <4> QED BY <1>1, <4>1, <4>2, <4>3
    <3> QED BY <3>1, <3>2
  <2> QED BY <2>1 DEF EventsClaim
<1>7. OrdersClaimed(o, M, F)
  <2>1. ASSUME NEW q \in Places, o[q].id # 0
        PROVE  \/ \E k \in M : PlaceOfLeaf(k) = q
               \/ \E i \in DOMAIN F : IsLast(F[i]) /\ PlaceOfEvent(F[i]) = q
    <3>1. CASE q = p
      BY <1>1, <3>1
    <3>2. CASE q # p
      <4>1. \/ \E k \in L : PlaceOfLeaf(k) = q
            \/ \E i \in DOMAIN E : IsLast(E[i]) /\ PlaceOfEvent(E[i]) = q
        BY <2>1 DEF OrdersClaimed
      <4>2. CASE \E k \in L : PlaceOfLeaf(k) = q
        BY <4>2, <3>2
      <4>3. CASE \E i \in DOMAIN E : IsLast(E[i]) /\ PlaceOfEvent(E[i]) = q
        BY <4>3, <1>1
      <4> QED BY <4>1, <4>2, <4>3
    <3> QED BY <3>1, <3>2
  <2> QED BY <2>1 DEF OrdersClaimed
<1> QED BY <1>4, <1>6, <1>7 DEF F

\* A leaf that shrank for an event that is not its last keeps its claim.
LEMMA LeafShrinks ==
  ASSUME NEW o \in [Places -> OrderValues], NEW L \in SUBSET LeafValues, NEW E,
         LeavesClaim(o, L), EventsClaim(o, L, E), OrdersClaimed(o, L, E),
         NEW l \in L, NEW n, n \notin DOMAIN E, NEW e, ~IsLast(e),
         NEW m, m.id = l.id, m.tree = l.tree, m.price = l.price, m.peg_limit = l.peg_limit,
         PlaceOfLeaf(m) = PlaceOfLeaf(l)
  PROVE  /\ LeavesClaim(o, (L \ {l}) \cup {m})
         /\ EventsClaim(o, (L \ {l}) \cup {m}, Plus(E, n, e))
         /\ OrdersClaimed(o, (L \ {l}) \cup {m}, Plus(E, n, e))
<1> DEFINE F == Plus(E, n, e)
           M == (L \ {l}) \cup {m}
           p == PlaceOfLeaf(l)
<1>1. /\ DOMAIN F = DOMAIN E \cup {n} /\ F[n] = e /\ \A i \in DOMAIN E : F[i] = E[i]
  BY DEF Plus
<1> HIDE DEF F
<1>2. LeafFits(o[p], m)
  BY DEF LeavesClaim, LeafFits
<1>3. \A i \in DOMAIN F : IsLast(F[i]) => i \in DOMAIN E /\ F[i] = E[i]
  BY <1>1
<1>4. \A i \in DOMAIN E : IsLast(E[i]) => i \in DOMAIN F /\ F[i] = E[i]
  BY <1>1
<1>5. \A k \in M : \E j \in L : PlaceOfLeaf(k) = PlaceOfLeaf(j) /\ k.id = j.id
  OBVIOUS
<1>6. \A k \in L : \E j \in M : PlaceOfLeaf(k) = PlaceOfLeaf(j)
  OBVIOUS
<1>7. LeavesClaim(o, M)
  <2>1. \A k \in M : LeafFits(o[PlaceOfLeaf(k)], k)
    BY <1>2 DEF LeavesClaim
  <2>2. \A k, j \in M : PlaceOfLeaf(k) = PlaceOfLeaf(j) => k = j
    BY DEF LeavesClaim
  <2>3. \A k \in M, q \in Places : o[q].id = k.id => q = PlaceOfLeaf(k)
    BY <1>5 DEF LeavesClaim
  <2> QED BY <2>1, <2>2, <2>3 DEF LeavesClaim
<1> HIDE DEF M
<1>8. EventsClaim(o, M, F)
  <2>1. ASSUME NEW i \in DOMAIN F, IsLast(F[i])
        PROVE  /\ o[PlaceOfEvent(F[i])].id # 0 /\ o[PlaceOfEvent(F[i])].side = SideOf(F[i])
               /\ \A k \in M : PlaceOfLeaf(k) # PlaceOfEvent(F[i])
               /\ \A j \in DOMAIN F : IsLast(F[j]) /\ PlaceOfEvent(F[i]) = PlaceOfEvent(F[j]) => i = j
    <3>1. i \in DOMAIN E /\ F[i] = E[i]
      BY <1>3, <2>1
    <3>2. /\ o[PlaceOfEvent(E[i])].id # 0 /\ o[PlaceOfEvent(E[i])].side = SideOf(E[i])
          /\ \A k \in L : PlaceOfLeaf(k) # PlaceOfEvent(E[i])
          /\ \A j \in DOMAIN E : IsLast(E[j]) /\ PlaceOfEvent(E[i]) = PlaceOfEvent(E[j]) => i = j
      BY <3>1, <2>1 DEF EventsClaim
    <3>3. \A k \in M : PlaceOfLeaf(k) # PlaceOfEvent(E[i])
      BY <3>2, <1>5
    <3> QED BY <3>1, <3>2, <3>3, <1>3
  <2> QED BY <2>1 DEF EventsClaim
<1>9. OrdersClaimed(o, M, F)
  <2>1. ASSUME NEW q \in Places, o[q].id # 0
        PROVE  \/ \E k \in M : PlaceOfLeaf(k) = q
               \/ \E i \in DOMAIN F : IsLast(F[i]) /\ PlaceOfEvent(F[i]) = q
    <3>1. \/ \E k \in L : PlaceOfLeaf(k) = q
          \/ \E i \in DOMAIN E : IsLast(E[i]) /\ PlaceOfEvent(E[i]) = q
      BY <2>1 DEF OrdersClaimed
    <3>2. CASE \E k \in L : PlaceOfLeaf(k) = q
      BY <3>2, <1>6
    <3>3. CASE \E i \in DOMAIN E : IsLast(E[i]) /\ PlaceOfEvent(E[i]) = q
      BY <3>3, <1>4
    <3> QED BY <3>1, <3>2, <3>3
  <2> QED BY <2>1 DEF OrdersClaimed
<1> QED BY <1>7, <1>8, <1>9 DEF F, M

\* Handling an event drops its claim, and a last event frees its slot.
LEMMA EventHandled ==
  ASSUME NEW o \in [Places -> OrderValues], NEW L \in SUBSET LeafValues, NEW E,
         LeavesClaim(o, L), EventsClaim(o, L, E), OrdersClaimed(o, L, E),
         NEW n \in DOMAIN E, PlaceOfEvent(E[n]) \in Places
  PROVE  LET freed == IF IsLast(E[n]) THEN [o EXCEPT ![PlaceOfEvent(E[n])] = FreeSlot] ELSE o
         IN  /\ LeavesClaim(freed, L)
             /\ EventsClaim(freed, L, Minus(E, n))
             /\ OrdersClaimed(freed, L, Minus(E, n))
<1> DEFINE p == PlaceOfEvent(E[n])
           freed == IF IsLast(E[n]) THEN [o EXCEPT ![p] = FreeSlot] ELSE o
           F == Minus(E, n)
<1>1. /\ DOMAIN F = DOMAIN E \ {n} /\ \A i \in DOMAIN E \ {n} : F[i] = E[i]
  BY MinusFacts
<1> HIDE DEF F
<1>2. CASE ~IsLast(E[n])
  <2>1. freed = o
    BY <1>2
  <2> HIDE DEF freed
  <2>2. EventsClaim(o, L, F)
    <3>1. ASSUME NEW i \in DOMAIN F, IsLast(F[i])
          PROVE  /\ o[PlaceOfEvent(F[i])].id # 0 /\ o[PlaceOfEvent(F[i])].side = SideOf(F[i])
                 /\ \A k \in L : PlaceOfLeaf(k) # PlaceOfEvent(F[i])
                 /\ \A j \in DOMAIN F : IsLast(F[j]) /\ PlaceOfEvent(F[i]) = PlaceOfEvent(F[j]) => i = j
      <4>1. i \in DOMAIN E /\ F[i] = E[i] /\ \A j \in DOMAIN F : j \in DOMAIN E /\ F[j] = E[j]
        BY <1>1
      <4> QED BY <4>1, <3>1 DEF EventsClaim
    <3> QED BY <3>1 DEF EventsClaim
  <2>3. OrdersClaimed(o, L, F)
    BY <1>1, <1>2 DEF OrdersClaimed
  <2> QED BY <2>1, <2>2, <2>3 DEF F, freed
<1>3. CASE IsLast(E[n])
  <2>1. freed = [o EXCEPT ![p] = FreeSlot]
    BY <1>3
  <2> HIDE DEF freed
  <2>2. freed[p].id = 0 /\ \A q \in Places : q # p => freed[q] = o[q]
    BY <2>1 DEF FreeSlot
  <2>3. \A k \in L : PlaceOfLeaf(k) # p /\ PlaceOfLeaf(k) \in Places /\ k.id # 0
    BY <1>3 DEF EventsClaim, LeafValues, PlaceOfLeaf, Places
  <2>4. LeavesClaim(freed, L)
    <3>1. \A k \in L : LeafFits(freed[PlaceOfLeaf(k)], k)
      BY <2>2, <2>3 DEF LeavesClaim
    <3>2. ASSUME NEW k \in L, NEW q \in Places, freed[q].id = k.id PROVE q = PlaceOfLeaf(k)
      <4>1. q # p
        BY <2>2, <2>3, <3>2
      <4> QED BY <4>1, <2>2, <3>2 DEF LeavesClaim
    <3> QED BY <3>1, <3>2 DEF LeavesClaim
  <2>5. EventsClaim(freed, L, F)
    <3>1. ASSUME NEW i \in DOMAIN F, IsLast(F[i])
          PROVE  /\ freed[PlaceOfEvent(F[i])].id # 0 /\ freed[PlaceOfEvent(F[i])].side = SideOf(F[i])
                 /\ \A k \in L : PlaceOfLeaf(k) # PlaceOfEvent(F[i])
                 /\ \A j \in DOMAIN F : IsLast(F[j]) /\ PlaceOfEvent(F[i]) = PlaceOfEvent(F[j]) => i = j
      <4>1. i \in DOMAIN E /\ i # n /\ F[i] = E[i] /\ \A j \in DOMAIN F : j \in DOMAIN E /\ F[j] = E[j]
        BY <1>1
      <4>2. /\ o[PlaceOfEvent(E[i])].id # 0 /\ o[PlaceOfEvent(E[i])].side = SideOf(E[i])
            /\ \A k \in L : PlaceOfLeaf(k) # PlaceOfEvent(E[i])
            /\ \A j \in DOMAIN E : IsLast(E[j]) /\ PlaceOfEvent(E[i]) = PlaceOfEvent(E[j]) => i = j
        BY <4>1, <3>1 DEF EventsClaim
      <4>3. PlaceOfEvent(E[i]) # p
        BY <4>1, <4>2, <1>3
      <4>4. freed[PlaceOfEvent(E[i])] = o[PlaceOfEvent(E[i])]
        BY <4>3, <2>1
      <4> QED BY <4>1, <4>2, <4>4
    <3> QED BY <3>1 DEF EventsClaim
  <2>6. OrdersClaimed(freed, L, F)
    <3>1. ASSUME NEW q \in Places, freed[q].id # 0
          PROVE  \/ \E k \in L : PlaceOfLeaf(k) = q
                 \/ \E i \in DOMAIN F : IsLast(F[i]) /\ PlaceOfEvent(F[i]) = q
      <4>1. q # p /\ o[q].id # 0
        BY <2>2, <3>1
      <4>2. \/ \E k \in L : PlaceOfLeaf(k) = q
            \/ \E i \in DOMAIN E : IsLast(E[i]) /\ PlaceOfEvent(E[i]) = q
        BY <4>1 DEF OrdersClaimed
      <4> QED BY <1>1, <4>1, <4>2
    <3> QED BY <3>1 DEF OrdersClaimed
  <2> QED BY <2>4, <2>5, <2>6 DEF F, freed
<1> QED BY <1>2, <1>3

\* A posted order claims the slot it was written to.
LEMMA OrderPosted ==
  ASSUME NEW o \in [Places -> OrderValues], NEW L \in SUBSET LeafValues, NEW E,
         LeavesClaim(o, L), EventsClaim(o, L, E), OrdersClaimed(o, L, E),
         NEW l \in LeafValues, NEW order \in OrderValues, LeafFits(order, l),
         o[PlaceOfLeaf(l)].id = 0,
         \A p \in Places : o[p].id # l.id
  PROVE  LET new == [o EXCEPT ![PlaceOfLeaf(l)] = order]
         IN  /\ LeavesClaim(new, L \cup {l})
             /\ EventsClaim(new, L \cup {l}, E)
             /\ OrdersClaimed(new, L \cup {l}, E)
<1> DEFINE p == PlaceOfLeaf(l)
           new == [o EXCEPT ![p] = order]
           M == L \cup {l}
<1>1. p \in Places /\ l.id # 0
  BY DEF PlaceOfLeaf, Places, LeafValues
<1>2. new[p] = order /\ \A q \in Places : q # p => new[q] = o[q]
  BY <1>1
<1>3. \A q : q # p => new[q] = o[q]
  OBVIOUS
<1> HIDE DEF new
<1>4. \A k \in L : PlaceOfLeaf(k) \in Places /\ k.id # 0 /\ LeafFits(o[PlaceOfLeaf(k)], k)
  BY DEF PlaceOfLeaf, Places, LeafValues, LeavesClaim
<1>5. \A k \in L : PlaceOfLeaf(k) # p /\ k.id # l.id
  BY <1>4 DEF LeafFits
<1>6. order.id = l.id
  BY DEF LeafFits
<1>7. LeavesClaim(new, M)
  <2>1. \A k \in M : LeafFits(new[PlaceOfLeaf(k)], k)
    BY <1>2, <1>4, <1>5
  <2>2. \A k, j \in M : PlaceOfLeaf(k) = PlaceOfLeaf(j) => k = j
    BY <1>5 DEF LeavesClaim
  <2>3. ASSUME NEW k \in M, NEW q \in Places, new[q].id = k.id PROVE q = PlaceOfLeaf(k)
    <3>1. CASE q = p
      BY <3>1, <1>2, <1>5, <1>6, <2>3
    <3>2. CASE q # p
      BY <3>2, <1>2, <2>3 DEF LeavesClaim
    <3> QED BY <3>1, <3>2
  <2> QED BY <2>1, <2>2, <2>3 DEF LeavesClaim
<1>8. EventsClaim(new, M, E)
  <2>1. ASSUME NEW i \in DOMAIN E, IsLast(E[i])
        PROVE  /\ new[PlaceOfEvent(E[i])].id # 0 /\ new[PlaceOfEvent(E[i])].side = SideOf(E[i])
               /\ \A k \in M : PlaceOfLeaf(k) # PlaceOfEvent(E[i])
               /\ \A j \in DOMAIN E : IsLast(E[j]) /\ PlaceOfEvent(E[i]) = PlaceOfEvent(E[j]) => i = j
    <3>1. /\ o[PlaceOfEvent(E[i])].id # 0 /\ o[PlaceOfEvent(E[i])].side = SideOf(E[i])
          /\ \A k \in L : PlaceOfLeaf(k) # PlaceOfEvent(E[i])
          /\ \A j \in DOMAIN E : IsLast(E[j]) /\ PlaceOfEvent(E[i]) = PlaceOfEvent(E[j]) => i = j
      BY <2>1 DEF EventsClaim
    <3>2. PlaceOfEvent(E[i]) # p
      BY <3>1
    <3>3. new[PlaceOfEvent(E[i])] = o[PlaceOfEvent(E[i])]
      BY <1>3, <3>2
    <3> QED BY <3>1, <3>2, <3>3
  <2> QED BY <2>1 DEF EventsClaim
<1>9. OrdersClaimed(new, M, E)
  <2>1. ASSUME NEW q \in Places, new[q].id # 0
        PROVE  \/ \E k \in M : PlaceOfLeaf(k) = q
               \/ \E i \in DOMAIN E : IsLast(E[i]) /\ PlaceOfEvent(E[i]) = q
    <3>1. CASE q = p
      BY <3>1
    <3>2. CASE q # p
      <4>1. o[q].id # 0
        BY <3>2, <1>2, <2>1
      <4>2. \/ \E k \in L : PlaceOfLeaf(k) = q
            \/ \E i \in DOMAIN E : IsLast(E[i]) /\ PlaceOfEvent(E[i]) = q
        BY <4>1 DEF OrdersClaimed
      <4> QED BY <4>2
    <3> QED BY <3>1, <3>2
  <2> QED BY <2>1 DEF OrdersClaimed
<1> QED BY <1>7, <1>8, <1>9 DEF new

\* Claims of events do not depend on how the events are indexed.
LEMMA EventsMoved ==
  ASSUME NEW o, NEW L, NEW E, NEW F, NEW f \in [DOMAIN F -> DOMAIN E],
         EventsClaim(o, L, E), OrdersClaimed(o, L, E),
         \A i, j \in DOMAIN F : f[i] = f[j] => i = j,
         \A i \in DOMAIN E : \E j \in DOMAIN F : f[j] = i,
         \A j \in DOMAIN F : F[j] = E[f[j]]
  PROVE  EventsClaim(o, L, F) /\ OrdersClaimed(o, L, F)
<1>1. \A j \in DOMAIN F : f[j] \in DOMAIN E /\ F[j] = E[f[j]]
  OBVIOUS
<1>2. ASSUME NEW i \in DOMAIN F, IsLast(F[i])
      PROVE  /\ o[PlaceOfEvent(F[i])].id # 0 /\ o[PlaceOfEvent(F[i])].side = SideOf(F[i])
             /\ \A k \in L : PlaceOfLeaf(k) # PlaceOfEvent(F[i])
             /\ \A j \in DOMAIN F : IsLast(F[j]) /\ PlaceOfEvent(F[i]) = PlaceOfEvent(F[j]) => i = j
  <2>1. f[i] \in DOMAIN E /\ F[i] = E[f[i]]
    BY <1>1
  <2>2. /\ o[PlaceOfEvent(E[f[i]])].id # 0 /\ o[PlaceOfEvent(E[f[i]])].side = SideOf(E[f[i]])
        /\ \A k \in L : PlaceOfLeaf(k) # PlaceOfEvent(E[f[i]])
        /\ \A j \in DOMAIN E : IsLast(E[j]) /\ PlaceOfEvent(E[f[i]]) = PlaceOfEvent(E[j]) => f[i] = j
    BY <1>2, <2>1 DEF EventsClaim
  <2>3. ASSUME NEW j \in DOMAIN F, IsLast(F[j]), PlaceOfEvent(F[i]) = PlaceOfEvent(F[j]) PROVE i = j
    <3>1. f[j] \in DOMAIN E /\ F[j] = E[f[j]]
      BY <1>1
    <3>2. f[i] = f[j]
      BY <2>1, <2>2, <2>3, <3>1
    <3> QED BY <3>2
  <2> QED BY <2>1, <2>2, <2>3
<1>3. EventsClaim(o, L, F)
  BY <1>2 DEF EventsClaim
<1>4. ASSUME NEW q \in Places, o[q].id # 0
      PROVE  \/ \E k \in L : PlaceOfLeaf(k) = q
             \/ \E i \in DOMAIN F : IsLast(F[i]) /\ PlaceOfEvent(F[i]) = q
  <2>1. \/ \E k \in L : PlaceOfLeaf(k) = q
        \/ \E i \in DOMAIN E : IsLast(E[i]) /\ PlaceOfEvent(E[i]) = q
    BY <1>4 DEF OrdersClaimed
  <2>2. CASE \E k \in L : PlaceOfLeaf(k) = q
    BY <2>2
  <2>3. CASE \E i \in DOMAIN E : IsLast(E[i]) /\ PlaceOfEvent(E[i]) = q
    <3>1. PICK i \in DOMAIN E : IsLast(E[i]) /\ PlaceOfEvent(E[i]) = q
      BY <2>3
    <3>2. PICK j \in DOMAIN F : f[j] = i
      OBVIOUS
    <3>3. F[j] = E[i]
      BY <1>1, <3>2
    <3> QED BY <3>1, <3>3
  <2> QED BY <2>1, <2>2, <2>3
<1> QED BY <1>3, <1>4 DEF OrdersClaimed

\* The functions and sets the sums below range over.
Summable(g, S) == IsFiniteSet(S) /\ \A x \in S : g[x] \in Int
\* Two functions agree on a set.
Agree(g, h, S) == \A x \in S : h[x] = g[x]
\* A set with one element removed.
Without(S, e) == S \ {e}

\* A summable function has an integer sum.
LEMMA SummableInt ==
  ASSUME NEW g, NEW S, Summable(g, S)
  PROVE  SumFunctionOnSet(g, S) \in Int
BY SumIsInt DEF Summable

\* A sum is one term and the sum over the rest, whichever function agrees there.
LEMMA SumLess ==
  ASSUME NEW g, NEW h, NEW S, NEW e \in S, Summable(g, S), Agree(g, h, Without(S, e))
  PROVE  SumFunctionOnSet(g, S) = g[e] + SumFunctionOnSet(h, Without(S, e))
<1>1. IsFiniteSet(S) /\ \A x \in S : g[x] \in Int
  BY DEF Summable
<1>2. SumFunctionOnSet(g, S) = g[e] + SumFunctionOnSet(g, S \ {e})
  BY <1>1, SumRemove
<1>3. IsFiniteSet(S \ {e}) /\ \A x \in S \ {e} : g[x] \in Int /\ h[x] = g[x]
  BY <1>1, FS_Subset DEF Agree, Without
<1>4. SumFunctionOnSet(g, S \ {e}) = SumFunctionOnSet(h, S \ {e})
  BY ONLY <1>3, SumEqual
<1> QED BY <1>2, <1>4 DEF Without

\* Changing one term changes the sum by the difference.
LEMMA SumUpdate ==
  ASSUME NEW g, NEW h, NEW S, NEW e \in S, Summable(g, S), h[e] \in Int, Agree(g, h, Without(S, e))
  PROVE  SumFunctionOnSet(h, S) = SumFunctionOnSet(g, S) - g[e] + h[e]
<1>1. IsFiniteSet(S) /\ \A x \in S : g[x] \in Int
  BY DEF Summable
<1>2. IsFiniteSet(S) /\ \A x \in S : h[x] \in Int
  BY <1>1 DEF Agree, Without
<1>3. SumFunctionOnSet(g, S) = g[e] + SumFunctionOnSet(h, Without(S, e))
  BY SumLess
<1>4. SumFunctionOnSet(h, S) = h[e] + SumFunctionOnSet(h, S \ {e})
  BY <1>2, SumRemove
<1> DEFINE rest == SumFunctionOnSet(h, S \ {e})
           x == g[e]
           y == h[e]
<1>5. rest \in Int /\ x \in Int /\ y \in Int
  <2>1. IsFiniteSet(S \ {e}) /\ \A z \in S \ {e} : h[z] \in Int
    BY <1>2, FS_Subset
  <2>2. rest \in Int
    BY ONLY <2>1, SumIsInt
  <2> QED BY <1>1, <2>2
<1>6. SumFunctionOnSet(g, S) = x + rest /\ SumFunctionOnSet(h, S) = y + rest
  BY <1>3, <1>4 DEF Without
<1> HIDE DEF rest, x, y
<1>7. SumFunctionOnSet(h, S) = SumFunctionOnSet(g, S) - x + y
  BY <1>5, <1>6
<1> QED BY <1>7 DEF x, y

\* A leaf locks a natural number of each kind.
LEMMA LeafLocksNat ==
  ASSUME NEW o \in [Places -> OrderValues], NEW l \in LeafValues, NEW a, NEW kind \in Kinds
  PROVE  LeafLocks(kind, o, a, l) \in Nat
<1> DEFINE order == o[PlaceOfLeaf(l)]
<1>1. PlaceOfLeaf(l) \in Places /\ l.quantity \in Nat
  BY DEF PlaceOfLeaf, Places, LeafValues
<1>2. order \in OrderValues
  BY <1>1
<1>3. order.side \in Sides /\ order.locked_price \in Nat
  BY <1>2 DEF OrderValues
<1> DEFINE side == order.side
           price == order.locked_price
           q == l.quantity
<1>4. LeafLocks(kind, o, a, l) = IF l.owner = a THEN Locks(kind, side, q, price) ELSE 0
  BY DEF LeafLocks, OrderLocks
<1> HIDE DEF order
<1>5. side \in Sides /\ price \in Nat /\ q \in Nat
  BY <1>1, <1>3
<1> HIDE DEF side, price, q
<1>6. Locks(kind, side, q, price) \in Nat
  BY ONLY <1>5, LocksFacts, kind \in Kinds
<1> QED BY <1>4, <1>6

\* So does a fill.
LEMMA FillLocksNat ==
  ASSUME NEW e \in FillEvents, EventOk(e), NEW kind \in Kinds
  PROVE  FillLocks(kind, e) \in Nat
<1> DEFINE t == FillTerms(e)
           side == t.side
           price == t.locked_price
           q == e.quantity
<1>1. side \in Sides /\ price \in Nat \ {0} /\ t.locked_fees \in Nat
  BY FillTermsFacts
<1>2. q \in Nat
  BY DEF FillEvents
<1>3. FillLocks(kind, e) = IF kind = "fees" THEN IF t.side = "Bid" THEN t.locked_fees ELSE 0
                           ELSE Locks(kind, side, q, price)
  BY DEF FillLocks
<1> HIDE DEF t, side, price, q
<1>4. side \in Sides /\ price \in Nat /\ q \in Nat
  BY <1>1, <1>2
<1>5. Locks(kind, side, q, price) \in Nat
  BY ONLY <1>4, LocksFacts, kind \in Kinds
<1> QED BY <1>1, <1>3, <1>5

\* An event is an out or a fill, of a known account and slot, of some lots.
LEMMA EventKinds ==
  ASSUME NEW e \in EventValues
  PROVE  /\ EventOk(e)
         /\ \/ e \in OutEvents /\ e.kind = "Out"
            \/ e \in FillEvents /\ e.kind = "Fill"
         /\ AccountOf(e) \in Accounts /\ SlotOf(e) \in OrderSlots
         /\ PlaceOfEvent(e) \in Places
         /\ e.quantity \in Nat \ {0}
<1>1. EventOk(e) /\ e \in OutEvents \cup FillEvents
  BY DEF EventValues
<1>2. CASE e \in OutEvents
  <2>1. e.kind = "Out" /\ e.owner \in Accounts /\ e.owner_slot \in OrderSlots /\ e.quantity \in Nat \ {0}
    BY <1>2 DEF OutEvents
  <2> QED BY <1>1, <1>2, <2>1 DEF AccountOf, SlotOf, PlaceOfEvent, Places
<1>3. CASE e \in FillEvents
  <2>1. e.kind = "Fill" /\ e.maker \in Accounts /\ e.maker_slot \in OrderSlots /\ e.quantity \in Nat \ {0}
    BY <1>3 DEF FillEvents
  <2> QED BY <1>1, <1>3, <2>1 DEF AccountOf, SlotOf, PlaceOfEvent, Places
<1> QED BY <1>1, <1>2, <1>3

\* An event locks a natural number of each kind.
LEMMA EventLocksNat ==
  ASSUME NEW o \in [Places -> OrderValues], NEW e \in EventValues, NEW a, NEW kind \in Kinds
  PROVE  EventLocks(kind, o, a, e) \in Nat
<1>1. CASE e \in FillEvents /\ e.kind = "Fill"
  <2>1. FillLocks(kind, e) \in Nat
    BY <1>1, EventKinds, FillLocksNat
  <2> QED BY <1>1, <2>1 DEF EventLocks
<1>2. CASE e \in OutEvents /\ e.kind = "Out"
  <2> DEFINE order == o[PlaceOfEvent(e)]
             side == order.side
             price == order.locked_price
             q == e.quantity
  <2>1. order \in OrderValues /\ q \in Nat
    BY EventKinds
  <2>2. side \in Sides /\ price \in Nat /\ q \in Nat
    BY <2>1 DEF OrderValues
  <2>3. EventLocks(kind, o, a, e) = IF AccountOf(e) # a THEN 0 ELSE Locks(kind, side, q, price)
    BY <1>2 DEF EventLocks, OrderLocks
  <2> HIDE DEF side, price, q
  <2>4. Locks(kind, side, q, price) \in Nat
    BY ONLY <2>2, LocksFacts, kind \in Kinds
  <2> QED BY <2>3, <2>4
<1> QED BY <1>1, <1>2, EventKinds

\* What an event is still due is an integer.
LEMMA DueInt ==
  ASSUME NEW e \in EventValues, NEW unit \in Units
  PROVE  Due(unit, e) \in Int
<1>1. CASE e \in FillEvents /\ e.kind = "Fill"
  <2> DEFINE t == FillTerms(e)
             native == e.quantity * base_lot_size
  <2>1. t.rebate \in Nat /\ t.quote \in Nat
    BY <1>1, EventKinds, FillTermsFacts
  <2>2. native \in Nat
    BY EventKinds, FeeAssumption
  <2>3. /\ FillDue("base", e) = (IF t.side = "Bid" THEN native ELSE -native)
        /\ FillDue("quote", e) = t.rebate + (IF t.side = "Ask" THEN t.quote ELSE -t.quote)
        /\ FillDue("rebates", e) = 0
    BY DEF FillDue
  <2> HIDE DEF t, native
  <2>4. FillDue(unit, e) \in Int
    BY <2>1, <2>2, <2>3 DEF Units
  <2> QED BY <1>1, <2>4 DEF Due
<1>2. CASE e.kind = "Out"
  BY <1>2 DEF Due
<1> QED BY <1>1, <1>2, EventKinds

\* What a set of leaves locks is what one of them locks and what the rest lock.
LEMMA LeafTaken ==
  ASSUME NEW o \in [Places -> OrderValues], NEW L \in SUBSET LeafValues, IsFiniteSet(L),
         NEW a, NEW kind \in Kinds
  PROVE  /\ LeavesLock(kind, o, a, L) \in Nat
         /\ \A l \in L : LeavesLock(kind, o, a, L) = LeafLocks(kind, o, a, l)
                                                    + LeavesLock(kind, o, a, L \ {l})
<1> DEFINE g == [l \in L |-> LeafLocks(kind, o, a, l)]
           h(l) == [k \in L \ {l} |-> LeafLocks(kind, o, a, k)]
<1>1. \A l \in L : g[l] \in Nat
  BY LeafLocksNat
<1>2. Summable(g, L)
  BY <1>1 DEF Summable
<1>3. LeavesLock(kind, o, a, L) = SumFunctionOnSet(g, L)
  BY DEF LeavesLock
<1>4. LeavesLock(kind, o, a, L) \in Nat
  <2> HIDE DEF g
  <2>1. SumFunctionOnSet(g, L) \in Nat
    BY <1>1, SumBounds
  <2> QED BY <1>3, <2>1
<1>5. ASSUME NEW l \in L
      PROVE  LeavesLock(kind, o, a, L) = LeafLocks(kind, o, a, l) + LeavesLock(kind, o, a, L \ {l})
  <2>1. Agree(g, h(l), Without(L, l)) /\ g[l] = LeafLocks(kind, o, a, l)
    BY DEF Agree, Without
  <2>2. LeavesLock(kind, o, a, L \ {l}) = SumFunctionOnSet(h(l), L \ {l})
    BY DEF LeavesLock
  <2> HIDE DEF g, h
  <2>3. SumFunctionOnSet(g, L) = g[l] + SumFunctionOnSet(h(l), Without(L, l))
    BY <1>2, <2>1, SumLess
  <2> QED BY <1>3, <2>1, <2>2, <2>3 DEF Without
<1> QED BY <1>4, <1>5

\* The same, for a leaf added to the set.
LEMMA LeafAdded ==
  ASSUME NEW o \in [Places -> OrderValues], NEW L \in SUBSET LeafValues, IsFiniteSet(L),
         NEW a, NEW kind \in Kinds, NEW l \in LeafValues, l \notin L
  PROVE  LeavesLock(kind, o, a, L \cup {l}) = LeafLocks(kind, o, a, l) + LeavesLock(kind, o, a, L)
<1> DEFINE M == L \cup {l}
<1>1. M \in SUBSET LeafValues /\ IsFiniteSet(M) /\ l \in M /\ M \ {l} = L
  BY FS_AddElement
<1> HIDE DEF M
<1>2. LeavesLock(kind, o, a, M) = LeafLocks(kind, o, a, l) + LeavesLock(kind, o, a, M \ {l})
  BY <1>1, LeafTaken
<1> QED BY <1>1, <1>2 DEF M

\* What waiting events lock is what one of them locks and what the rest lock.
LEMMA EventTaken ==
  ASSUME NEW o \in [Places -> OrderValues], NEW E, EventsOk(E), NEW a, NEW kind \in Kinds
  PROVE  /\ EventsLock(kind, o, a, E) \in Nat
         /\ \A n \in DOMAIN E : EventsLock(kind, o, a, E) = EventLocks(kind, o, a, E[n])
                                                           + EventsLock(kind, o, a, Minus(E, n))
<1> DEFINE D == DOMAIN E
           g == [i \in D |-> EventLocks(kind, o, a, E[i])]
           F(n) == Minus(E, n)
           h(n) == [i \in DOMAIN F(n) |-> EventLocks(kind, o, a, F(n)[i])]
<1>0. IsFiniteSet(D) /\ \A i \in D : E[i] \in EventValues
  BY DEF EventsOk
<1>1. \A i \in D : g[i] \in Nat
  BY <1>0, EventLocksNat
<1>2. Summable(g, D)
  BY <1>0, <1>1 DEF Summable
<1>3. EventsLock(kind, o, a, E) = SumFunctionOnSet(g, D)
  BY DEF EventsLock
<1>4. EventsLock(kind, o, a, E) \in Nat
  <2> HIDE DEF g, D
  <2>1. SumFunctionOnSet(g, D) \in Nat
    BY <1>0, <1>1, SumBounds
  <2> QED BY <1>3, <2>1
<1>5. ASSUME NEW n \in D
      PROVE  EventsLock(kind, o, a, E) = EventLocks(kind, o, a, E[n]) + EventsLock(kind, o, a, Minus(E, n))
  <2>0. DOMAIN F(n) = D \ {n} /\ \A i \in D \ {n} : F(n)[i] = E[i]
    BY MinusFacts
  <2>1. Agree(g, h(n), Without(D, n)) /\ g[n] = EventLocks(kind, o, a, E[n])
    BY <2>0 DEF Agree, Without
  <2>2. EventsLock(kind, o, a, F(n)) = SumFunctionOnSet(h(n), Without(D, n))
    BY <2>0 DEF EventsLock, Without
  <2> HIDE DEF g, h, D, F
  <2>3. SumFunctionOnSet(g, D) = g[n] + SumFunctionOnSet(h(n), Without(D, n))
    BY <1>2, <2>1, SumLess
  <2> QED BY <1>3, <2>1, <2>2, <2>3 DEF F
<1> QED BY <1>4, <1>5

\* One more event is still a well-formed collection, and removing it gives the first one
\* back.
LEMMA EventsOkPlus ==
  ASSUME NEW E, EventsOk(E), NEW n, n \notin DOMAIN E, NEW e \in EventValues
  PROVE  /\ EventsOk(Plus(E, n, e)) /\ n \in DOMAIN Plus(E, n, e)
         /\ Plus(E, n, e)[n] = e
         /\ DOMAIN Minus(Plus(E, n, e), n) = DOMAIN E
         /\ \A i \in DOMAIN E : Minus(Plus(E, n, e), n)[i] = E[i]
<1>1. DOMAIN Plus(E, n, e) = DOMAIN E \cup {n} /\ Plus(E, n, e)[n] = e
      /\ \A i \in DOMAIN E : Plus(E, n, e)[i] = E[i]
  BY DEF Plus
<1>2. IsFiniteSet(DOMAIN E \cup {n})
  BY FS_AddElement DEF EventsOk
<1>3. EventsOk(Plus(E, n, e))
  BY <1>1, <1>2 DEF EventsOk
<1> DEFINE F == Plus(E, n, e)
<1> HIDE DEF F
<1>4. DOMAIN Minus(F, n) = DOMAIN F \ {n} /\ \A i \in DOMAIN F \ {n} : Minus(F, n)[i] = F[i]
  BY MinusFacts
<1> QED BY <1>1, <1>3, <1>4 DEF F

\* One event less is still a well-formed collection.
LEMMA EventsOkMinus ==
  ASSUME NEW E, EventsOk(E), NEW n
  PROVE  EventsOk(Minus(E, n))
<1>1. DOMAIN Minus(E, n) = DOMAIN E \ {n} /\ \A i \in DOMAIN E \ {n} : Minus(E, n)[i] = E[i]
  BY MinusFacts, Zenon
<1>2. IsFiniteSet(DOMAIN E \ {n})
  BY FS_RemoveElement DEF EventsOk
<1> QED BY <1>1, <1>2 DEF EventsOk

\* Collections with the same events lock and are due the same.
LEMMA SameEvents ==
  ASSUME NEW E, NEW F, DOMAIN E = DOMAIN F, \A i \in DOMAIN E : E[i] = F[i]
  PROVE  /\ \A kind, o, a : EventsLock(kind, o, a, E) = EventsLock(kind, o, a, F)
         /\ \A unit : DueToAll(unit, E) = DueToAll(unit, F)
<1>1. ASSUME NEW kind, NEW o, NEW a PROVE EventsLock(kind, o, a, E) = EventsLock(kind, o, a, F)
  <2>1. [i \in DOMAIN E |-> EventLocks(kind, o, a, E[i])] = [i \in DOMAIN F |-> EventLocks(kind, o, a, F[i])]
    OBVIOUS
  <2> QED BY <2>1 DEF EventsLock
<1>2. ASSUME NEW unit PROVE DueToAll(unit, E) = DueToAll(unit, F)
  <2>1. [i \in DOMAIN E |-> Due(unit, E[i])] = [i \in DOMAIN F |-> Due(unit, F[i])]
    OBVIOUS
  <2> QED BY <2>1 DEF DueToAll
<1> QED BY <1>1, <1>2

\* What the events lock once one is added.
LEMMA EventAdded ==
  ASSUME NEW o \in [Places -> OrderValues], NEW E, EventsOk(E), NEW a, NEW kind \in Kinds,
         NEW n, n \notin DOMAIN E, NEW e \in EventValues
  PROVE  EventsLock(kind, o, a, Plus(E, n, e)) = EventLocks(kind, o, a, e)
                                                 + EventsLock(kind, o, a, E)
<1> DEFINE F == Plus(E, n, e)
<1>1. /\ EventsOk(F) /\ n \in DOMAIN F /\ F[n] = e
      /\ DOMAIN Minus(F, n) = DOMAIN E /\ \A i \in DOMAIN E : Minus(F, n)[i] = E[i]
  BY EventsOkPlus
<1> HIDE DEF F
<1>2. EventsLock(kind, o, a, F) = EventLocks(kind, o, a, F[n]) + EventsLock(kind, o, a, Minus(F, n))
  BY <1>1, EventTaken
<1>3. EventsLock(kind, o, a, Minus(F, n)) = EventsLock(kind, o, a, E)
  BY <1>1, SameEvents
<1> QED BY <1>1, <1>2, <1>3 DEF F

\* What the events are due is what one is due and what the rest are due.
LEMMA DueTaken ==
  ASSUME NEW E, EventsOk(E), NEW unit \in Units
  PROVE  /\ DueToAll(unit, E) \in Int
         /\ \A n \in DOMAIN E : DueToAll(unit, E) = Due(unit, E[n]) + DueToAll(unit, Minus(E, n))
<1> DEFINE D == DOMAIN E
           g == [i \in D |-> Due(unit, E[i])]
           F(n) == Minus(E, n)
           h(n) == [i \in DOMAIN F(n) |-> Due(unit, F(n)[i])]
<1>0. IsFiniteSet(D) /\ \A i \in D : E[i] \in EventValues
  BY DEF EventsOk
<1>1. \A i \in D : g[i] \in Int
  BY <1>0, DueInt
<1>2. Summable(g, D)
  BY <1>0, <1>1 DEF Summable
<1>3. DueToAll(unit, E) = SumFunctionOnSet(g, D)
  BY DEF DueToAll
<1>4. DueToAll(unit, E) \in Int
  <2> HIDE DEF g, D
  <2> QED BY <1>2, <1>3, SummableInt
<1>5. ASSUME NEW n \in D
      PROVE  DueToAll(unit, E) = Due(unit, E[n]) + DueToAll(unit, Minus(E, n))
  <2>0. DOMAIN F(n) = D \ {n} /\ \A i \in D \ {n} : F(n)[i] = E[i]
    BY MinusFacts
  <2>1. Agree(g, h(n), Without(D, n)) /\ g[n] = Due(unit, E[n])
    BY <2>0 DEF Agree, Without
  <2>2. DueToAll(unit, F(n)) = SumFunctionOnSet(h(n), Without(D, n))
    BY <2>0 DEF DueToAll, Without
  <2> HIDE DEF g, h, D, F
  <2>3. SumFunctionOnSet(g, D) = g[n] + SumFunctionOnSet(h(n), Without(D, n))
    BY <1>2, <2>1, SumLess
  <2> QED BY <1>3, <2>1, <2>2, <2>3 DEF F
<1> QED BY <1>4, <1>5

\* What the events are due once one is added.
LEMMA DueAdded ==
  ASSUME NEW E, EventsOk(E), NEW unit \in Units, NEW n, n \notin DOMAIN E, NEW e \in EventValues
  PROVE  DueToAll(unit, Plus(E, n, e)) = Due(unit, e) + DueToAll(unit, E)
<1> DEFINE F == Plus(E, n, e)
<1>1. /\ EventsOk(F) /\ n \in DOMAIN F /\ F[n] = e
      /\ DOMAIN Minus(F, n) = DOMAIN E /\ \A i \in DOMAIN E : Minus(F, n)[i] = E[i]
  BY EventsOkPlus
<1> HIDE DEF F
<1>2. DueToAll(unit, F) = Due(unit, F[n]) + DueToAll(unit, Minus(F, n))
  BY <1>1, DueTaken
<1>3. DueToAll(unit, Minus(F, n)) = DueToAll(unit, E)
  BY <1>1, SameEvents
<1> QED BY <1>1, <1>2, <1>3 DEF F

\* What an account is owed is an integer.
LEMMA OwedToInt ==
  ASSUME NEW acc \in AccountValues, NEW unit \in Units
  PROVE  OwedTo(unit, acc) \in Int
<1> DEFINE bl == acc.bids_quote_lots
           al == acc.asks_base_lots
<1>1. /\ acc.quote_free_native \in Int /\ bl \in Int /\ al \in Int
      /\ acc.locked_maker_fees \in Int /\ acc.base_free_native \in Int
      /\ acc.referrer_rebates_available \in Int
      /\ quote_lot_size \in Int /\ base_lot_size \in Int
  BY FeeAssumption DEF AccountValues
<1>2. bl * quote_lot_size \in Int /\ al * base_lot_size \in Int
  BY <1>1
<1> QED BY <1>1, <1>2, OwedFacts DEF Units

\* Replacing one account changes the total owed by the difference of what the two are owed.
LEMMA OwedUpdate ==
  ASSUME NEW accs \in [Accounts -> AccountValues], NEW a \in Accounts,
         NEW acc \in AccountValues, NEW unit \in Units
  PROVE  /\ OwedToAll(unit, accs) \in Int
         /\ OwedToAll(unit, [accs EXCEPT ![a] = acc])
              = OwedToAll(unit, accs) - OwedTo(unit, accs[a]) + OwedTo(unit, acc)
<1> DEFINE new == [accs EXCEPT ![a] = acc]
           g == [b \in Accounts |-> OwedTo(unit, accs[b])]
           h == [b \in Accounts |-> OwedTo(unit, new[b])]
<1>1. IsFiniteSet(Accounts)
  BY OpenBookAssumption
<1>2. Summable(g, Accounts)
  BY <1>1, OwedToInt DEF Summable
<1>3. OwedToAll(unit, accs) = SumFunctionOnSet(g, Accounts) /\ OwedToAll(unit, new) = SumFunctionOnSet(h, Accounts)
  BY DEF OwedToAll
<1>4. g[a] = OwedTo(unit, accs[a]) /\ h[a] = OwedTo(unit, acc) /\ h[a] \in Int
  BY OwedToInt
<1>5. Agree(g, h, Without(Accounts, a))
  BY DEF Agree, Without
<1> HIDE DEF new, g, h
<1>6. SumFunctionOnSet(h, Accounts) = SumFunctionOnSet(g, Accounts) - g[a] + h[a]
  BY <1>2, <1>4, <1>5, SumUpdate
<1>7. SumFunctionOnSet(g, Accounts) \in Int
  BY <1>2, SummableInt
<1> QED BY <1>3, <1>4, <1>6, <1>7 DEF new

\* Fewer leaves in both trees use at most as many nodes.
LEMMA NodesMonotone ==
  ASSUME NEW bs, NEW new,
         \A tree \in Trees : /\ Cardinality(LeavesOf(new, tree)) \in Nat
                             /\ Cardinality(LeavesOf(bs, tree)) \in Nat
                             /\ Cardinality(LeavesOf(new, tree)) <= Cardinality(LeavesOf(bs, tree))
  PROVE  UsedNodes(new) <= UsedNodes(bs) /\ UsedNodes(bs) \in Nat
<1> DEFINE a == Cardinality(LeavesOf(new, "Fixed"))
           b == Cardinality(LeavesOf(new, "OraclePegged"))
           c == Cardinality(LeavesOf(bs, "Fixed"))
           d == Cardinality(LeavesOf(bs, "OraclePegged"))
<1>1. a \in Nat /\ b \in Nat /\ c \in Nat /\ d \in Nat /\ a <= c /\ b <= d
  BY DEF Trees
<1>2. UsedNodes(new) = NodesOfTree(a) + NodesOfTree(b) /\ UsedNodes(bs) = NodesOfTree(c) + NodesOfTree(d)
  BY DEF UsedNodes
<1> HIDE DEF a, b, c, d
<1> QED BY <1>1, <1>2 DEF NodesOfTree

\* The leaves of a sound book: finite, well formed, with numbers already issued.
LEMMA AllLeavesFacts ==
  ASSUME NEW b, NEW o, NEW ids, BookOk(b, o, ids)
  PROVE  /\ AllLeaves(b) \in SUBSET LeafValues /\ IsFiniteSet(AllLeaves(b))
         /\ \A l \in AllLeaves(b) : LeafOk(l) /\ l.id <= ids
         /\ \A side \in Sides : b[side].leaves \subseteq AllLeaves(b)
         /\ \A l \in AllLeaves(b) : \E side \in Sides : l \in b[side].leaves
<1>1. \A side \in Sides : /\ b[side].leaves \in SUBSET LeafValues /\ IsFiniteSet(b[side].leaves)
                          /\ \A l \in b[side].leaves : LeafOk(l) /\ l.id <= ids
  BY DEF BookOk, SideOk
<1>2. AllLeaves(b) = b["Bid"].leaves \cup b["Ask"].leaves
  BY DEF AllLeaves
<1>3. IsFiniteSet(AllLeaves(b))
  BY <1>1, <1>2, FS_Union DEF Sides
<1> QED BY <1>1, <1>2, <1>3 DEF Sides

\* Removing a leaf leaves a sound book that lost exactly that leaf.
LEMMA BookLess ==
  ASSUME NEW b, NEW o, NEW ids, BookOk(b, o, ids), NEW side \in Sides, NEW l \in b[side].leaves
  PROVE  LET new == [b EXCEPT ![side] = remove_leaf(@, l)]
         IN  /\ BookOk(new, o, ids)
             /\ AllLeaves(new) = AllLeaves(b) \ {l}
             /\ new[side].leaves = b[side].leaves \ {l}
             /\ \A other \in Sides : other # side => new[other] = b[other]
<1> DEFINE new == [b EXCEPT ![side] = remove_leaf(@, l)]
           bs == b[side]
           ns == remove_leaf(bs, l)
<1>0. /\ \A s \in Sides : SideOk(b[s], ids) /\ \A k \in b[s].leaves : o[PlaceOfLeaf(k)].side = s
      /\ b = [s \in Sides |-> b[s]]
  BY DEF BookOk
<1>1. /\ bs.leaves \in SUBSET LeafValues /\ bs.bump \in 0 .. MAX_ORDERTREE_NODES
      /\ bs = [leaves |-> bs.leaves, bump |-> bs.bump]
      /\ IsFiniteSet(bs.leaves) /\ UsedNodes(bs) <= bs.bump
      /\ \A k \in bs.leaves : LeafOk(k) /\ k.id <= ids
  BY <1>0 DEF SideOk
<1>2. ns = [leaves |-> bs.leaves \ {l}, bump |-> bs.bump]
  <2>1. bs \in [leaves : SUBSET LeafValues, bump : 0 .. MAX_ORDERTREE_NODES]
    BY <1>0 DEF SideOk
  <2>2. ns = [bs EXCEPT !.leaves = bs.leaves \ {l}]
    BY DEF remove_leaf
  <2> HIDE DEF bs, ns
  <2> QED BY <2>1, <2>2
<1>3. new = [b EXCEPT ![side] = ns] /\ side \in DOMAIN b
  BY <1>0
<1> HIDE DEF ns, new
<1>4. new[side] = ns /\ (\A s \in Sides : s # side => new[s] = b[s]) /\ new = [s \in Sides |-> new[s]]
  BY <1>0, <1>3
<1>5. IsFiniteSet(ns.leaves) /\ ns.leaves = bs.leaves \ {l} /\ ns.bump = bs.bump
  BY <1>1, <1>2, FS_RemoveElement
<1>6. UsedNodes(ns) <= UsedNodes(bs) /\ UsedNodes(bs) \in Nat
  <2>1. ASSUME NEW tree \in Trees
        PROVE  /\ Cardinality(LeavesOf(ns, tree)) \in Nat /\ Cardinality(LeavesOf(bs, tree)) \in Nat
               /\ Cardinality(LeavesOf(ns, tree)) <= Cardinality(LeavesOf(bs, tree))
    <3>1. LeavesOf(ns, tree) \subseteq LeavesOf(bs, tree) /\ LeavesOf(bs, tree) \subseteq bs.leaves
      BY <1>5 DEF LeavesOf
    <3>2. IsFiniteSet(LeavesOf(bs, tree))
      BY <3>1, <1>1, FS_Subset
    <3> QED BY <3>1, <3>2, FS_Subset, FS_CardinalityType
  <2> QED BY <2>1, NodesMonotone
<1>7. UsedNodes(ns) \in Nat
  <2>1. ASSUME NEW tree \in Trees
        PROVE  Cardinality(LeavesOf(ns, tree)) \in Nat
    <3>1. LeavesOf(ns, tree) \subseteq ns.leaves
      BY DEF LeavesOf
    <3> QED BY <3>1, <1>5, FS_Subset, FS_CardinalityType
  <2> QED BY <2>1, NodesMonotone
<1>8. SideOk(ns, ids)
  <2>1. UsedNodes(ns) <= ns.bump
    BY <1>1, <1>5, <1>6, <1>7
  <2>2. ns \in [leaves : SUBSET LeafValues, bump : 0 .. MAX_ORDERTREE_NODES]
    BY <1>1, <1>2
  <2> QED BY <2>1, <2>2, <1>1, <1>5 DEF SideOk
<1>9. BookOk(new, o, ids)
  BY <1>0, <1>4, <1>5, <1>8 DEF BookOk
<1>10. \A s \in Sides : s # side => l \notin b[s].leaves
  BY <1>0
<1>11. AllLeaves(new) = AllLeaves(b) \ {l}
  <2>1. CASE side = "Bid"
    <3>1. new["Bid"].leaves = b["Bid"].leaves \ {l} /\ new["Ask"] = b["Ask"] /\ l \notin b["Ask"].leaves
      BY <2>1, <1>4, <1>5, <1>10 DEF Sides
    <3> QED BY <3>1 DEF AllLeaves
  <2>2. CASE side = "Ask"
    <3>1. new["Ask"].leaves = b["Ask"].leaves \ {l} /\ new["Bid"] = b["Bid"] /\ l \notin b["Bid"].leaves
      BY <2>2, <1>4, <1>5, <1>10 DEF Sides
    <3> QED BY <3>1 DEF AllLeaves
  <2> QED BY <2>1, <2>2 DEF Sides
<1> QED BY <1>4, <1>5, <1>9, <1>11 DEF new

\* Reducing a leaf leaves a sound book in which only that leaf changed.
LEMMA BookReduced ==
  ASSUME NEW b, NEW o, NEW ids, BookOk(b, o, ids), NEW side \in Sides, NEW l \in b[side].leaves,
         NEW q \in Nat \ {0}, NEW m, m = [l EXCEPT !.quantity = q], NEW ns,
         ns = [leaves |-> (b[side].leaves \ {l}) \cup {m}, bump |-> b[side].bump]
  PROVE  LET new == [b EXCEPT ![side] = ns]
         IN  /\ BookOk(new, o, ids)
             /\ AllLeaves(new) = (AllLeaves(b) \ {l}) \cup {m}
             /\ new[side].leaves = (b[side].leaves \ {l}) \cup {m}
             /\ \A other \in Sides : other # side => new[other] = b[other]
             /\ m \in LeafValues
<1> DEFINE new == [b EXCEPT ![side] = ns]
           bs == b[side]
<1>0. /\ \A s \in Sides : SideOk(b[s], ids) /\ \A k \in b[s].leaves : o[PlaceOfLeaf(k)].side = s
      /\ b = [s \in Sides |-> b[s]]
  BY DEF BookOk
<1>1. /\ bs.leaves \in SUBSET LeafValues /\ bs.bump \in 0 .. MAX_ORDERTREE_NODES
      /\ IsFiniteSet(bs.leaves) /\ UsedNodes(bs) <= bs.bump
      /\ \A k \in bs.leaves : LeafOk(k) /\ k.id <= ids
  BY <1>0 DEF SideOk
<1>2. l \in LeafValues /\ LeafOk(l) /\ l.id <= ids
  BY <1>1
<1>3. m \in LeafValues /\ m.tree = l.tree /\ m.price = l.price /\ m.peg_limit = l.peg_limit
      /\ m.id = l.id /\ m.owner = l.owner /\ m.owner_slot = l.owner_slot
  BY <1>2 DEF LeafValues
<1>4. LeafOk(m) /\ m.id <= ids /\ PlaceOfLeaf(m) = PlaceOfLeaf(l)
  BY <1>2, <1>3 DEF LeafOk, PlaceOfLeaf
<1>5. ns.leaves = (bs.leaves \ {l}) \cup {m} /\ ns.bump = bs.bump
  OBVIOUS
<1>6. side \in DOMAIN b
  BY <1>0
<1> HIDE DEF new
<1>7. new[side] = ns /\ (\A s \in Sides : s # side => new[s] = b[s]) /\ new = [s \in Sides |-> new[s]]
  BY <1>0, <1>6 DEF new
<1>8. IsFiniteSet(ns.leaves)
  <2>1. IsFiniteSet(bs.leaves \ {l})
    BY <1>1, FS_RemoveElement
  <2>2. IsFiniteSet((bs.leaves \ {l}) \cup {m})
    BY <2>1, FS_AddElement, Zenon
  <2> QED BY <2>2, <1>5
<1>9. /\ UsedNodes(ns) <= UsedNodes(bs) /\ UsedNodes(bs) \in Nat
  <2>1. ASSUME NEW tree \in Trees
        PROVE  /\ Cardinality(LeavesOf(ns, tree)) \in Nat /\ Cardinality(LeavesOf(bs, tree)) \in Nat
               /\ Cardinality(LeavesOf(ns, tree)) <= Cardinality(LeavesOf(bs, tree))
    <3> DEFINE A == LeavesOf(bs, tree)
               B == LeavesOf(ns, tree)
    <3>1. A \subseteq bs.leaves /\ B \subseteq ns.leaves
      BY DEF LeavesOf
    <3>2. IsFiniteSet(A) /\ IsFiniteSet(B) /\ Cardinality(A) \in Nat /\ Cardinality(B) \in Nat
      BY <3>1, <1>1, <1>8, FS_Subset, FS_CardinalityType
    <3>3. CASE l.tree = tree
      <4>1. B = (A \ {l}) \cup {m} /\ l \in A
        BY <1>3, <1>5, <3>3, Zenon DEF LeavesOf
      <4>2. IsFiniteSet(A \ {l}) /\ Cardinality(A \ {l}) = Cardinality(A) - 1
        BY <3>2, <4>1, FS_RemoveElement
      <4> HIDE DEF A, B
      <4>3. Cardinality(B) <= Cardinality(A \ {l}) + 1
        <5>1. CASE m \in A \ {l}
          <6>1. B = A \ {l}
            BY <4>1, <5>1
          <6> QED BY <6>1, <4>2, <3>2
        <5>2. CASE m \notin A \ {l}
          BY <4>1, <4>2, <5>2, <3>2, FS_AddElement
        <5> QED BY <5>1, <5>2
      <4> QED BY <4>2, <4>3, <3>2 DEF A, B
    <3>4. CASE l.tree # tree
      <4>1. B = A
        BY <1>3, <1>5, <3>4 DEF LeavesOf
      <4> HIDE DEF A, B
      <4> QED BY <4>1, <3>2 DEF A, B
    <3> QED BY <3>3, <3>4
  <2> QED BY <2>1, NodesMonotone
<1>10. UsedNodes(ns) \in Nat
  <2>1. ASSUME NEW tree \in Trees
        PROVE  Cardinality(LeavesOf(ns, tree)) \in Nat /\ Cardinality(LeavesOf(ns, tree)) <= Cardinality(LeavesOf(ns, tree))
    <3>1. LeavesOf(ns, tree) \subseteq ns.leaves
      BY DEF LeavesOf
    <3>2. Cardinality(LeavesOf(ns, tree)) \in Nat
      BY <3>1, <1>8, FS_Subset, FS_CardinalityType
    <3> QED BY <3>2
  <2> QED BY ONLY <2>1, NodesMonotone
<1>11. SideOk(ns, ids)
  <2>1. UsedNodes(ns) <= ns.bump
    BY <1>1, <1>5, <1>9, <1>10
  <2>2. ns \in [leaves : SUBSET LeafValues, bump : 0 .. MAX_ORDERTREE_NODES]
    BY <1>1, <1>3
  <2>3. \A k \in ns.leaves : LeafOk(k) /\ k.id <= ids
    BY <1>1, <1>4, <1>5
  <2> QED BY <2>1, <2>2, <2>3, <1>8 DEF SideOk
<1>12. \A k \in ns.leaves : o[PlaceOfLeaf(k)].side = side
  BY <1>0, <1>4, <1>5
<1>13. BookOk(new, o, ids)
  BY <1>0, <1>7, <1>11, <1>12 DEF BookOk
<1>14. \A s \in Sides : s # side => l \notin b[s].leaves
  BY <1>0
<1>15. AllLeaves(new) = (AllLeaves(b) \ {l}) \cup {m}
  <2>1. CASE side = "Bid"
    <3>1. new["Bid"].leaves = (b["Bid"].leaves \ {l}) \cup {m} /\ new["Ask"] = b["Ask"] /\ l \notin b["Ask"].leaves
      BY <2>1, <1>5, <1>7, <1>14 DEF Sides
    <3> QED BY <3>1 DEF AllLeaves
  <2>2. CASE side = "Ask"
    <3>1. new["Ask"].leaves = (b["Ask"].leaves \ {l}) \cup {m} /\ new["Bid"] = b["Bid"] /\ l \notin b["Bid"].leaves
      BY <2>2, <1>5, <1>7, <1>14 DEF Sides
    <3> QED BY <3>1 DEF AllLeaves
  <2> QED BY <2>1, <2>2 DEF Sides
<1> QED BY <1>3, <1>5, <1>7, <1>13, <1>15 DEF new

\* Inserting a new leaf leaves a sound book that gained exactly that leaf.
LEMMA BookMore ==
  ASSUME NEW b, NEW o, NEW ids, BookOk(b, o, ids), NEW side \in Sides, NEW l \in LeafValues,
         LeafOk(l), NEW new_ids \in Nat, ids \in Nat, ids <= new_ids, l.id <= new_ids,
         can_insert(b[side], l.tree), NEW p, p = PlaceOfLeaf(l),
         \A k \in AllLeaves(b) : PlaceOfLeaf(k) # p,
         NEW order, order.side = side, NEW no, no[p] = order,
         \A k \in AllLeaves(b) : no[PlaceOfLeaf(k)] = o[PlaceOfLeaf(k)]
  PROVE  LET new == [b EXCEPT ![side] = insert_leaf(@, l)]
         IN  /\ BookOk(new, no, new_ids)
             /\ AllLeaves(new) = AllLeaves(b) \cup {l} /\ l \notin AllLeaves(b)
             /\ new[side].leaves = b[side].leaves \cup {l}
             /\ \A other \in Sides : other # side => new[other] = b[other]
<1> DEFINE new == [b EXCEPT ![side] = insert_leaf(@, l)]
           bs == b[side]
           ns == insert_leaf(bs, l)
<1>0. /\ \A s \in Sides : SideOk(b[s], ids) /\ \A k \in b[s].leaves : o[PlaceOfLeaf(k)].side = s
      /\ b = [s \in Sides |-> b[s]]
  BY DEF BookOk
<1>1. /\ bs.leaves \in SUBSET LeafValues /\ bs.bump \in 0 .. MAX_ORDERTREE_NODES
      /\ IsFiniteSet(bs.leaves) /\ UsedNodes(bs) <= bs.bump
      /\ \A k \in bs.leaves : LeafOk(k) /\ k.id <= ids
  BY <1>0 DEF SideOk
<1>2. /\ \A s \in Sides : b[s].leaves \subseteq AllLeaves(b)
      /\ \A k \in AllLeaves(b) : k.id <= ids /\ k.id \in Nat
  BY AllLeavesFacts DEF LeafValues
<1>3. l \notin AllLeaves(b)
  OBVIOUS
<1>4. ns = [leaves |-> bs.leaves \cup {l}, bump |-> BumpAfterInsert(bs, l.tree)]
  BY DEF insert_leaf
<1>5. new = [b EXCEPT ![side] = ns] /\ side \in DOMAIN b
  BY <1>0
<1> HIDE DEF ns, new
<1>6. new[side] = ns /\ (\A s \in Sides : s # side => new[s] = b[s]) /\ new = [s \in Sides |-> new[s]]
  BY <1>0, <1>5
<1>7. ns.leaves = bs.leaves \cup {l} /\ ns.bump = BumpAfterInsert(bs, l.tree) /\ IsFiniteSet(ns.leaves)
  BY <1>1, <1>4, FS_AddElement
<1> DEFINE f == Cardinality(LeavesOf(bs, "Fixed"))
           p2 == Cardinality(LeavesOf(bs, "OraclePegged"))
           f1 == Cardinality(LeavesOf(ns, "Fixed"))
           p1 == Cardinality(LeavesOf(ns, "OraclePegged"))
<1>8. \A tree \in Trees : /\ IsFiniteSet(LeavesOf(bs, tree)) /\ Cardinality(LeavesOf(bs, tree)) \in Nat
                          /\ l \notin LeavesOf(bs, tree)
                          /\ (LeavesOf(bs, tree) = {} <=> Cardinality(LeavesOf(bs, tree)) = 0)
                          /\ LeavesOf(ns, tree) = IF tree = l.tree THEN LeavesOf(bs, tree) \cup {l} ELSE LeavesOf(bs, tree)
  <2>1. ASSUME NEW tree \in Trees
        PROVE  /\ IsFiniteSet(LeavesOf(bs, tree)) /\ Cardinality(LeavesOf(bs, tree)) \in Nat
               /\ l \notin LeavesOf(bs, tree)
               /\ (LeavesOf(bs, tree) = {} <=> Cardinality(LeavesOf(bs, tree)) = 0)
               /\ LeavesOf(ns, tree) = IF tree = l.tree THEN LeavesOf(bs, tree) \cup {l} ELSE LeavesOf(bs, tree)
    <3>1. LeavesOf(bs, tree) \subseteq bs.leaves /\ l \notin LeavesOf(bs, tree)
      BY <1>2, <1>3 DEF LeavesOf
    <3>2. IsFiniteSet(LeavesOf(bs, tree))
      BY <3>1, <1>1, FS_Subset
    <3>3. Cardinality(LeavesOf(bs, tree)) \in Nat
          /\ (LeavesOf(bs, tree) = {} <=> Cardinality(LeavesOf(bs, tree)) = 0)
      BY <3>2, FS_CardinalityType, FS_EmptySet
    <3>4. LeavesOf(ns, tree) = IF tree = l.tree THEN LeavesOf(bs, tree) \cup {l} ELSE LeavesOf(bs, tree)
      BY <1>7 DEF LeavesOf
    <3> QED BY <3>1, <3>2, <3>3, <3>4
  <2> QED BY <2>1
<1>9. \A tree \in Trees : Cardinality(LeavesOf(ns, tree)) = Cardinality(LeavesOf(bs, tree)) + (IF tree = l.tree THEN 1 ELSE 0)
  <2>1. ASSUME NEW tree \in Trees
        PROVE  Cardinality(LeavesOf(ns, tree)) = Cardinality(LeavesOf(bs, tree)) + (IF tree = l.tree THEN 1 ELSE 0)
    BY <1>8, FS_AddElement
  <2> QED BY <2>1
<1>10. f \in Nat /\ p2 \in Nat /\ l.tree \in Trees /\ bs.bump \in Nat
       /\ UsedNodes(bs) = NodesOfTree(f) + NodesOfTree(p2) /\ UsedNodes(ns) = NodesOfTree(f1) + NodesOfTree(p1)
       /\ f1 = f + (IF l.tree = "Fixed" THEN 1 ELSE 0) /\ p1 = p2 + (IF l.tree = "OraclePegged" THEN 1 ELSE 0)
       /\ (LeavesOf(bs, l.tree) = {} <=> (IF l.tree = "Fixed" THEN f ELSE p2) = 0)
  BY <1>1, <1>8, <1>9 DEF UsedNodes, Trees, LeafValues
<1> HIDE DEF f, p1, f1, p2
<1>11. UsedNodes(ns) <= ns.bump /\ ns.bump \in 0 .. MAX_ORDERTREE_NODES
  <2> DEFINE used == UsedNodes(bs)
             needed == IF LeavesOf(bs, l.tree) = {} THEN 1 ELSE 2
             missing == needed - (bs.bump - used)
  <2>1. used \in Nat /\ used <= bs.bump /\ UsedNodes(ns) = used + needed
    <3>1. CASE l.tree = "Fixed"
      BY <3>1, <1>1, <1>10 DEF NodesOfTree
    <3>2. CASE l.tree = "OraclePegged"
      BY <3>2, <1>1, <1>10 DEF NodesOfTree
    <3> QED BY <3>1, <3>2, <1>10 DEF Trees
  <2>2. ns.bump = bs.bump + IF missing > 0 THEN missing ELSE 0
    BY <1>7 DEF BumpAfterInsert, free_list_len
  <2>3. ns.bump <= MAX_ORDERTREE_NODES
    BY <1>7 DEF can_insert
  <2>4. needed \in {1, 2}
    OBVIOUS
  <2> HIDE DEF used, needed
  <2> QED BY <2>1, <2>2, <2>3, <2>4, <1>10, BookSideAssumption
<1>12. SideOk(ns, new_ids)
  <2>1. ns \in [leaves : SUBSET LeafValues, bump : 0 .. MAX_ORDERTREE_NODES]
    <3>1. ns = [leaves |-> ns.leaves, bump |-> ns.bump] /\ ns.leaves \in SUBSET LeafValues
      BY <1>1, <1>4, <1>7
    <3> QED BY <3>1, <1>11
  <2>2. \A k \in ns.leaves : LeafOk(k) /\ k.id <= new_ids
    <3>1. \A k \in bs.leaves : LeafOk(k) /\ k.id <= ids /\ k.id \in Nat
      BY <1>1, <1>2
    <3> QED BY <3>1, <1>7
  <2> QED BY <2>1, <2>2, <1>7, <1>11 DEF SideOk
<1>13. \A s \in Sides : SideOk(b[s], new_ids)
  <2>1. ASSUME NEW s \in Sides PROVE SideOk(b[s], new_ids)
    <3>1. \A k \in b[s].leaves : k.id <= new_ids
      BY <1>2
    <3>2. SideOk(b[s], ids)
      BY <1>0
    <3> QED BY <3>1, <3>2 DEF SideOk
  <2> QED BY <2>1
<1>14. \A s \in Sides : \A k \in b[s].leaves : no[PlaceOfLeaf(k)].side = s
  BY <1>0, <1>2
<1>15. \A k \in ns.leaves : no[PlaceOfLeaf(k)].side = side
  BY <1>7, <1>14
<1>16. BookOk(new, no, new_ids)
  BY <1>6, <1>12, <1>13, <1>14, <1>15 DEF BookOk
<1>17. AllLeaves(new) = AllLeaves(b) \cup {l}
  <2>1. CASE side = "Bid"
    <3>1. new["Bid"].leaves = b["Bid"].leaves \cup {l} /\ new["Ask"] = b["Ask"]
      BY <2>1, <1>6, <1>7 DEF Sides
    <3> QED BY <3>1 DEF AllLeaves
  <2>2. CASE side = "Ask"
    <3>1. new["Ask"].leaves = b["Ask"].leaves \cup {l} /\ new["Bid"] = b["Bid"]
      BY <2>2, <1>6, <1>7 DEF Sides
    <3> QED BY <3>1 DEF AllLeaves
  <2> QED BY <2>1, <2>2 DEF Sides
<1> QED BY <1>3, <1>6, <1>7, <1>16, <1>17, Zenon DEF new

\* The orders of all accounts as one function of account and slot.
LEMMA OrdersOfType ==
  ASSUME NEW accs \in [Accounts -> AccountValues]
  PROVE  /\ OrdersOf(accs) \in [Places -> OrderValues]
         /\ \A a \in Accounts, slot \in OrderSlots :
              OrdersOf(accs)[<<a, slot>>] = accs[a].open_orders[slot]
<1>1. ASSUME NEW p \in Places PROVE accs[p[1]].open_orders[p[2]] \in OrderValues
  <2>1. p[1] \in Accounts /\ p[2] \in OrderSlots
    BY DEF Places
  <2>2. accs[p[1]] \in AccountValues
    BY <2>1
  <2>3. accs[p[1]].open_orders \in [OrderSlots -> OrderValues]
    BY <2>2 DEF AccountValues
  <2> QED BY <2>1, <2>3
<1>2. OrdersOf(accs) \in [Places -> OrderValues]
  BY <1>1 DEF OrdersOf
<1>3. \A a \in Accounts, slot \in OrderSlots : OrdersOf(accs)[<<a, slot>>] = accs[a].open_orders[slot]
  BY DEF OrdersOf, Places
<1> QED BY <1>2, <1>3

\* Held counters are integers.
LEMMA HeldInt ==
  ASSUME NEW acc \in AccountValues, NEW kind \in Kinds
  PROVE  Held(kind, acc) \in Int
BY HeldFacts DEF Kinds, AccountValues

\* Coverage, at one account and kind.
LEMMA CoveredAt ==
  ASSUME NEW accs, NEW L, NEW E, NEW lock, Covered(accs, L, E, lock),
         NEW a \in Accounts, NEW kind \in Kinds
  PROVE  Covers(kind, Held(kind, accs[a]) - (IF kind = "fees" THEN lock[a] ELSE 0),
                LeavesLock(kind, OrdersOf(accs), a, L) + EventsLock(kind, OrdersOf(accs), a, E))
BY DEF Covered

\* Coverage survives an event that locks no more than the book released for it.
LEMMA CoveredPlus ==
  ASSUME NEW accs \in [Accounts -> AccountValues], NEW L \in SUBSET LeafValues, IsFiniteSet(L),
         NEW M \in SUBSET LeafValues, IsFiniteSet(M), NEW E, EventsOk(E),
         NEW n, n \notin DOMAIN E, NEW e \in EventValues,
         NEW lock \in [Accounts -> Nat], Covered(accs, L, E, lock),
         \A a \in Accounts, kind \in Kinds :
           Covers(kind, LeavesLock(kind, OrdersOf(accs), a, L),
                  LeavesLock(kind, OrdersOf(accs), a, M) + EventLocks(kind, OrdersOf(accs), a, e))
  PROVE  Covered(accs, M, Plus(E, n, e), lock)
<1> DEFINE o == OrdersOf(accs)
           F == Plus(E, n, e)
<1>1. o \in [Places -> OrderValues]
  BY OrdersOfType
<1>2. ASSUME NEW a \in Accounts, NEW kind \in Kinds
      PROVE  Covers(kind, Held(kind, accs[a]) - (IF kind = "fees" THEN lock[a] ELSE 0),
                    LeavesLock(kind, o, a, M) + EventsLock(kind, o, a, F))
  <2> DEFINE x == Held(kind, accs[a]) - (IF kind = "fees" THEN lock[a] ELSE 0)
             ll == LeavesLock(kind, o, a, L)
             lm == LeavesLock(kind, o, a, M)
             le == EventsLock(kind, o, a, E)
             lf == EventsLock(kind, o, a, F)
             d == EventLocks(kind, o, a, e)
  <2>1. Covers(kind, x, ll + le)
    BY ONLY Covered(accs, L, E, lock), CoveredAt, a \in Accounts, kind \in Kinds
  <2>2. Covers(kind, ll, lm + d)
    OBVIOUS
  <2>3. x \in Int
    <3>1. accs[a] \in AccountValues /\ lock[a] \in Int
      OBVIOUS
    <3>2. Held(kind, accs[a]) \in Int
      BY <3>1, HeldInt
    <3> QED BY <3>1, <3>2
  <2> HIDE DEF o, x
  <2>4. ll \in Int /\ lm \in Int /\ le \in Int /\ d \in Int
    BY <1>1, LeafTaken, EventTaken, EventLocksNat
  <2>5. lf = d + le
    BY <1>1, EventAdded
  <2> HIDE DEF ll, lm, le, lf, d
  <2>6. Covers(kind, x, lm + lf)
    BY <2>1, <2>2, <2>3, <2>4, <2>5 DEF Covers
  <2> QED BY <2>6 DEF x, lm, lf
<1> HIDE DEF F
<1> QED BY <1>2 DEF Covered, F

\* The totals owed and due are integers.
LEMMA OwedInt ==
  ASSUME NEW accs \in [Accounts -> AccountValues], NEW E, EventsOk(E), NEW unit \in Units
  PROVE  OwedToAll(unit, accs) \in Int /\ DueToAll(unit, E) \in Int
<1>1. DueToAll(unit, E) \in Int
  BY DueTaken
<1>2. CASE Accounts = {}
  <2>1. OwedToAll(unit, accs) = 0
    BY <1>2, SumValues, FS_EmptySet DEF OwedToAll
  <2> QED BY <1>1, <2>1
<1>3. CASE Accounts # {}
  <2>1. PICK a \in Accounts : TRUE
    BY <1>3
  <2>2. accs[a] \in AccountValues
    OBVIOUS
  <2> QED BY <1>1, <2>2, OwedUpdate
<1> QED BY <1>2, <1>3

\* A new event shifts what the instruction still has to pay in by what the event is due.
LEMMA FundsPlus ==
  ASSUME NEW m \in MarketValues, NEW accs \in [Accounts -> AccountValues], NEW E, EventsOk(E),
         NEW base \in Int, NEW quote \in Int, Funds(m, accs, E, base, quote),
         NEW n, n \notin DOMAIN E, NEW e \in EventValues
  PROVE  Funds(m, accs, Plus(E, n, e), base + Due("base", e), quote + Due("quote", e))
<1> DEFINE F == Plus(E, n, e)
<1>1. ASSUME NEW unit \in Units
      PROVE  /\ Owed(unit, accs, F) = Owed(unit, accs, E) + Due(unit, e)
             /\ Owed(unit, accs, E) \in Int /\ Due(unit, e) \in Int
  <2>1. OwedToAll(unit, accs) \in Int /\ DueToAll(unit, E) \in Int /\ Due(unit, e) \in Int
    BY OwedInt, DueInt
  <2>2. DueToAll(unit, F) = Due(unit, e) + DueToAll(unit, E)
    BY DueAdded
  <2> HIDE DEF F
  <2> QED BY <2>1, <2>2 DEF Owed
<1>2. Due("rebates", e) = 0
  BY DEF Due, FillDue
<1>3. m.base_deposit_total \in Int /\ m.quote_deposit_total \in Int /\ m.fees_available \in Int
      /\ m.referrer_rebates_accrued \in Int
  BY DEF MarketValues
<1>4. "base" \in Units /\ "quote" \in Units /\ "rebates" \in Units
  BY DEF Units
<1>5. /\ m.base_deposit_total + base = Owed("base", accs, E)
      /\ m.quote_deposit_total + quote = Owed("quote", accs, E) + m.fees_available
      /\ m.referrer_rebates_accrued = Owed("rebates", accs, E)
  BY DEF Funds
<1> HIDE DEF F
<1>6. m.base_deposit_total + (base + Due("base", e)) = Owed("base", accs, F)
  BY <1>1, <1>3, <1>4, <1>5
<1>7. m.quote_deposit_total + (quote + Due("quote", e)) = Owed("quote", accs, F) + m.fees_available
  <2> DEFINE x == Owed("quote", accs, E)
             y == Owed("quote", accs, F)
             d == Due("quote", e)
             t == m.quote_deposit_total
             f == m.fees_available
  <2>1. y = x + d /\ x \in Int /\ d \in Int
    BY <1>1, <1>4
  <2>2. t + quote = x + f /\ t \in Int /\ f \in Int
    BY <1>3, <1>5
  <2> HIDE DEF x, y, d, t, f
  <2>3. t + (quote + d) = y + f
    BY <2>1, <2>2
  <2> QED BY <2>3 DEF y, d, t, f
<1>8. m.referrer_rebates_accrued = Owed("rebates", accs, F)
  BY <1>1, <1>2, <1>4, <1>5
<1> QED BY <1>6, <1>7, <1>8 DEF Funds, F

\* What a sane state gives, part by part.
LEMMA SaneParts ==
  ASSUME NEW s, NEW E, NEW base, NEW quote, NEW lock, NEW w, Sane(s, E, base, quote, lock, w)
  PROVE  /\ base \in Int /\ quote \in Int /\ lock \in [Accounts -> Nat]
         /\ s.mkt \in MarketValues /\ TotalsOk(s.mkt, w) /\ w.ids \in Nat
         /\ s.oo \in [Accounts -> AccountValues] /\ AccountsOk(s.oo, w.ids)
         /\ OrdersOf(s.oo) \in [Places -> OrderValues]
         /\ BookOk(s.book, OrdersOf(s.oo), w.ids)
         /\ HeapOk(s.heap) /\ EventsOk(E)
         /\ AllLeaves(s.book) \in SUBSET LeafValues /\ IsFiniteSet(AllLeaves(s.book))
         /\ Claims(s.oo, AllLeaves(s.book), E)
         /\ LeavesClaim(OrdersOf(s.oo), AllLeaves(s.book))
         /\ EventsClaim(OrdersOf(s.oo), AllLeaves(s.book), E)
         /\ OrdersClaimed(OrdersOf(s.oo), AllLeaves(s.book), E)
         /\ OwnersOpen(s.oo, AllLeaves(s.book), E)
         /\ Covered(s.oo, AllLeaves(s.book), E, lock)
         /\ Funds(s.mkt, s.oo, E, base, quote)
<1>1. /\ base \in Int /\ quote \in Int /\ lock \in [Accounts -> Nat]
      /\ TotalsOk(s.mkt, w) /\ AccountsOk(s.oo, w.ids)
      /\ BookOk(s.book, OrdersOf(s.oo), w.ids)
      /\ HeapOk(s.heap) /\ EventsOk(E)
      /\ Claims(s.oo, AllLeaves(s.book), E)
      /\ Covered(s.oo, AllLeaves(s.book), E, lock)
      /\ Funds(s.mkt, s.oo, E, base, quote)
  BY DEF Sane
<1>2. s.mkt \in MarketValues /\ w.ids \in Nat
  BY <1>1 DEF TotalsOk
<1>3. s.oo \in [Accounts -> AccountValues]
  BY <1>1 DEF AccountsOk
<1>4. OrdersOf(s.oo) \in [Places -> OrderValues]
  BY <1>3, OrdersOfType
<1>5. AllLeaves(s.book) \in SUBSET LeafValues /\ IsFiniteSet(AllLeaves(s.book))
  BY <1>1, AllLeavesFacts
<1>6. /\ LeavesClaim(OrdersOf(s.oo), AllLeaves(s.book))
      /\ EventsClaim(OrdersOf(s.oo), AllLeaves(s.book), E)
      /\ OrdersClaimed(OrdersOf(s.oo), AllLeaves(s.book), E)
      /\ OwnersOpen(s.oo, AllLeaves(s.book), E)
  BY <1>1 DEF Claims
<1> QED BY <1>1, <1>2, <1>3, <1>4, <1>5, <1>6

\* The owners of the leaves and events are still open when an event of one of them is added.
LEMMA OwnersPlus ==
  ASSUME NEW accs, NEW L, NEW E, OwnersOpen(accs, L, E), NEW l \in L, NEW M,
         \A k \in M : \E j \in L : k.owner = j.owner,
         NEW n, n \notin DOMAIN E, NEW e, AccountOf(e) = l.owner
  PROVE  OwnersOpen(accs, M, Plus(E, n, e))
<1>1. DOMAIN Plus(E, n, e) = DOMAIN E \cup {n} /\ Plus(E, n, e)[n] = e
      /\ \A i \in DOMAIN E : Plus(E, n, e)[i] = E[i]
  BY DEF Plus
<1> HIDE DEF Plus
<1>2. \A k \in M : accs[k.owner].open
  BY DEF OwnersOpen
<1>3. \A i \in DOMAIN Plus(E, n, e) : accs[AccountOf(Plus(E, n, e)[i])].open
  <2>1. ASSUME NEW i \in DOMAIN Plus(E, n, e) PROVE accs[AccountOf(Plus(E, n, e)[i])].open
    <3>1. CASE i = n
      BY <1>1, <3>1 DEF OwnersOpen
    <3>2. CASE i # n
      BY <1>1, <3>2 DEF OwnersOpen
    <3> QED BY <3>1, <3>2
  <2> QED BY <2>1
<1> QED BY <1>2, <1>3 DEF OwnersOpen

\* A leaf removed from the book for a last event of its order leaves a sane state.
LEMMA LeafOut ==
  ASSUME NEW s, NEW E, NEW base, NEW quote, NEW lock, NEW w, Sane(s, E, base, quote, lock, w),
         NEW side \in Sides, NEW l \in s.book[side].leaves,
         NEW n, n \notin DOMAIN E, NEW e \in EventValues, IsLast(e),
         PlaceOfEvent(e) = PlaceOfLeaf(l), SideOf(e) = side,
         \A kind \in Kinds : Covers(kind, LeafLocks(kind, OrdersOf(s.oo), l.owner, l),
                                    EventLocks(kind, OrdersOf(s.oo), l.owner, e)),
         NEW r, r.mkt = s.mkt, r.oo = s.oo, HeapOk(r.heap),
         r.book = [s.book EXCEPT ![side] = remove_leaf(@, l)]
  PROVE  Sane(r, Plus(E, n, e), base + Due("base", e), quote + Due("quote", e), lock, w)
<1> DEFINE L == AllLeaves(s.book)
           M == L \ {l}
           F == Plus(E, n, e)
           o == OrdersOf(s.oo)
           ids == w.ids
           nb == [s.book EXCEPT ![side] = remove_leaf(@, l)]
<1>1. /\ base \in Int /\ quote \in Int /\ lock \in [Accounts -> Nat]
      /\ s.mkt \in MarketValues /\ TotalsOk(s.mkt, w) /\ w.ids \in Nat
      /\ s.oo \in [Accounts -> AccountValues] /\ AccountsOk(s.oo, w.ids)
      /\ o \in [Places -> OrderValues]
      /\ BookOk(s.book, o, ids)
      /\ HeapOk(s.heap) /\ EventsOk(E)
      /\ L \in SUBSET LeafValues /\ IsFiniteSet(L)
      /\ Claims(s.oo, L, E)
      /\ LeavesClaim(o, L) /\ EventsClaim(o, L, E) /\ OrdersClaimed(o, L, E)
      /\ OwnersOpen(s.oo, L, E)
      /\ Covered(s.oo, L, E, lock)
      /\ Funds(s.mkt, s.oo, E, base, quote)
  BY ONLY Sane(s, E, base, quote, lock, w), SaneParts
<1>2. BookOk(nb, o, ids) /\ AllLeaves(nb) = L \ {l}
  BY <1>1, BookLess
<1>3. l \in L
  BY <1>1, AllLeavesFacts
<1>4. o[PlaceOfLeaf(l)].side = side
  BY <1>1 DEF BookOk
<1> HIDE DEF nb
<1>5. r.book = nb
  BY DEF nb
<1> HIDE DEF L, F, o, ids
<1>6. LeavesClaim(o, M) /\ EventsClaim(o, M, F) /\ OrdersClaimed(o, M, F)
  BY <1>1, <1>3, <1>4, LeafToEvent DEF F
<1>7. AccountOf(e) = l.owner
  BY DEF PlaceOfEvent, PlaceOfLeaf
<1>8. OwnersOpen(s.oo, M, F)
  BY <1>1, <1>3, <1>7, OwnersPlus DEF F
<1>9. M \in SUBSET LeafValues /\ IsFiniteSet(M)
  BY <1>1, FS_RemoveElement
<1>10. ASSUME NEW a \in Accounts, NEW kind \in Kinds
       PROVE  Covers(kind, LeavesLock(kind, o, a, L), LeavesLock(kind, o, a, M) + EventLocks(kind, o, a, e))
  <2> DEFINE ll == LeavesLock(kind, o, a, L)
             lm == LeavesLock(kind, o, a, M)
             x == LeafLocks(kind, o, a, l)
             d == EventLocks(kind, o, a, e)
  <2>1. ll = x + lm /\ ll \in Int /\ lm \in Int
    BY <1>1, <1>3, <1>9, LeafTaken
  <2>2. x \in Int /\ d \in Int
    BY <1>1, <1>3, LeafLocksNat, EventLocksNat
  <2>3. Covers(kind, x, d)
    <3>1. CASE a = l.owner
      BY <3>1 DEF o
    <3>2. CASE a # l.owner
      <4>1. x = 0 /\ d = 0
        BY <3>2, <1>7 DEF LeafLocks, EventLocks
      <4> QED BY <4>1 DEF Covers
    <3> QED BY <3>1, <3>2
  <2> HIDE DEF ll, lm, x, d
  <2>4. Covers(kind, ll, lm + d)
    BY <2>1, <2>2, <2>3 DEF Covers
  <2> QED BY <2>4 DEF ll, lm, d
<1>11. Covered(s.oo, M, F, lock)
  BY <1>1, <1>9, <1>10, CoveredPlus DEF o, F
<1>12. Funds(s.mkt, s.oo, F, base + Due("base", e), quote + Due("quote", e))
  BY <1>1, FundsPlus DEF F
<1>13. EventsOk(F)
  BY <1>1, EventsOkPlus DEF F
<1>14. base + Due("base", e) \in Int /\ quote + Due("quote", e) \in Int
  BY <1>1, DueInt DEF Units
<1> HIDE DEF M
<1>15. Sane(r, F, base + Due("base", e), quote + Due("quote", e), lock, w)
  <2>1. AllLeaves(r.book) = M /\ BookOk(r.book, OrdersOf(r.oo), w.ids)
    BY <1>2, <1>5 DEF M, o, ids
  <2>2. Claims(r.oo, M, F)
    BY <1>6, <1>8 DEF Claims, o
  <2> QED BY <1>1, <1>11, <1>12, <1>13, <1>14, <2>1, <2>2 DEF Sane
<1> QED BY <1>15 DEF F

\* A leaf reduced for an event that is not the last of its order leaves a sane state.
LEMMA LeafReduced ==
  ASSUME NEW s, NEW E, NEW base, NEW quote, NEW lock, NEW w, Sane(s, E, base, quote, lock, w),
         NEW side \in Sides, NEW l \in s.book[side].leaves,
         NEW q \in Nat \ {0}, NEW m, m = [l EXCEPT !.quantity = q],
         NEW n, n \notin DOMAIN E, NEW e \in EventValues, ~IsLast(e), AccountOf(e) = l.owner,
          \A kind \in Kinds : Covers(kind, LeafLocks(kind, OrdersOf(s.oo), l.owner, l),
                                     LeafLocks(kind, OrdersOf(s.oo), l.owner, m)
                                     + EventLocks(kind, OrdersOf(s.oo), l.owner, e)),
         NEW r, r.mkt = s.mkt, r.oo = s.oo, HeapOk(r.heap), NEW ns,
         ns = [leaves |-> (s.book[side].leaves \ {l}) \cup {m}, bump |-> s.book[side].bump],
         r.book = [s.book EXCEPT ![side] = ns]
  PROVE  Sane(r, Plus(E, n, e), base + Due("base", e), quote + Due("quote", e), lock, w)
<1> DEFINE L == AllLeaves(s.book)
           M == (L \ {l}) \cup {m}
           F == Plus(E, n, e)
           o == OrdersOf(s.oo)
           ids == w.ids
           nb == [s.book EXCEPT ![side] = ns]
<1>1. /\ base \in Int /\ quote \in Int /\ lock \in [Accounts -> Nat]
      /\ s.mkt \in MarketValues /\ TotalsOk(s.mkt, w) /\ w.ids \in Nat
      /\ s.oo \in [Accounts -> AccountValues] /\ AccountsOk(s.oo, w.ids)
      /\ o \in [Places -> OrderValues]
      /\ BookOk(s.book, o, ids)
      /\ HeapOk(s.heap) /\ EventsOk(E)
      /\ L \in SUBSET LeafValues /\ IsFiniteSet(L)
      /\ Claims(s.oo, L, E)
      /\ LeavesClaim(o, L) /\ EventsClaim(o, L, E) /\ OrdersClaimed(o, L, E)
      /\ OwnersOpen(s.oo, L, E)
      /\ Covered(s.oo, L, E, lock)
      /\ Funds(s.mkt, s.oo, E, base, quote)
  BY ONLY Sane(s, E, base, quote, lock, w), SaneParts
<1>2. /\ BookOk(nb, o, ids) /\ AllLeaves(nb) = (L \ {l}) \cup {m} /\ m \in LeafValues
  <2>1. BookOk(s.book, o, ids) /\ side \in Sides /\ l \in s.book[side].leaves /\ q \in Nat \ {0}
        /\ m = [l EXCEPT !.quantity = q]
        /\ ns = [leaves |-> (s.book[side].leaves \ {l}) \cup {m}, bump |-> s.book[side].bump]
    BY <1>1
  <2> HIDE DEF o, ids
  <2>2. /\ BookOk(nb, o, ids)
        /\ AllLeaves(nb) = (AllLeaves(s.book) \ {l}) \cup {m}
        /\ nb[side].leaves = (s.book[side].leaves \ {l}) \cup {m}
        /\ \A other \in Sides : other # side => nb[other] = s.book[other]
        /\ m \in LeafValues
    BY ONLY <2>1, BookReduced
  <2> QED BY <2>2
<1>3. l \in L
  BY <1>1, AllLeavesFacts
<1>4. m.id = l.id /\ m.tree = l.tree /\ m.price = l.price /\ m.peg_limit = l.peg_limit
      /\ m.owner = l.owner /\ m.owner_slot = l.owner_slot
  BY <1>1, <1>3 DEF LeafValues
<1> HIDE DEF nb
<1>5. r.book = nb
  BY DEF nb
<1> HIDE DEF L, F, o, ids
<1>6. PlaceOfLeaf(m) = PlaceOfLeaf(l)
  BY <1>4 DEF PlaceOfLeaf
<1>7. LeavesClaim(o, M) /\ EventsClaim(o, M, F) /\ OrdersClaimed(o, M, F)
  BY <1>1, <1>3, <1>4, <1>6, LeafShrinks, Zenon DEF F
<1>8. OwnersOpen(s.oo, M, F)
  <2>1. \A k \in M : \E j \in L : k.owner = j.owner
    BY <1>3, <1>4, Zenon
  <2> QED BY <1>1, <1>3, <2>1, OwnersPlus DEF F
<1>9. M \in SUBSET LeafValues /\ IsFiniteSet(M) /\ L \ {l} \in SUBSET LeafValues /\ IsFiniteSet(L \ {l})
  <2>1. IsFiniteSet(L \ {l})
    BY <1>1, FS_RemoveElement
  <2> QED BY <1>1, <1>2, <2>1, FS_AddElement, Zenon
<1>10. m \notin L \ {l}
  BY <1>1, <1>3, <1>6 DEF LeavesClaim
<1>11. ASSUME NEW a \in Accounts, NEW kind \in Kinds
       PROVE  Covers(kind, LeavesLock(kind, o, a, L), LeavesLock(kind, o, a, M) + EventLocks(kind, o, a, e))
  <2> DEFINE ll == LeavesLock(kind, o, a, L)
             lm == LeavesLock(kind, o, a, M)
             lr == LeavesLock(kind, o, a, L \ {l})
             x == LeafLocks(kind, o, a, l)
             y == LeafLocks(kind, o, a, m)
             d == EventLocks(kind, o, a, e)
  <2>1. ll = x + lr /\ ll \in Int /\ lr \in Int
    BY <1>1, <1>3, <1>9, LeafTaken
  <2>2. lm = y + lr
    <3>1. o \in [Places -> OrderValues] /\ L \ {l} \in SUBSET LeafValues /\ IsFiniteSet(L \ {l})
          /\ m \in LeafValues /\ m \notin L \ {l}
      BY <1>1, <1>2, <1>9, <1>10
    <3> DEFINE R == L \ {l}
    <3> HIDE DEF R
    <3>2. LeavesLock(kind, o, a, R \cup {m}) = LeafLocks(kind, o, a, m) + LeavesLock(kind, o, a, R)
      BY <3>1, LeafAdded DEF R
    <3> QED BY <3>2 DEF R
  <2>3. x \in Int /\ y \in Int /\ d \in Int
    BY <1>1, <1>2, <1>3, LeafLocksNat, EventLocksNat
  <2>4. Covers(kind, x, y + d)
    <3>1. CASE a = l.owner
      BY <3>1 DEF o
    <3>2. CASE a # l.owner
      <4>1. x = 0 /\ y = 0 /\ d = 0
        BY <3>2, <1>4 DEF LeafLocks, EventLocks
      <4> QED BY <4>1 DEF Covers
    <3> QED BY <3>1, <3>2
  <2> HIDE DEF ll, lm, lr, x, y, d
  <2>5. Covers(kind, ll, lm + d)
    BY <2>1, <2>2, <2>3, <2>4 DEF Covers
  <2> QED BY <2>5 DEF ll, lm, d
<1>12. Covered(s.oo, M, F, lock)
  BY <1>1, <1>9, <1>11, CoveredPlus DEF o, F
<1>13. Funds(s.mkt, s.oo, F, base + Due("base", e), quote + Due("quote", e))
  BY <1>1, FundsPlus DEF F
<1>14. EventsOk(F)
  BY <1>1, EventsOkPlus DEF F
<1>15. base + Due("base", e) \in Int /\ quote + Due("quote", e) \in Int
  BY <1>1, DueInt DEF Units
<1> HIDE DEF M
<1>16. Sane(r, F, base + Due("base", e), quote + Due("quote", e), lock, w)
  <2>1. AllLeaves(r.book) = M /\ BookOk(r.book, OrdersOf(r.oo), w.ids)
    BY <1>2, <1>5 DEF M, o, ids
  <2>2. Claims(r.oo, M, F)
    BY <1>7, <1>8 DEF Claims, o
  <2> QED BY <1>1, <1>12, <1>13, <1>14, <1>15, <2>1, <2>2 DEF Sane
<1> QED BY <1>16 DEF F

\* Two order tables agree where the leaves and the outs point.
SameSlots(o, p, L, E) ==
  /\ \A l \in L : p[PlaceOfLeaf(l)] = o[PlaceOfLeaf(l)]
  /\ \A i \in DOMAIN E : E[i].kind # "Fill" => p[PlaceOfEvent(E[i])] = o[PlaceOfEvent(E[i])]

\* Order tables that agree there give the same locks.
LEMMA SameLocks ==
  ASSUME NEW o, NEW p, NEW L, NEW E, SameSlots(o, p, L, E), NEW kind, NEW a
  PROVE  /\ LeavesLock(kind, p, a, L) = LeavesLock(kind, o, a, L)
         /\ EventsLock(kind, p, a, E) = EventsLock(kind, o, a, E)
<1>1. \A l \in L : LeafLocks(kind, p, a, l) = LeafLocks(kind, o, a, l)
  BY DEF LeafLocks, SameSlots
<1>2. [l \in L |-> LeafLocks(kind, p, a, l)] = [l \in L |-> LeafLocks(kind, o, a, l)]
  BY <1>1
<1>3. \A i \in DOMAIN E : EventLocks(kind, p, a, E[i]) = EventLocks(kind, o, a, E[i])
  BY DEF EventLocks, SameSlots
<1>4. [i \in DOMAIN E |-> EventLocks(kind, p, a, E[i])] = [i \in DOMAIN E |-> EventLocks(kind, o, a, E[i])]
  BY <1>3
<1> QED BY <1>2, <1>4 DEF LeavesLock, EventsLock

\* A book stays sound under an order table that agrees on the slots of its leaves.
LEMMA BookSlots ==
  ASSUME NEW b, NEW o, NEW ids, BookOk(b, o, ids), NEW p,
         \A l \in AllLeaves(b) : p[PlaceOfLeaf(l)] = o[PlaceOfLeaf(l)]
  PROVE  BookOk(b, p, ids)
<1>1. \A side \in Sides : b[side].leaves \subseteq AllLeaves(b)
  BY AllLeavesFacts
<1>2. \A side \in Sides : \A l \in b[side].leaves : o[PlaceOfLeaf(l)].side = side /\ l \in AllLeaves(b)
  BY <1>1 DEF BookOk
<1>3. \A side \in Sides : \A l \in b[side].leaves : p[PlaceOfLeaf(l)].side = side
  BY <1>2
<1> QED BY <1>3 DEF BookOk

\* Replacing an account by one with the same orders keeps the order table.
LEMMA OrdersSame ==
  ASSUME NEW accs \in [Accounts -> AccountValues], NEW a \in Accounts, NEW acc \in AccountValues,
         acc.open_orders = accs[a].open_orders
  PROVE  OrdersOf([accs EXCEPT ![a] = acc]) = OrdersOf(accs)
<1> DEFINE new == [accs EXCEPT ![a] = acc]
<1>1. \A x \in Accounts : new[x].open_orders = accs[x].open_orders
  OBVIOUS
<1>2. \A p \in Places : p[1] \in Accounts
  BY DEF Places
<1> HIDE DEF new
<1>3. \A p \in Places : new[p[1]].open_orders[p[2]] = accs[p[1]].open_orders[p[2]]
  BY <1>1, <1>2
<1> QED BY <1>3 DEF OrdersOf, new

\* A function with one value replaced.
Put(f, x, v) == [f EXCEPT ![x] = v]

\* Writing one slot of an account writes one entry of the order table.
LEMMA OrdersUpdate ==
  ASSUME NEW accs \in [Accounts -> AccountValues], NEW a \in Accounts, NEW acc \in AccountValues,
         NEW slot \in OrderSlots, NEW order,
         acc.open_orders = Put(accs[a].open_orders, slot, order)
  PROVE  OrdersOf([accs EXCEPT ![a] = acc]) = Put(OrdersOf(accs), <<a, slot>>, order)
<1> DEFINE new == [accs EXCEPT ![a] = acc]
           o == OrdersOf(accs)
           o2 == OrdersOf(new)
           place == <<a, slot>>
<1>1. /\ DOMAIN o = Places /\ DOMAIN o2 = Places /\ place \in Places
      /\ \A p \in Places : o[p] = accs[p[1]].open_orders[p[2]] /\ o2[p] = new[p[1]].open_orders[p[2]]
      /\ o = [p \in Places |-> o[p]] /\ o2 = [p \in Places |-> o2[p]]
  BY DEF OrdersOf, Places
<1>2. ASSUME NEW p \in Places PROVE o2[p] = IF p = place THEN order ELSE o[p]
  <2>1. p[1] \in Accounts /\ p[2] \in OrderSlots /\ p = <<p[1], p[2]>>
    BY DEF Places
  <2>2. accs[a].open_orders \in [OrderSlots -> OrderValues]
    <3>1. accs[a] \in AccountValues
      OBVIOUS
    <3> QED BY <3>1 DEF AccountValues
  <2>3. CASE p[1] = a
    <3>1. new[p[1]].open_orders = Put(accs[a].open_orders, slot, order)
      BY <2>3
    <3>2. Put(accs[a].open_orders, slot, order)[p[2]] = IF p[2] = slot THEN order ELSE accs[a].open_orders[p[2]]
      BY <2>1, <2>2 DEF Put
    <3>3. p = place <=> p[2] = slot
      BY <2>1, <2>3
    <3> QED BY <1>1, <2>3, <3>1, <3>2, <3>3, Zenon
  <2>4. CASE p[1] # a
    <3>1. new[p[1]] = accs[p[1]]
      BY <2>4
    <3>2. p # place
      BY <2>4
    <3>3. o[p] = accs[p[1]].open_orders[p[2]] /\ o2[p] = new[p[1]].open_orders[p[2]]
      BY <1>1
    <3>4. o2[p] = o[p]
      BY ONLY <3>1, <3>3
    <3> QED BY ONLY <3>2, <3>4
  <2> QED BY <2>3, <2>4
<1> HIDE DEF o, o2, place, new
<1>3. o2 = Put(o, place, order)
  BY <1>1, <1>2 DEF Put
<1> QED BY <1>3 DEF o, o2, place, new

\* Settling one event with its owner's account leaves a sane state.
LEMMA EventDone ==
  ASSUME NEW s, NEW E, NEW base, NEW quote, NEW lock, NEW w, Sane(s, E, base, quote, lock, w),
         NEW n \in DOMAIN E, NEW e, e = E[n], NEW a, a = AccountOf(e),
         NEW acc \in AccountValues, Sound(acc), acc.open = s.oo[a].open,
         acc.open_orders = IF IsLast(e) THEN [s.oo[a].open_orders EXCEPT ![SlotOf(e)] = FreeSlot]
                           ELSE s.oo[a].open_orders,
         \A kind \in Kinds : Held(kind, acc) = Held(kind, s.oo[a])
                                               - EventLocks(kind, OrdersOf(s.oo), a, e),
         NEW fees \in Int,
         \A unit \in Units : OwedTo(unit, acc) = OwedTo(unit, s.oo[a]) + Due(unit, e)
                                                 + (IF unit = "rebates" THEN fees ELSE 0),
         NEW r, r.oo = [s.oo EXCEPT ![a] = acc], r.book = s.book, HeapOk(r.heap),
         TotalsOk(r.mkt, w), r.mkt.fees_available = s.mkt.fees_available,
         r.mkt.referrer_rebates_accrued = s.mkt.referrer_rebates_accrued + fees
  PROVE  Sane(r, Minus(E, n), base, quote, lock, w)
<1> DEFINE L == AllLeaves(s.book)
           F == Minus(E, n)
           o == OrdersOf(s.oo)
           p == OrdersOf(r.oo)
           old == s.oo[a]
           place == PlaceOfEvent(e)
<1>1. /\ base \in Int /\ quote \in Int /\ lock \in [Accounts -> Nat]
      /\ s.mkt \in MarketValues /\ TotalsOk(s.mkt, w) /\ w.ids \in Nat
      /\ s.oo \in [Accounts -> AccountValues] /\ AccountsOk(s.oo, w.ids)
      /\ o \in [Places -> OrderValues]
      /\ BookOk(s.book, o, w.ids)
      /\ HeapOk(s.heap) /\ EventsOk(E)
      /\ L \in SUBSET LeafValues /\ IsFiniteSet(L)
      /\ Claims(s.oo, L, E)
      /\ LeavesClaim(o, L) /\ EventsClaim(o, L, E) /\ OrdersClaimed(o, L, E)
      /\ OwnersOpen(s.oo, L, E)
      /\ Covered(s.oo, L, E, lock)
      /\ Funds(s.mkt, s.oo, E, base, quote)
  BY ONLY Sane(s, E, base, quote, lock, w), SaneParts
<1>2. e \in EventValues
  BY <1>1 DEF EventsOk
<1>3. a \in Accounts /\ SlotOf(e) \in OrderSlots /\ place \in Places /\ place = <<a, SlotOf(e)>>
  BY <1>2, EventKinds DEF PlaceOfEvent
<1>4. old \in AccountValues /\ old.open_orders \in [OrderSlots -> OrderValues] /\ old.open
  <2>1. old \in AccountValues
    BY <1>1, <1>3
  <2>2. old.open
    BY <1>1 DEF OwnersOpen
  <2> QED BY <2>1, <2>2 DEF AccountValues
<1>5. r.oo \in [Accounts -> AccountValues] /\ r.oo[a] = acc /\ \A x \in Accounts : x # a => r.oo[x] = s.oo[x]
  BY <1>1, <1>3
<1>6. p = IF IsLast(e) THEN Put(o, place, FreeSlot) ELSE o
  <2>1. CASE IsLast(e)
    <3>1. acc.open_orders = Put(s.oo[a].open_orders, SlotOf(e), FreeSlot)
      BY <2>1 DEF Put
    <3>2. OrdersOf([s.oo EXCEPT ![a] = acc]) = Put(OrdersOf(s.oo), <<a, SlotOf(e)>>, FreeSlot)
      BY <1>1, <1>3, <3>1, OrdersUpdate
    <3> QED BY <2>1, <3>2, <1>3
  <2>2. CASE ~IsLast(e)
    <3>1. acc.open_orders = s.oo[a].open_orders
      BY <2>2
    <3>2. OrdersOf([s.oo EXCEPT ![a] = acc]) = OrdersOf(s.oo)
      BY <1>1, <1>3, <3>1, OrdersSame
    <3> QED BY <2>2, <3>2
  <2> QED BY <2>1, <2>2
<1>7. LeavesClaim(p, L) /\ EventsClaim(p, L, F) /\ OrdersClaimed(p, L, F)
  <2> DEFINE freed == IF IsLast(E[n]) THEN [o EXCEPT ![PlaceOfEvent(E[n])] = FreeSlot] ELSE o
  <2>1. PlaceOfEvent(E[n]) \in Places /\ o \in [Places -> OrderValues] /\ L \in SUBSET LeafValues
        /\ LeavesClaim(o, L) /\ EventsClaim(o, L, E) /\ OrdersClaimed(o, L, E) /\ n \in DOMAIN E
    BY <1>1, <1>3
  <2> HIDE DEF o, L, p
  <2>2. LeavesClaim(freed, L) /\ EventsClaim(freed, L, Minus(E, n)) /\ OrdersClaimed(freed, L, Minus(E, n))
    BY ONLY <2>1, EventHandled
  <2>3. p = freed
    BY <1>6 DEF Put
  <2> HIDE DEF freed
  <2> QED BY <2>2, <2>3
<1>8. DOMAIN F = DOMAIN E \ {n} /\ \A i \in DOMAIN E \ {n} : F[i] = E[i]
  BY DEF Minus
<1>9. EventsOk(F)
  BY <1>1, EventsOkMinus
<1> HIDE DEF L, F, o, p, place, old
<1>10. SameSlots(o, p, L, F)
  <2>1. CASE IsLast(e)
    <3>1. p = Put(o, place, FreeSlot)
      BY <1>6, <2>1
    <3>2. \A l \in L : PlaceOfLeaf(l) # place
      BY <1>1, <2>1 DEF EventsClaim, place
    <3>3. ASSUME NEW i \in DOMAIN F, F[i].kind # "Fill" PROVE PlaceOfEvent(F[i]) # place
      <4>1. i \in DOMAIN E /\ i # n /\ F[i] = E[i] /\ E[i] \in EventValues
        BY <1>1, <1>8 DEF EventsOk
      <4>2. IsLast(E[i])
        BY <3>3, <4>1, EventKinds DEF IsLast
      <4> QED BY <1>1, <2>1, <4>1, <4>2 DEF EventsClaim, place
    <3>4. \A x : x # place => p[x] = o[x]
      BY <3>1 DEF Put
    <3> QED BY <3>2, <3>3, <3>4 DEF SameSlots
  <2>2. CASE ~IsLast(e)
    <3>1. p = o
      BY <1>6, <2>2
    <3> QED BY <3>1 DEF SameSlots
  <2> QED BY <2>1, <2>2
<1>11. BookOk(s.book, p, w.ids)
  BY <1>1, <1>10, BookSlots DEF SameSlots, L
<1>12. AccountsOk(r.oo, w.ids)
  <2>1. \A x \in Accounts : Sound(r.oo[x])
    BY <1>1, <1>5 DEF AccountsOk
  <2>2. \A x \in Places : p[x].id <= w.ids
    <3>1. \A x \in Places : o[x].id <= w.ids
      BY <1>1 DEF AccountsOk, o
    <3>2. FreeSlot.id <= w.ids
      BY <1>1 DEF FreeSlot
    <3> QED BY <3>1, <3>2, <1>1, <1>3, <1>6 DEF Put
  <2> QED BY <2>1, <2>2, <1>5 DEF AccountsOk, p
<1>13. OwnersOpen(r.oo, L, F)
  <2>1. \A x \in Accounts : r.oo[x].open = s.oo[x].open
    BY <1>5
  <2>2. ASSUME NEW l \in L PROVE r.oo[l.owner].open
    <3>1. l.owner \in Accounts /\ s.oo[l.owner].open
      BY <1>1 DEF OwnersOpen, LeafValues
    <3> QED BY <2>1, <3>1
  <2>3. ASSUME NEW i \in DOMAIN F PROVE r.oo[AccountOf(F[i])].open
    <3>1. F[i] \in EventValues /\ F[i] = E[i] /\ i \in DOMAIN E
      BY <1>8, <1>9 DEF EventsOk
    <3>2. AccountOf(F[i]) \in Accounts /\ s.oo[AccountOf(F[i])].open
      BY <1>1, <3>1, EventKinds DEF OwnersOpen
    <3> QED BY <2>1, <3>2
  <2>4. ASSUME NEW x \in Accounts, ~r.oo[x].open PROVE r.oo[x] = ClosedAccount
    <3>1. x # a
      BY <2>4, <1>4, <2>1 DEF old
    <3> QED BY <3>1, <2>4, <1>1, <1>5 DEF OwnersOpen
  <2> QED BY <2>2, <2>3, <2>4 DEF OwnersOpen
<1>14. Covered(r.oo, L, F, lock)
  <2>1. ASSUME NEW x \in Accounts, NEW kind \in Kinds
        PROVE  Covers(kind, Held(kind, r.oo[x]) - (IF kind = "fees" THEN lock[x] ELSE 0),
                      LeavesLock(kind, p, x, L) + EventsLock(kind, p, x, F))
    <3> DEFINE h == Held(kind, s.oo[x])
               h2 == Held(kind, r.oo[x])
               k == IF kind = "fees" THEN lock[x] ELSE 0
               ll == LeavesLock(kind, o, x, L)
               le == EventsLock(kind, o, x, E)
               lf == EventsLock(kind, o, x, F)
               d == EventLocks(kind, o, x, e)
    <3>1. Covers(kind, h - k, ll + le)
      BY ONLY <1>1, CoveredAt, x \in Accounts, kind \in Kinds DEF o
    <3>2. le = d + lf /\ le \in Int /\ ll \in Int
      BY <1>1, EventTaken, LeafTaken DEF F
    <3>3. lf \in Int /\ d \in Int
      BY <1>1, <1>2, <1>9, EventTaken, EventLocksNat
    <3>4. s.oo[x] \in AccountValues /\ lock[x] \in Nat
      BY <1>1
    <3>5. h \in Int /\ k \in Int
      BY <3>4, HeldInt
    <3>6. h2 = h - d
      <4>1. CASE x = a
        <5>1. r.oo[x] = acc /\ Held(kind, acc) = Held(kind, s.oo[a]) - EventLocks(kind, OrdersOf(s.oo), a, e)
          BY <4>1, <1>5
        <5> QED BY <5>1, <4>1 DEF o
      <4>2. CASE x # a
        <5>1. r.oo[x] = s.oo[x] /\ d = 0
          BY <4>2, <1>5 DEF EventLocks
        <5> QED BY <5>1, <3>5
      <4> QED BY <4>1, <4>2
    <3>7. LeavesLock(kind, p, x, L) = ll /\ EventsLock(kind, p, x, F) = lf
      BY <1>10, SameLocks
    <3> HIDE DEF h, h2, k, ll, le, lf, d
    <3>8. Covers(kind, h2 - k, ll + lf)
      BY <3>1, <3>2, <3>3, <3>5, <3>6 DEF Covers
    <3> QED BY <3>7, <3>8 DEF h2, k
  <2> QED BY <2>1 DEF Covered, p
<1>15. ASSUME NEW unit \in Units
       PROVE  /\ Owed(unit, r.oo, F) = Owed(unit, s.oo, E) + (IF unit = "rebates" THEN fees ELSE 0)
              /\ Owed(unit, s.oo, E) \in Int
  <2> DEFINE x == OwedToAll(unit, s.oo)
             x2 == OwedToAll(unit, r.oo)
             y == DueToAll(unit, E)
             y2 == DueToAll(unit, F)
             u == OwedTo(unit, s.oo[a])
             u2 == OwedTo(unit, acc)
             d == Due(unit, e)
             f == IF unit = "rebates" THEN fees ELSE 0
  <2>1. x \in Int /\ y \in Int /\ d \in Int /\ y = d + y2
    BY <1>1, <1>2, OwedInt, DueTaken, DueInt DEF F
  <2>2. y2 \in Int
    BY <1>9, DueTaken
  <2>3. x2 = x - u + u2
    BY <1>1, <1>3, OwedUpdate
  <2>4. u \in Int /\ u2 \in Int
    BY <1>4, OwedToInt DEF old
  <2>5. u2 = u + d + f /\ f \in Int
    OBVIOUS
  <2> HIDE DEF x, x2, y, y2, u, u2, d, f
  <2>6. x2 + y2 = (x + y) + f
    BY <2>1, <2>2, <2>3, <2>4, <2>5
  <2>7. x + y \in Int
    BY <2>1
  <2> QED BY <2>6, <2>7 DEF Owed, x, x2, y, y2, f
<1>16. Funds(r.mkt, r.oo, F, base, quote)
  <2>1. /\ s.mkt.base_deposit_total + base = Owed("base", s.oo, E)
        /\ s.mkt.quote_deposit_total + quote = Owed("quote", s.oo, E) + s.mkt.fees_available
        /\ s.mkt.referrer_rebates_accrued = Owed("rebates", s.oo, E)
    BY <1>1 DEF Funds
  <2>2. r.mkt.base_deposit_total = s.mkt.base_deposit_total /\ r.mkt.quote_deposit_total = s.mkt.quote_deposit_total
    BY <1>1 DEF TotalsOk
  <2>3. Owed("base", r.oo, F) = Owed("base", s.oo, E) /\ Owed("quote", r.oo, F) = Owed("quote", s.oo, E)
        /\ Owed("rebates", r.oo, F) = Owed("rebates", s.oo, E) + fees
    <3>1. Owed("base", r.oo, F) = Owed("base", s.oo, E) + 0 /\ Owed("base", s.oo, E) \in Int
      BY <1>15 DEF Units
    <3>2. Owed("quote", r.oo, F) = Owed("quote", s.oo, E) + 0 /\ Owed("quote", s.oo, E) \in Int
      BY <1>15 DEF Units
    <3>3. Owed("rebates", r.oo, F) = Owed("rebates", s.oo, E) + fees
      BY <1>15 DEF Units
    <3> QED BY <3>1, <3>2, <3>3
  <2> QED BY <2>1, <2>2, <2>3 DEF Funds
<1>17. Sane(r, F, base, quote, lock, w)
  <2>1. AllLeaves(r.book) = L /\ BookOk(r.book, OrdersOf(r.oo), w.ids)
    BY <1>11 DEF L, p
  <2>2. Claims(r.oo, L, F)
    BY <1>7, <1>13 DEF Claims, p
  <2> QED BY <1>1, <1>9, <1>12, <1>14, <1>16, <2>1, <2>2 DEF Sane
<1> QED BY <1>17 DEF F

\* Adding an order fills its slot and adds its lots to the counters.
LEMMA AddOrderFacts ==
  ASSUME NEW acc \in AccountValues, NEW side \in Sides, NEW leaf \in LeafValues, NEW price \in Nat
  PROVE  LET new == add_order(acc, side, leaf, price)
             q == leaf.quantity
             order == [id |-> leaf.id, side |-> side, tree |-> leaf.tree,
                       client_id |-> leaf.client_id, locked_price |-> price]
         IN  /\ new \in AccountValues /\ order \in OrderValues
             /\ new.open = acc.open
             /\ new.open_orders = Put(acc.open_orders, leaf.owner_slot, order)
             /\ \A kind \in Kinds : kind # "fees" =>
                  Held(kind, new) = Held(kind, acc) + Locks(kind, side, q, price)
             /\ Held("fees", new) = Held("fees", acc)
             /\ OwedTo("base", new) = OwedTo("base", acc) + (IF side = "Ask" THEN q * base_lot_size ELSE 0)
             /\ OwedTo("quote", new) = OwedTo("quote", acc)
                                       + (IF side = "Bid" THEN q * price * quote_lot_size ELSE 0)
             /\ OwedTo("rebates", new) = OwedTo("rebates", acc)
             /\ Sound(acc) => Sound(new)
<1> DEFINE new == add_order(acc, side, leaf, price)
           q == leaf.quantity
           slot == leaf.owner_slot
           order == [id |-> leaf.id, side |-> side, tree |-> leaf.tree,
                     client_id |-> leaf.client_id, locked_price |-> price]
           m == -q
           taken == TakeLots(acc, side, m, price)
           os == Put(acc.open_orders, slot, order)
<1>1. q \in Nat \ {0} /\ slot \in OrderSlots /\ m \in Int
  BY DEF LeafValues
<1>2. order \in OrderValues
  BY DEF LeafValues, OrderValues
<1>3. LET bids == IF side = "Bid" THEN m ELSE 0
          asks == IF side = "Ask" THEN m ELSE 0
          quote == IF side = "Bid" THEN m * price ELSE 0
      IN  /\ taken \in AccountValues
          /\ taken.open = acc.open /\ taken.open_orders = acc.open_orders
          /\ taken.bids_base_lots = acc.bids_base_lots - bids
          /\ taken.asks_base_lots = acc.asks_base_lots - asks
          /\ taken.bids_quote_lots = acc.bids_quote_lots - quote
          /\ taken.base_free_native = acc.base_free_native
          /\ taken.quote_free_native = acc.quote_free_native
          /\ taken.locked_maker_fees = acc.locked_maker_fees
          /\ taken.referrer_rebates_available = acc.referrer_rebates_available
          /\ taken.penalty_heap_count = acc.penalty_heap_count
  <2> HIDE DEF m
  <2> QED BY ONLY <1>1, acc \in AccountValues, side \in Sides, price \in Nat, TakeLotsFacts
<1>4. new = [taken EXCEPT !.open_orders[slot] = order]
  BY DEF add_order
<1>5. new = [taken EXCEPT !.open_orders = os]
  <2> HIDE DEF taken, new, order
  <2> QED BY <1>3, <1>4 DEF Put
<1>6. os \in [OrderSlots -> OrderValues]
  <2>1. acc.open_orders \in [OrderSlots -> OrderValues]
    BY DEF AccountValues
  <2> HIDE DEF order, slot
  <2> QED BY <2>1, <1>1, <1>2 DEF Put
<1> DEFINE qp == q * price
<1>7. qp \in Nat /\ m * price = -qp
  <2> HIDE DEF q
  <2> QED BY <1>1
<1> DEFINE bids == IF side = "Bid" THEN q ELSE 0
           asks == IF side = "Ask" THEN q ELSE 0
           lots == IF side = "Bid" THEN qp ELSE 0
<1>8. /\ taken.bids_base_lots = acc.bids_base_lots + bids
      /\ taken.asks_base_lots = acc.asks_base_lots + asks
      /\ taken.bids_quote_lots = acc.bids_quote_lots + lots
  <2>1. acc.bids_base_lots \in Int /\ acc.asks_base_lots \in Int /\ acc.bids_quote_lots \in Int
    BY DEF AccountValues
  <2> DEFINE mp == m * price
  <2>2. mp = -qp
    BY <1>7
  <2>3. /\ taken.bids_base_lots = acc.bids_base_lots - (IF side = "Bid" THEN m ELSE 0)
        /\ taken.asks_base_lots = acc.asks_base_lots - (IF side = "Ask" THEN m ELSE 0)
        /\ taken.bids_quote_lots = acc.bids_quote_lots - (IF side = "Bid" THEN mp ELSE 0)
    BY <1>3
  <2>4. m = -q /\ q \in Int /\ qp \in Int
    BY <1>1, <1>7
  <2> HIDE DEF mp, qp, q, m, taken
  <2> QED BY <2>1, <2>2, <2>3, <2>4 DEF Sides
<1> HIDE DEF taken, new, os
<1>9. /\ new \in AccountValues
      /\ new.open = taken.open /\ new.open_orders = os
      /\ new.bids_base_lots = taken.bids_base_lots
      /\ new.asks_base_lots = taken.asks_base_lots
      /\ new.bids_quote_lots = taken.bids_quote_lots
      /\ new.base_free_native = taken.base_free_native
      /\ new.quote_free_native = taken.quote_free_native
      /\ new.locked_maker_fees = taken.locked_maker_fees
      /\ new.referrer_rebates_available = taken.referrer_rebates_available
  <2>1. taken \in AccountValues
    BY <1>3
  <2> QED BY <2>1, <1>5, <1>6 DEF AccountValues
<1>10. /\ new \in AccountValues
       /\ new.open = acc.open /\ new.open_orders = os
       /\ new.bids_base_lots = acc.bids_base_lots + bids
       /\ new.asks_base_lots = acc.asks_base_lots + asks
       /\ new.bids_quote_lots = acc.bids_quote_lots + lots
       /\ new.base_free_native = acc.base_free_native
       /\ new.quote_free_native = acc.quote_free_native
       /\ new.locked_maker_fees = acc.locked_maker_fees
       /\ new.referrer_rebates_available = acc.referrer_rebates_available
  <2> HIDE DEF bids, asks, lots
  <2> QED BY <1>3, <1>8, <1>9
<1> DEFINE native == q * base_lot_size
           quote == qp * quote_lot_size
<1>11. native \in Nat /\ quote \in Nat /\ q \in Nat /\ quote_lot_size \in Nat /\ base_lot_size \in Nat
  BY <1>1, <1>7, FeeAssumption
<1>12. /\ Locks("asks_base", side, q, price) = asks
       /\ Locks("bids_base", side, q, price) = bids
       /\ Locks("bids_quote", side, q, price) = lots
  <2> HIDE DEF q
  <2> QED BY ONLY <1>11, side \in Sides, price \in Nat, LocksFacts
<1> HIDE DEF q, qp
<1>13. /\ \A kind \in Kinds : kind # "fees" => Held(kind, new) = Held(kind, acc) + Locks(kind, side, q, price)
       /\ Held("fees", new) = Held("fees", acc)
  <2> HIDE DEF bids, asks, lots
  <2> QED BY <1>10, <1>12, HeldFacts DEF Kinds
<1> DEFINE bl == acc.bids_quote_lots
           al == acc.asks_base_lots
           B == bl * quote_lot_size
           A == al * base_lot_size
           B1 == (bl + lots) * quote_lot_size
           A1 == (al + asks) * base_lot_size
<1>14. bl \in Int /\ al \in Int /\ acc.quote_free_native \in Int /\ acc.base_free_native \in Int
       /\ acc.locked_maker_fees \in Int /\ acc.referrer_rebates_available \in Int
  BY DEF AccountValues
<1>15. /\ B1 = B + (IF side = "Bid" THEN quote ELSE 0)
       /\ A1 = A + (IF side = "Ask" THEN native ELSE 0)
       /\ B \in Int /\ A \in Int
  <2> HIDE DEF bl, al
  <2> QED BY <1>14, <1>11, <1>7
<1>16. /\ OwedTo("base", acc) = acc.base_free_native + A
       /\ OwedTo("quote", acc) = acc.quote_free_native + B + acc.locked_maker_fees + acc.referrer_rebates_available
       /\ OwedTo("rebates", acc) = acc.referrer_rebates_available
  BY OwedFacts
<1>17. /\ OwedTo("base", new) = acc.base_free_native + A1
       /\ OwedTo("quote", new) = acc.quote_free_native + B1 + acc.locked_maker_fees + acc.referrer_rebates_available
       /\ OwedTo("rebates", new) = acc.referrer_rebates_available
  <2> HIDE DEF bids, asks, lots
  <2> QED BY <1>10, OwedFacts
<1>18. /\ OwedTo("base", new) = OwedTo("base", acc) + (IF side = "Ask" THEN native ELSE 0)
       /\ OwedTo("quote", new) = OwedTo("quote", acc) + (IF side = "Bid" THEN quote ELSE 0)
       /\ OwedTo("rebates", new) = OwedTo("rebates", acc)
  <2> HIDE DEF B, A, B1, A1, native, quote
  <2> QED BY <1>11, <1>14, <1>15, <1>16, <1>17
<1>19. Sound(acc) => Sound(new)
  BY <1>10 DEF Sound
<1> QED BY <1>2, <1>10, <1>13, <1>18, <1>19 DEF new, os, q, qp

\* Posting an order, in the book and in its owner's account, leaves a sane state.
LEMMA OrderPlaced ==
  ASSUME NEW s, NEW E, NEW base, NEW quote, NEW lock, NEW w, Sane(s, E, base, quote, lock, w),
         NEW a \in Accounts, s.oo[a].open, NEW side \in Sides,
         NEW l \in LeafValues, LeafOk(l), l.owner = a, l.id > w.ids,
         s.oo[a].open_orders[l.owner_slot].id = 0, can_insert(s.book[side], l.tree),
         NEW price \in Nat,
         side = "Bid" => price = IF l.tree = "Fixed" THEN l.price ELSE l.peg_limit,
         lock[a] = Locks("fees", side, l.quantity, price),
         NEW w2, w2.ids \in Nat, l.id <= w2.ids,
         NEW r, r.mkt = s.mkt, TotalsOk(r.mkt, w2), HeapOk(r.heap),
         r.oo = [s.oo EXCEPT ![a] = add_order(s.oo[a], side, l, price)],
         r.book = [s.book EXCEPT ![side] = insert_leaf(@, l)]
  PROVE  Sane(r, E,
              base + (IF side = "Ask" THEN l.quantity * base_lot_size ELSE 0),
              quote + (IF side = "Bid" THEN l.quantity * price * quote_lot_size ELSE 0),
              [lock EXCEPT ![a] = 0], w2)
<1> DEFINE L == AllLeaves(s.book)
           M == L \cup {l}
           o == OrdersOf(s.oo)
           p == OrdersOf(r.oo)
           old == s.oo[a]
           acc == add_order(old, side, l, price)
           q == l.quantity
           slot == l.owner_slot
           order == [id |-> l.id, side |-> side, tree |-> l.tree,
                     client_id |-> l.client_id, locked_price |-> price]
           place == PlaceOfLeaf(l)
           lock2 == [lock EXCEPT ![a] = 0]
           base2 == base + (IF side = "Ask" THEN q * base_lot_size ELSE 0)
           quote2 == quote + (IF side = "Bid" THEN q * price * quote_lot_size ELSE 0)
           nb == [s.book EXCEPT ![side] = insert_leaf(@, l)]
<1>1. /\ base \in Int /\ quote \in Int /\ lock \in [Accounts -> Nat]
      /\ s.mkt \in MarketValues /\ TotalsOk(s.mkt, w) /\ w.ids \in Nat
      /\ s.oo \in [Accounts -> AccountValues] /\ AccountsOk(s.oo, w.ids)
      /\ o \in [Places -> OrderValues]
      /\ BookOk(s.book, o, w.ids)
      /\ HeapOk(s.heap) /\ EventsOk(E)
      /\ L \in SUBSET LeafValues /\ IsFiniteSet(L)
      /\ Claims(s.oo, L, E)
      /\ LeavesClaim(o, L) /\ EventsClaim(o, L, E) /\ OrdersClaimed(o, L, E)
      /\ OwnersOpen(s.oo, L, E)
      /\ Covered(s.oo, L, E, lock)
      /\ Funds(s.mkt, s.oo, E, base, quote)
  BY ONLY Sane(s, E, base, quote, lock, w), SaneParts
<1>2. q \in Nat \ {0} /\ slot \in OrderSlots /\ l.id \in Nat \ {0} /\ place = <<a, slot>> /\ place \in Places
  BY DEF LeafValues, PlaceOfLeaf, Places
<1>3. old \in AccountValues
  BY <1>1
<1>4. /\ acc \in AccountValues /\ order \in OrderValues
      /\ acc.open = old.open
      /\ acc.open_orders = Put(old.open_orders, slot, order)
      /\ \A kind \in Kinds : kind # "fees" =>
           Held(kind, acc) = Held(kind, old) + Locks(kind, side, q, price)
      /\ Held("fees", acc) = Held("fees", old)
      /\ OwedTo("base", acc) = OwedTo("base", old) + (IF side = "Ask" THEN q * base_lot_size ELSE 0)
      /\ OwedTo("quote", acc) = OwedTo("quote", old)
                                + (IF side = "Bid" THEN q * price * quote_lot_size ELSE 0)
      /\ OwedTo("rebates", acc) = OwedTo("rebates", old)
      /\ Sound(old) => Sound(acc)
  <2> HIDE DEF old
  <2> QED BY ONLY <1>3, side \in Sides, l \in LeafValues, price \in Nat, AddOrderFacts
<1>5. r.oo = [s.oo EXCEPT ![a] = acc] /\ r.book = nb
  OBVIOUS
<1> HIDE DEF acc, nb
<1>6. r.oo \in [Accounts -> AccountValues] /\ r.oo[a] = acc /\ \A x \in Accounts : x # a => r.oo[x] = s.oo[x]
  BY <1>1, <1>4, <1>5
<1>7. p = Put(o, place, order)
  <2>1. acc.open_orders = Put(s.oo[a].open_orders, slot, order)
    BY <1>4
  <2> HIDE DEF slot, order
  <2>2. OrdersOf([s.oo EXCEPT ![a] = acc]) = Put(OrdersOf(s.oo), <<a, slot>>, order)
    BY <1>1, <1>2, <1>4, <2>1, OrdersUpdate
  <2> QED BY <2>2, <1>2, <1>5
<1>8. o[place].id = 0
  BY <1>1, <1>2, OrdersOfType
<1>9. \A x \in Places : o[x].id # l.id
  <2>1. \A x \in Places : o[x].id <= w.ids /\ o[x].id \in Nat
    BY <1>1 DEF AccountsOk, OrderValues
  <2> QED BY <2>1, <1>1, <1>2
<1>10. LeafFits(order, l)
  BY DEF LeafFits
<1>11. LeavesClaim(p, M) /\ EventsClaim(p, M, E) /\ OrdersClaimed(p, M, E)
  <2>1. o[PlaceOfLeaf(l)].id = 0
    BY <1>8
  <2> DEFINE new == [o EXCEPT ![PlaceOfLeaf(l)] = order]
  <2>2. new = p
    BY <1>7 DEF Put
  <2> HIDE DEF o, L, p, order
  <2>3. LeavesClaim(new, L \cup {l}) /\ EventsClaim(new, L \cup {l}, E) /\ OrdersClaimed(new, L \cup {l}, E)
    BY ONLY <1>1, <1>4, <1>9, <1>10, <2>1, l \in LeafValues, OrderPosted
  <2> QED BY <2>2, <2>3
<1> HIDE DEF L, o, p, old, order
<1>12. \A k \in L : PlaceOfLeaf(k) # place
  <2>1. \A k \in L : o[PlaceOfLeaf(k)].id = k.id /\ k.id # 0
    BY <1>1 DEF LeavesClaim, LeafFits, LeafValues
  <2> QED BY <2>1, <1>8
<1>13. p[place] = order /\ \A x : x # place => p[x] = o[x]
  BY <1>1, <1>2, <1>7 DEF Put
<1>14. order.side = side /\ order.locked_price = price
  BY DEF order
<1>15. BookOk(nb, p, w2.ids) /\ AllLeaves(nb) = L \cup {l} /\ l \notin L
  <2>1. \A k \in AllLeaves(s.book) : PlaceOfLeaf(k) # place /\ p[PlaceOfLeaf(k)] = o[PlaceOfLeaf(k)]
    BY <1>12, <1>13 DEF L
  <2>2. w.ids <= w2.ids /\ w.ids \in Nat
    BY <1>1, <1>2
  <2> DEFINE new == [s.book EXCEPT ![side] = insert_leaf(@, l)]
  <2>3. /\ BookOk(s.book, o, w.ids) /\ side \in Sides /\ l \in LeafValues /\ LeafOk(l)
        /\ w2.ids \in Nat /\ w.ids \in Nat /\ w.ids <= w2.ids /\ l.id <= w2.ids
        /\ can_insert(s.book[side], l.tree) /\ place = PlaceOfLeaf(l)
        /\ \A k \in AllLeaves(s.book) : PlaceOfLeaf(k) # place
        /\ order.side = side /\ p[place] = order
        /\ \A k \in AllLeaves(s.book) : p[PlaceOfLeaf(k)] = o[PlaceOfLeaf(k)]
    BY <1>1, <1>13, <1>14, <2>1, <2>2
  <2> HIDE DEF place
  <2>4. /\ BookOk(new, p, w2.ids)
        /\ AllLeaves(new) = AllLeaves(s.book) \cup {l} /\ l \notin AllLeaves(s.book)
        /\ new[side].leaves = s.book[side].leaves \cup {l}
        /\ \A other \in Sides : other # side => new[other] = s.book[other]
    BY ONLY <2>3, BookMore
  <2> QED BY <2>4 DEF L, nb
<1>16. AccountsOk(r.oo, w2.ids)
  <2>1. \A x \in Accounts : Sound(r.oo[x])
    BY <1>1, <1>4, <1>6 DEF AccountsOk, old
  <2>2. \A x \in Places : p[x].id <= w2.ids
    <3>1. \A x \in Places : o[x].id <= w.ids /\ o[x].id \in Nat
      BY <1>1 DEF AccountsOk, OrderValues, o
    <3>2. order.id <= w2.ids /\ w.ids <= w2.ids
      BY <1>1, <1>2 DEF order
    <3>3. ASSUME NEW x \in Places PROVE p[x].id <= w2.ids
      <4>1. CASE x = place
        BY <4>1, <1>13, <3>2
      <4>2. CASE x # place
        <5>1. p[x] = o[x]
          BY <4>2, <1>13
        <5> QED BY <5>1, <3>1, <3>2, <1>1
      <4> QED BY <4>1, <4>2
    <3> QED BY <3>3
  <2> QED BY <2>1, <2>2, <1>6 DEF AccountsOk, p
<1>17. OwnersOpen(r.oo, M, E)
  <2>1. \A x \in Accounts : r.oo[x].open = s.oo[x].open
    BY <1>4, <1>6 DEF old
  <2>2. ASSUME NEW k \in M PROVE r.oo[k.owner].open
    <3>1. CASE k = l
      BY <2>1, <3>1
    <3>2. CASE k # l
      <4>1. k.owner \in Accounts /\ s.oo[k.owner].open
        BY <3>2, <1>1 DEF OwnersOpen, LeafValues
      <4> QED BY <2>1, <4>1
    <3> QED BY <3>1, <3>2
  <2>3. ASSUME NEW i \in DOMAIN E PROVE r.oo[AccountOf(E[i])].open
    <3>1. E[i] \in EventValues
      BY <1>1 DEF EventsOk
    <3>2. AccountOf(E[i]) \in Accounts /\ s.oo[AccountOf(E[i])].open
      BY <1>1, <3>1, EventKinds DEF OwnersOpen
    <3> QED BY <2>1, <3>2
  <2>4. ASSUME NEW x \in Accounts, ~r.oo[x].open PROVE r.oo[x] = ClosedAccount
    <3>1. x # a
      BY <2>4, <2>1
    <3> QED BY <3>1, <2>4, <1>1, <1>6 DEF OwnersOpen
  <2> QED BY <2>2, <2>3, <2>4 DEF OwnersOpen
<1>18. SameSlots(o, p, L, E)
  <2>1. ASSUME NEW i \in DOMAIN E, E[i].kind # "Fill" PROVE PlaceOfEvent(E[i]) # place
    <3>1. E[i] \in EventValues
      BY <1>1 DEF EventsOk
    <3>2. IsLast(E[i])
      BY <2>1, <3>1, EventKinds DEF IsLast
    <3> QED BY <1>1, <1>8, <3>2 DEF EventsClaim
  <2> QED BY <2>1, <1>12, <1>13 DEF SameSlots
<1>19. Covered(r.oo, M, E, lock2)
  <2>1. ASSUME NEW x \in Accounts, NEW kind \in Kinds
        PROVE  Covers(kind, Held(kind, r.oo[x]) - (IF kind = "fees" THEN lock2[x] ELSE 0),
                      LeavesLock(kind, p, x, M) + EventsLock(kind, p, x, E))
    <3> DEFINE h == Held(kind, s.oo[x])
               h2 == Held(kind, r.oo[x])
               k == IF kind = "fees" THEN lock[x] ELSE 0
               k2 == IF kind = "fees" THEN lock2[x] ELSE 0
               ll == LeavesLock(kind, o, x, L)
               lm == LeavesLock(kind, p, x, M)
               le == EventsLock(kind, o, x, E)
               d == LeafLocks(kind, p, x, l)
    <3>1. Covers(kind, h - k, ll + le)
      BY ONLY <1>1, CoveredAt, x \in Accounts, kind \in Kinds DEF o
    <3>2. ll \in Int /\ le \in Int
      BY <1>1, LeafTaken, EventTaken
    <3>3. p \in [Places -> OrderValues]
      BY <1>1, <1>2, <1>4, <1>7 DEF Put
    <3>4. d \in Int
      BY <3>3, LeafLocksNat
    <3>5. LeavesLock(kind, p, x, L) = ll /\ EventsLock(kind, p, x, E) = le
      BY <1>18, SameLocks
    <3>6. LeavesLock(kind, p, x, L \cup {l}) = LeafLocks(kind, p, x, l) + LeavesLock(kind, p, x, L)
      BY ONLY <1>1, <3>3, <1>15, l \in LeafValues, kind \in Kinds, LeafAdded
    <3>7. s.oo[x] \in AccountValues /\ lock[x] \in Nat /\ r.oo[x] \in AccountValues
      BY <1>1, <1>6
    <3>8. h \in Int /\ k \in Int /\ h2 \in Int
      BY <3>7, HeldInt
    <3>9. h2 - k2 = (h - k) + d
      <4>1. CASE x = a
        <5>1. d = Locks(kind, side, q, price)
          BY <4>1, <1>13, <1>14 DEF LeafLocks, OrderLocks, place
        <5>2. r.oo[x] = acc /\ s.oo[x] = old
          BY <4>1, <1>6 DEF old
        <5>3. CASE kind = "fees"
          <6>1. h2 = h
            BY <5>2, <5>3, <1>4
          <6>2. k2 = 0 /\ k = lock[a] /\ k = d
            BY <4>1, <5>1, <5>3, <1>1
          <6> HIDE DEF h, h2, k, k2, d
          <6> QED BY <6>1, <6>2, <3>8
        <5>4. CASE kind # "fees"
          <6>1. h2 = h + d /\ k2 = 0 /\ k = 0
            BY <5>1, <5>2, <5>4, <1>4
          <6> HIDE DEF h, h2, k, k2, d
          <6> QED BY <6>1, <3>4, <3>8
        <5> QED BY <5>3, <5>4
      <4>2. CASE x # a
        <5>1. r.oo[x] = s.oo[x] /\ d = 0 /\ k2 = k
          BY <4>2, <1>1, <1>6 DEF LeafLocks
        <5> QED BY <5>1, <3>8
      <4> QED BY <4>1, <4>2
    <3>10. lm = d + ll
      BY <3>5, <3>6
    <3> HIDE DEF h, h2, k, k2, ll, lm, le, d
    <3>11. h2 - k2 \in Int /\ h - k \in Int
      BY <3>4, <3>8, <3>9
    <3>12. Covers(kind, h2 - k2, lm + le)
      BY <3>1, <3>2, <3>4, <3>9, <3>10, <3>11 DEF Covers
    <3> QED BY <3>5, <3>12 DEF h2, k2, lm
  <2> QED BY <2>1 DEF Covered, p
<1>20. ASSUME NEW unit \in Units
       PROVE  /\ Owed(unit, r.oo, E) = Owed(unit, s.oo, E) - OwedTo(unit, old) + OwedTo(unit, acc)
              /\ Owed(unit, s.oo, E) \in Int /\ OwedTo(unit, old) \in Int /\ OwedTo(unit, acc) \in Int
  <2> DEFINE x == OwedToAll(unit, s.oo)
             x2 == OwedToAll(unit, r.oo)
             y == DueToAll(unit, E)
             u == OwedTo(unit, s.oo[a])
             u2 == OwedTo(unit, acc)
  <2>1. x \in Int /\ y \in Int
    BY <1>1, OwedInt, DueTaken
  <2>2. x2 = x - u + u2
    BY <1>1, <1>4, <1>5, OwedUpdate
  <2>3. u \in Int /\ u2 \in Int
    BY <1>3, <1>4, OwedToInt DEF old
  <2> HIDE DEF x, x2, y, u, u2
  <2>4. x2 + y = (x + y) - u + u2 /\ x + y \in Int
    BY <2>1, <2>2, <2>3
  <2> QED BY <2>3, <2>4 DEF Owed, x, x2, y, u, u2, old
<1>21. base2 \in Int /\ quote2 \in Int /\ lock2 \in [Accounts -> Nat]
  <2>1. q * base_lot_size \in Nat /\ q * price \in Nat
    BY <1>2, FeeAssumption
  <2>2. q * price * quote_lot_size \in Nat
    BY <2>1, FeeAssumption
  <2> QED BY <1>1, <2>1, <2>2
<1>22. Funds(r.mkt, r.oo, E, base2, quote2)
  <2> DEFINE db == IF side = "Ask" THEN q * base_lot_size ELSE 0
             dq == IF side = "Bid" THEN q * price * quote_lot_size ELSE 0
             f == s.mkt.fees_available
  <2>1. /\ s.mkt.base_deposit_total + base = Owed("base", s.oo, E)
        /\ s.mkt.quote_deposit_total + quote = Owed("quote", s.oo, E) + f
        /\ s.mkt.referrer_rebates_accrued = Owed("rebates", s.oo, E)
    BY <1>1 DEF Funds
  <2>2. /\ OwedTo("base", acc) = OwedTo("base", old) + db
        /\ OwedTo("quote", acc) = OwedTo("quote", old) + dq
        /\ OwedTo("rebates", acc) = OwedTo("rebates", old)
    BY <1>4
  <2>3. db \in Int /\ dq \in Int
    <3>1. q * base_lot_size \in Nat /\ q * price \in Nat
      BY <1>2, FeeAssumption
    <3>2. q * price * quote_lot_size \in Nat
      BY <3>1, FeeAssumption
    <3> QED BY <3>1, <3>2
  <2>4. base2 = base + db /\ quote2 = quote + dq
    OBVIOUS
  <2>5. s.mkt.base_deposit_total \in Int /\ s.mkt.quote_deposit_total \in Int /\ f \in Int
        /\ base \in Int /\ quote \in Int
    BY <1>1 DEF MarketValues
  <2> HIDE DEF db, dq, base2, quote2, f
  <2>6. Owed("base", r.oo, E) = Owed("base", s.oo, E) + db /\ Owed("base", s.oo, E) \in Int
    <3>1. "base" \in Units
      BY DEF Units
    <3> QED BY <3>1, <1>20, <2>2, <2>3
  <2>7. Owed("quote", r.oo, E) = Owed("quote", s.oo, E) + dq /\ Owed("quote", s.oo, E) \in Int
    <3>1. "quote" \in Units
      BY DEF Units
    <3> QED BY <3>1, <1>20, <2>2, <2>3
  <2>8. Owed("rebates", r.oo, E) = Owed("rebates", s.oo, E)
    <3>1. "rebates" \in Units
      BY DEF Units
    <3> QED BY <3>1, <1>20, <2>2
  <2>9. s.mkt.base_deposit_total + base2 = Owed("base", r.oo, E)
    BY <2>1, <2>3, <2>4, <2>5, <2>6
  <2>10. s.mkt.quote_deposit_total + quote2 = Owed("quote", r.oo, E) + f
    <3> DEFINE x == Owed("quote", s.oo, E)
               y == Owed("quote", r.oo, E)
               t == s.mkt.quote_deposit_total
    <3>1. y = x + dq /\ x \in Int /\ t \in Int /\ dq \in Int /\ f \in Int
      BY <2>3, <2>5, <2>7
    <3>2. t + quote = x + f /\ quote2 = quote + dq
      BY <2>1, <2>4
    <3> HIDE DEF x, y, t
    <3>3. t + quote2 = y + f
      BY <2>5, <3>1, <3>2
    <3> QED BY <3>3 DEF y, t
  <2> QED BY <2>1, <2>8, <2>9, <2>10 DEF Funds, f
<1>23. Sane(r, E, base2, quote2, lock2, w2)
  <2>1. AllLeaves(r.book) = M /\ BookOk(r.book, OrdersOf(r.oo), w2.ids)
    BY <1>5, <1>15 DEF p
  <2>2. Claims(r.oo, M, E)
    BY <1>11, <1>17 DEF Claims, p
  <2> HIDE DEF M, base2, quote2, lock2
  <2> QED BY <1>1, <1>16, <1>19, <1>21, <1>22, <2>1, <2>2 DEF Sane
<1> QED BY <1>23

\* What an account's fees must cover once lock is set aside.
FeesToCover(s, E, a) ==
  LeavesLock("fees", OrdersOf(s.oo), a, AllLeaves(s.book)) + EventsLock("fees", OrdersOf(s.oo), a, E)

\* An account holds the fees its open orders and waiting fills may still take.
LEMMA FeesCovered ==
  ASSUME NEW s, NEW E, NEW base, NEW quote, NEW lock, NEW w, Sane(s, E, base, quote, lock, w),
         NEW a \in Accounts
  PROVE  /\ FeesToCover(s, E, a) \in Nat
         /\ s.oo[a].locked_maker_fees - lock[a] >= FeesToCover(s, E, a)
<1> DEFINE o == OrdersOf(s.oo)
           L == AllLeaves(s.book)
<1>1. /\ o \in [Places -> OrderValues] /\ EventsOk(E) /\ L \in SUBSET LeafValues /\ IsFiniteSet(L)
      /\ Covered(s.oo, L, E, lock)
  BY SaneParts
<1>2. "fees" \in Kinds
  BY DEF Kinds
<1>3. LeavesLock("fees", o, a, L) \in Nat /\ EventsLock("fees", o, a, E) \in Nat
  <2> HIDE DEF o, L
  <2> QED BY <1>1, <1>2, LeafTaken, EventTaken
<1>4. Covers("fees", Held("fees", s.oo[a]) - lock[a], FeesToCover(s, E, a))
  <2>1. Covers("fees", Held("fees", s.oo[a]) - (IF "fees" = "fees" THEN lock[a] ELSE 0),
               FeesToCover(s, E, a))
    BY <1>1, <1>2, CoveredAt DEF FeesToCover
  <2> QED BY <2>1
<1>5. FeesToCover(s, E, a) \in Nat
  BY <1>3 DEF FeesToCover
<1> QED BY <1>4, <1>5, HeldFacts DEF Covers

\* An account's funds change, its orders and lots do not.
SameOrders(acc, old) ==
  /\ acc.open = old.open
  /\ acc.open_orders = old.open_orders
  /\ acc.bids_base_lots = old.bids_base_lots
  /\ acc.asks_base_lots = old.asks_base_lots
  /\ acc.bids_quote_lots = old.bids_quote_lots

\* One account's money changed while its orders, the book and the events stayed.
TouchedAccount(s, E, base, quote, lock, w, a, acc, lock2, base2, quote2, w2, r) ==
  /\ Sane(s, E, base, quote, lock, w)
  /\ a \in Accounts /\ s.oo[a].open
  /\ acc \in AccountValues /\ Sound(acc) /\ SameOrders(acc, s.oo[a])
  /\ lock2 \in [Accounts -> Nat] /\ \A x \in Accounts : x # a => lock2[x] = lock[x]
  /\ acc.locked_maker_fees - lock2[a] >= FeesToCover(s, E, a)
  /\ base2 \in Int /\ quote2 \in Int /\ w2.ids = w.ids
  /\ r.oo = [s.oo EXCEPT ![a] = acc] /\ r.book = s.book /\ HeapOk(r.heap)
  /\ TotalsOk(r.mkt, w2)
  /\ r.mkt.base_deposit_total + base2 - OwedTo("base", acc)
       = s.mkt.base_deposit_total + base - OwedTo("base", s.oo[a])
  /\ r.mkt.quote_deposit_total + quote2 - r.mkt.fees_available - OwedTo("quote", acc)
       = s.mkt.quote_deposit_total + quote - s.mkt.fees_available - OwedTo("quote", s.oo[a])
  /\ r.mkt.referrer_rebates_accrued - OwedTo("rebates", acc)
       = s.mkt.referrer_rebates_accrued - OwedTo("rebates", s.oo[a])

\* Such a change leaves a sane state when both units still balance.
LEMMA AccountTouched ==
  ASSUME NEW s, NEW E, NEW base, NEW quote, NEW lock, NEW w, NEW a, NEW acc, NEW lock2,
         NEW base2, NEW quote2, NEW w2, NEW r,
         TouchedAccount(s, E, base, quote, lock, w, a, acc, lock2, base2, quote2, w2, r)
  PROVE  Sane(r, E, base2, quote2, lock2, w2)
<1>0. /\ Sane(s, E, base, quote, lock, w)
      /\ a \in Accounts /\ s.oo[a].open
      /\ acc \in AccountValues /\ Sound(acc) /\ SameOrders(acc, s.oo[a])
      /\ lock2 \in [Accounts -> Nat] /\ \A x \in Accounts : x # a => lock2[x] = lock[x]
      /\ acc.locked_maker_fees - lock2[a] >= FeesToCover(s, E, a)
      /\ base2 \in Int /\ quote2 \in Int /\ w2.ids = w.ids
      /\ r.oo = [s.oo EXCEPT ![a] = acc] /\ r.book = s.book /\ HeapOk(r.heap)
      /\ TotalsOk(r.mkt, w2)
      /\ r.mkt.base_deposit_total + base2 - OwedTo("base", acc)
           = s.mkt.base_deposit_total + base - OwedTo("base", s.oo[a])
      /\ r.mkt.quote_deposit_total + quote2 - r.mkt.fees_available - OwedTo("quote", acc)
           = s.mkt.quote_deposit_total + quote - s.mkt.fees_available - OwedTo("quote", s.oo[a])
      /\ r.mkt.referrer_rebates_accrued - OwedTo("rebates", acc)
           = s.mkt.referrer_rebates_accrued - OwedTo("rebates", s.oo[a])
  BY DEF TouchedAccount
<1> USE <1>0
<1> DEFINE L == AllLeaves(s.book)
           o == OrdersOf(s.oo)
           p == OrdersOf(r.oo)
           old == s.oo[a]
<1>1. /\ base \in Int /\ quote \in Int /\ lock \in [Accounts -> Nat]
      /\ s.mkt \in MarketValues /\ TotalsOk(s.mkt, w) /\ w.ids \in Nat
      /\ s.oo \in [Accounts -> AccountValues] /\ AccountsOk(s.oo, w.ids)
      /\ o \in [Places -> OrderValues]
      /\ BookOk(s.book, o, w.ids)
      /\ HeapOk(s.heap) /\ EventsOk(E)
      /\ L \in SUBSET LeafValues /\ IsFiniteSet(L)
      /\ Claims(s.oo, L, E)
      /\ OwnersOpen(s.oo, L, E)
      /\ Covered(s.oo, L, E, lock)
      /\ Funds(s.mkt, s.oo, E, base, quote)
  BY ONLY Sane(s, E, base, quote, lock, w), SaneParts
<1>2. r.oo \in [Accounts -> AccountValues] /\ r.oo[a] = acc /\ \A x \in Accounts : x # a => r.oo[x] = s.oo[x]
  BY <1>1
<1>3. p = o
  BY <1>1, OrdersSame DEF SameOrders
<1>4. r.mkt \in MarketValues
  BY DEF TotalsOk
<1> HIDE DEF L, o, p, old
<1>5. AccountsOk(r.oo, w.ids)
  <2>1. \A x \in Accounts : Sound(r.oo[x])
    BY <1>1, <1>2 DEF AccountsOk
  <2>2. \A x \in Places : p[x].id <= w.ids
    BY <1>1, <1>3 DEF AccountsOk, o
  <2> QED BY <2>1, <2>2, <1>2 DEF AccountsOk, p
<1>6. OwnersOpen(r.oo, L, E)
  <2>1. \A x \in Accounts : r.oo[x].open = s.oo[x].open
    BY <1>2 DEF SameOrders
  <2>2. ASSUME NEW l \in L PROVE r.oo[l.owner].open
    <3>1. l.owner \in Accounts /\ s.oo[l.owner].open
      BY <1>1 DEF OwnersOpen, LeafValues
    <3> QED BY <2>1, <3>1
  <2>3. ASSUME NEW i \in DOMAIN E PROVE r.oo[AccountOf(E[i])].open
    <3>1. E[i] \in EventValues
      BY <1>1 DEF EventsOk
    <3>2. AccountOf(E[i]) \in Accounts /\ s.oo[AccountOf(E[i])].open
      BY <1>1, <3>1, EventKinds DEF OwnersOpen
    <3> QED BY <2>1, <3>2
  <2>4. ASSUME NEW x \in Accounts, ~r.oo[x].open PROVE r.oo[x] = ClosedAccount
    <3>1. x # a
      BY <2>4, <2>1
    <3> QED BY <3>1, <2>4, <1>1, <1>2 DEF OwnersOpen
  <2> QED BY <2>2, <2>3, <2>4 DEF OwnersOpen
<1>7. Covered(r.oo, L, E, lock2)
  <2>1. ASSUME NEW x \in Accounts, NEW kind \in Kinds
        PROVE  Covers(kind, Held(kind, r.oo[x]) - (IF kind = "fees" THEN lock2[x] ELSE 0),
                      LeavesLock(kind, o, x, L) + EventsLock(kind, o, x, E))
    <3>1. Covers(kind, Held(kind, s.oo[x]) - (IF kind = "fees" THEN lock[x] ELSE 0),
                 LeavesLock(kind, o, x, L) + EventsLock(kind, o, x, E))
      BY ONLY <1>1, CoveredAt, x \in Accounts, kind \in Kinds DEF o
    <3>2. CASE x # a
      <4>1. lock2[x] = lock[x] /\ r.oo[x] = s.oo[x]
        BY <1>2, <3>2
      <4> QED BY <3>1, <4>1
    <3>3. CASE x = a /\ kind = "fees"
      <4>1. Held("fees", acc) = acc.locked_maker_fees
        BY HeldFacts
      <4>2. Held(kind, r.oo[x]) - (IF kind = "fees" THEN lock2[x] ELSE 0)
              >= LeavesLock(kind, o, x, L) + EventsLock(kind, o, x, E)
        BY <1>2, <3>3, <4>1 DEF FeesToCover, o, L
      <4> QED BY <3>3, <4>2 DEF Covers
    <3>4. CASE x = a /\ kind # "fees"
      <4>1. Held(kind, acc) = Held(kind, s.oo[a])
        BY <3>4, HeldFacts DEF Kinds, SameOrders
      <4> QED BY <1>2, <3>1, <3>4, <4>1
    <3> QED BY <3>2, <3>3, <3>4
  <2> QED BY <2>1, <1>3 DEF Covered, p
<1>8. ASSUME NEW unit \in Units
      PROVE  /\ Owed(unit, r.oo, E) = Owed(unit, s.oo, E) - OwedTo(unit, old) + OwedTo(unit, acc)
             /\ Owed(unit, s.oo, E) \in Int /\ OwedTo(unit, old) \in Int /\ OwedTo(unit, acc) \in Int
  <2> DEFINE x == OwedToAll(unit, s.oo)
             x2 == OwedToAll(unit, r.oo)
             y == DueToAll(unit, E)
             u == OwedTo(unit, s.oo[a])
             u2 == OwedTo(unit, acc)
  <2>1. x \in Int /\ y \in Int
    BY <1>1, OwedInt, DueTaken
  <2>2. x2 = x - u + u2
    BY <1>1, OwedUpdate
  <2>3. u \in Int /\ u2 \in Int
    BY <1>1, OwedToInt
  <2> HIDE DEF x, x2, y, u, u2
  <2>4. x2 + y = (x + y) - u + u2 /\ x + y \in Int
    BY <2>1, <2>2, <2>3
  <2> QED BY <2>3, <2>4 DEF Owed, x, x2, y, u, u2, old
<1>9. Funds(r.mkt, r.oo, E, base2, quote2)
  <2> DEFINE b == Owed("base", s.oo, E)
             q == Owed("quote", s.oo, E)
             d == Owed("rebates", s.oo, E)
             b1 == OwedTo("base", old)
             q1 == OwedTo("quote", old)
             d1 == OwedTo("rebates", old)
             b2 == OwedTo("base", acc)
             q2 == OwedTo("quote", acc)
             d2 == OwedTo("rebates", acc)
             nb == Owed("base", r.oo, E)
             nq == Owed("quote", r.oo, E)
             nd == Owed("rebates", r.oo, E)
             tb == s.mkt.base_deposit_total
             tq == s.mkt.quote_deposit_total
             f == s.mkt.fees_available
             td == s.mkt.referrer_rebates_accrued
             ub == r.mkt.base_deposit_total
             uq == r.mkt.quote_deposit_total
             g == r.mkt.fees_available
             ud == r.mkt.referrer_rebates_accrued
  <2>1. tb + base = b /\ tq + quote = q + f /\ td = d
    BY <1>1 DEF Funds
  <2>2. nb = b - b1 + b2 /\ b \in Int /\ b1 \in Int /\ b2 \in Int
    BY <1>8 DEF Units
  <2>3. nq = q - q1 + q2 /\ q \in Int /\ q1 \in Int /\ q2 \in Int
    BY <1>8 DEF Units
  <2>4. nd = d - d1 + d2 /\ d \in Int /\ d1 \in Int /\ d2 \in Int
    BY <1>8 DEF Units
  <2>5. tb \in Int /\ tq \in Int /\ f \in Int /\ td \in Int
    BY <1>1 DEF MarketValues
  <2>6. ub \in Int /\ uq \in Int /\ g \in Int /\ ud \in Int
    BY <1>4 DEF MarketValues
  <2>7. ub + base2 - b2 = tb + base - b1 /\ uq + quote2 - g - q2 = tq + quote - f - q1 /\ ud - d2 = td - d1
    BY DEF old
  <2>8. base \in Int /\ quote \in Int
    BY <1>1
  <2> HIDE DEF b, q, d, b1, q1, d1, b2, q2, d2, nb, nq, nd, tb, tq, f, td, ub, uq, g, ud
  <2>9. ub + base2 = nb
    BY <2>1, <2>2, <2>5, <2>6, <2>7, <2>8
  <2>10. uq + quote2 = nq + g
    BY <2>1, <2>3, <2>5, <2>6, <2>7, <2>8
  <2>11. ud = nd
    BY <2>1, <2>4, <2>5, <2>6, <2>7
  <2> QED BY <2>9, <2>10, <2>11 DEF Funds, nb, nq, nd, ub, uq, g, ud
<1>10. AllLeaves(r.book) = L /\ BookOk(r.book, OrdersOf(r.oo), w2.ids)
  BY <1>1, <1>3 DEF L, p
<1>11. Claims(r.oo, L, E)
  BY <1>1, <1>3, <1>6 DEF Claims, p, o
<1>12. AccountsOk(r.oo, w2.ids)
  BY <1>5
<1> QED BY <1>1, <1>7, <1>9, <1>10, <1>11, <1>12 DEF Sane

\* A change of the market's totals leaves a sane state when both units still balance.
LEMMA MarketTouched ==
  ASSUME NEW s, NEW E, NEW base, NEW quote, NEW lock, NEW w, Sane(s, E, base, quote, lock, w),
         NEW base2 \in Int, NEW quote2 \in Int, NEW w2, w2.ids = w.ids,
         NEW r, r.oo = s.oo, r.book = s.book, HeapOk(r.heap), TotalsOk(r.mkt, w2),
         r.mkt.base_deposit_total + base2 = s.mkt.base_deposit_total + base,
         r.mkt.quote_deposit_total + quote2 - r.mkt.fees_available
           = s.mkt.quote_deposit_total + quote - s.mkt.fees_available,
         r.mkt.referrer_rebates_accrued = s.mkt.referrer_rebates_accrued
  PROVE  Sane(r, E, base2, quote2, lock, w2)
<1> DEFINE L == AllLeaves(s.book)
<1>1. /\ base \in Int /\ quote \in Int /\ lock \in [Accounts -> Nat]
      /\ s.mkt \in MarketValues /\ TotalsOk(s.mkt, w) /\ w.ids \in Nat
      /\ s.oo \in [Accounts -> AccountValues] /\ AccountsOk(s.oo, w.ids)
      /\ BookOk(s.book, OrdersOf(s.oo), w.ids)
      /\ EventsOk(E)
      /\ Claims(s.oo, L, E)
      /\ Covered(s.oo, L, E, lock)
      /\ Funds(s.mkt, s.oo, E, base, quote)
  BY ONLY Sane(s, E, base, quote, lock, w), SaneParts
<1>2. Funds(r.mkt, r.oo, E, base2, quote2)
  <2> DEFINE b == Owed("base", s.oo, E)
             q == Owed("quote", s.oo, E)
             tb == s.mkt.base_deposit_total
             tq == s.mkt.quote_deposit_total
             f == s.mkt.fees_available
             ub == r.mkt.base_deposit_total
             uq == r.mkt.quote_deposit_total
             g == r.mkt.fees_available
  <2>1. tb + base = b /\ tq + quote = q + f
    BY <1>1 DEF Funds
  <2>2. b \in Int /\ q \in Int
    <3> DEFINE x(u) == OwedToAll(u, s.oo)
               y(u) == DueToAll(u, E)
    <3>1. \A unit \in Units : x(unit) \in Int /\ y(unit) \in Int
      BY <1>1, OwedInt
    <3>2. x("base") \in Int /\ y("base") \in Int /\ x("quote") \in Int /\ y("quote") \in Int
      BY <3>1 DEF Units
    <3> HIDE DEF x, y
    <3>3. x("base") + y("base") \in Int /\ x("quote") + y("quote") \in Int
      BY <3>2
    <3> QED BY <3>3 DEF Owed, x, y
  <2>3. tb \in Int /\ tq \in Int /\ f \in Int
    BY <1>1 DEF MarketValues
  <2>4. ub \in Int /\ uq \in Int /\ g \in Int
    BY DEF TotalsOk, MarketValues
  <2>5. ub + base2 = tb + base /\ uq + quote2 - g = tq + quote - f
    OBVIOUS
  <2>6. base \in Int /\ quote \in Int
    BY <1>1
  <2>7. r.mkt.referrer_rebates_accrued = Owed("rebates", s.oo, E)
    BY <1>1 DEF Funds
  <2> HIDE DEF b, q, tb, tq, f, ub, uq, g
  <2>8. ub + base2 = b
    BY <2>1, <2>2, <2>3, <2>4, <2>5, <2>6
  <2>9. uq + quote2 = q + g
    BY <2>1, <2>2, <2>3, <2>4, <2>5, <2>6
  <2> QED BY <2>7, <2>8, <2>9 DEF Funds, b, q, ub, uq, g
<1> QED BY <1>1, <1>2 DEF Sane

\* Issuing more sequence numbers leaves a sane state.
LEMMA MoreIds ==
  ASSUME NEW s, NEW E, NEW base, NEW quote, NEW lock, NEW w, Sane(s, E, base, quote, lock, w),
         NEW w2, w2.ids \in Nat, w.ids <= w2.ids, TotalsOk(s.mkt, w2)
  PROVE  Sane(s, E, base, quote, lock, w2)
<1>1. /\ base \in Int /\ quote \in Int /\ lock \in [Accounts -> Nat]
      /\ w.ids \in Nat
      /\ s.oo \in [Accounts -> AccountValues] /\ AccountsOk(s.oo, w.ids)
      /\ OrdersOf(s.oo) \in [Places -> OrderValues]
      /\ BookOk(s.book, OrdersOf(s.oo), w.ids)
      /\ HeapOk(s.heap) /\ EventsOk(E)
      /\ Claims(s.oo, AllLeaves(s.book), E)
      /\ Covered(s.oo, AllLeaves(s.book), E, lock)
      /\ Funds(s.mkt, s.oo, E, base, quote)
  BY ONLY Sane(s, E, base, quote, lock, w), SaneParts
<1>2. AccountsOk(s.oo, w2.ids)
  <2> DEFINE o == OrdersOf(s.oo)
  <2>1. \A x \in Places : o[x].id \in Nat /\ o[x].id <= w.ids
    <3>1. o \in [Places -> OrderValues] /\ \A x \in Places : o[x].id <= w.ids
      BY <1>1 DEF AccountsOk
    <3> HIDE DEF o
    <3> QED BY <3>1 DEF OrderValues
  <2> HIDE DEF o
  <2>2. \A x \in Places : o[x].id <= w2.ids
    BY <1>1, <2>1
  <2> QED BY <1>1, <2>2 DEF AccountsOk, o
<1>3. BookOk(s.book, OrdersOf(s.oo), w2.ids)
  <2>1. ASSUME NEW side \in Sides PROVE SideOk(s.book[side], w2.ids)
    <3>1. SideOk(s.book[side], w.ids)
      BY <1>1 DEF BookOk
    <3>2. \A l \in s.book[side].leaves : l.id \in Nat
      BY <3>1 DEF SideOk, LeafValues
    <3> QED BY <1>1, <3>1, <3>2 DEF SideOk
  <2> QED BY <1>1, <2>1 DEF BookOk
<1> QED BY <1>1, <1>2, <1>3 DEF Sane

\* F holds the events of E at other positions.
Renames(f, F, E) ==
  /\ f \in [DOMAIN F -> DOMAIN E]
  /\ \A i, j \in DOMAIN F : f[i] = f[j] => i = j
  /\ \A i \in DOMAIN E : \E j \in DOMAIN F : f[j] = i
  /\ \A j \in DOMAIN F : F[j] = E[f[j]]

\* A sane state does not depend on how its events are indexed.
LEMMA EventsRenamed ==
  ASSUME NEW s, NEW E, NEW base, NEW quote, NEW lock, NEW w, Sane(s, E, base, quote, lock, w),
         NEW F, NEW f, Renames(f, F, E)
  PROVE  Sane(s, F, base, quote, lock, w)
<1> DEFINE L == AllLeaves(s.book)
           o == OrdersOf(s.oo)
<1>1. /\ base \in Int /\ quote \in Int /\ lock \in [Accounts -> Nat]
      /\ s.oo \in [Accounts -> AccountValues]
      /\ o \in [Places -> OrderValues]
      /\ EventsOk(E)
      /\ EventsClaim(o, L, E) /\ OrdersClaimed(o, L, E)
      /\ OwnersOpen(s.oo, L, E)
      /\ Covered(s.oo, L, E, lock)
      /\ Funds(s.mkt, s.oo, E, base, quote)
  BY ONLY Sane(s, E, base, quote, lock, w), SaneParts
<1>2. /\ f \in [DOMAIN F -> DOMAIN E]
      /\ \A i, j \in DOMAIN F : f[i] = f[j] => i = j
      /\ \A i \in DOMAIN E : \E j \in DOMAIN F : f[j] = i
      /\ \A j \in DOMAIN F : F[j] = E[f[j]]
  BY DEF Renames
<1> HIDE DEF L, o
<1>3. IsFiniteSet(DOMAIN F)
  <2>1. f \in Injection(DOMAIN F, DOMAIN E)
    BY <1>2 DEF Injection, IsInjective
  <2>2. IsFiniteSet(DOMAIN E)
    BY <1>1 DEF EventsOk
  <2> QED BY <2>1, <2>2, FS_Injection
<1>4. EventsOk(F) /\ \A i \in DOMAIN F : f[i] \in DOMAIN E /\ F[i] = E[f[i]] /\ F[i] \in EventValues
  <2>1. \A i \in DOMAIN F : f[i] \in DOMAIN E /\ F[i] = E[f[i]] /\ F[i] \in EventValues
    BY <1>1, <1>2 DEF EventsOk
  <2> QED BY <1>3, <2>1 DEF EventsOk
<1>5. EventsClaim(o, L, F) /\ OrdersClaimed(o, L, F)
  BY ONLY <1>1, <1>2, EventsMoved
<1>6. OwnersOpen(s.oo, L, F)
  BY <1>1, <1>4 DEF OwnersOpen
<1>7. ASSUME NEW a, NEW kind \in Kinds
      PROVE  EventsLock(kind, o, a, F) = EventsLock(kind, o, a, E)
  <2> DEFINE g == [i \in DOMAIN F |-> EventLocks(kind, o, a, F[i])]
             h == [i \in DOMAIN E |-> EventLocks(kind, o, a, E[i])]
  <2>1. \A x \in DOMAIN F : g[x] \in Int /\ h[f[x]] = g[x]
    <3>1. \A x \in DOMAIN F : EventLocks(kind, o, a, F[x]) \in Nat
      BY <1>1, <1>4, EventLocksNat
    <3> QED BY <1>4, <3>1
  <2> HIDE DEF g, h
  <2>2. SumFunctionOnSet(g, DOMAIN F) = SumFunctionOnSet(h, DOMAIN E)
    BY ONLY <1>2, <1>3, <2>1, SumRenamed
  <2> QED BY <2>2 DEF EventsLock, g, h
<1>8. ASSUME NEW unit \in Units
      PROVE  DueToAll(unit, F) = DueToAll(unit, E)
  <2> DEFINE g == [i \in DOMAIN F |-> Due(unit, F[i])]
             h == [i \in DOMAIN E |-> Due(unit, E[i])]
  <2>1. \A x \in DOMAIN F : g[x] \in Int /\ h[f[x]] = g[x]
    <3>1. \A x \in DOMAIN F : Due(unit, F[x]) \in Int
      BY <1>4, DueInt
    <3> QED BY <1>4, <3>1
  <2> HIDE DEF g, h
  <2>2. SumFunctionOnSet(g, DOMAIN F) = SumFunctionOnSet(h, DOMAIN E)
    BY ONLY <1>2, <1>3, <2>1, SumRenamed
  <2> QED BY <2>2 DEF DueToAll, g, h
<1>9. Covered(s.oo, L, F, lock)
  <2>1. ASSUME NEW a \in Accounts, NEW kind \in Kinds
        PROVE  Covers(kind, Held(kind, s.oo[a]) - (IF kind = "fees" THEN lock[a] ELSE 0),
                      LeavesLock(kind, o, a, L) + EventsLock(kind, o, a, F))
    <3>1. Covers(kind, Held(kind, s.oo[a]) - (IF kind = "fees" THEN lock[a] ELSE 0),
                 LeavesLock(kind, o, a, L) + EventsLock(kind, o, a, E))
      BY ONLY <1>1, CoveredAt, a \in Accounts, kind \in Kinds DEF o
    <3> QED BY <3>1, <1>7
  <2> QED BY <2>1 DEF Covered, o
<1>10. Funds(s.mkt, s.oo, F, base, quote)
  <2>1. \A unit \in Units : Owed(unit, s.oo, F) = Owed(unit, s.oo, E)
    BY <1>8 DEF Owed
  <2>2. Owed("base", s.oo, F) = Owed("base", s.oo, E) /\ Owed("quote", s.oo, F) = Owed("quote", s.oo, E)
        /\ Owed("rebates", s.oo, F) = Owed("rebates", s.oo, E)
    BY <2>1 DEF Units
  <2> QED BY <1>1, <2>2 DEF Funds
<1>11. Claims(s.oo, L, F)
  <2>1. Claims(s.oo, L, E)
    BY DEF Sane, L
  <2> QED BY <1>5, <1>6, <2>1 DEF Claims, o
<1> QED BY <1>4, <1>9, <1>10, <1>11 DEF Sane, L

\* The updates of the working state, one field at a time.
OkSet(s, ok) == [s EXCEPT !.ok = ok]
\* One account replaced.
AccountSet(s, a, acc) == [s EXCEPT !.oo[a] = acc]
\* The market replaced.
MarketSet(s, m) == [s EXCEPT !.mkt = m]
\* The event heap replaced.
HeapSet(s, h) == [s EXCEPT !.heap = h]
\* One side of the book replaced.
BookSet(s, side, bs) == [s EXCEPT !.book[side] = bs]

\* The record each of these updates yields.
LEMMA SetFields ==
  ASSUME NEW s, IsState(s), NEW v, NEW a
  PROVE  /\ OkSet(s, v)
              = [ok |-> v, mkt |-> s.mkt, oo |-> s.oo, book |-> s.book, heap |-> s.heap]
         /\ AccountSet(s, a, v)
              = [ok |-> s.ok, mkt |-> s.mkt, oo |-> [s.oo EXCEPT ![a] = v],
                 book |-> s.book, heap |-> s.heap]
         /\ MarketSet(s, v)
              = [ok |-> s.ok, mkt |-> v, oo |-> s.oo, book |-> s.book, heap |-> s.heap]
         /\ HeapSet(s, v)
              = [ok |-> s.ok, mkt |-> s.mkt, oo |-> s.oo, book |-> s.book, heap |-> v]
         /\ BookSet(s, a, v)
              = [ok |-> s.ok, mkt |-> s.mkt, oo |-> s.oo, book |-> [s.book EXCEPT ![a] = v],
                 heap |-> s.heap]
<1>1. s = [ok |-> s.ok, mkt |-> s.mkt, oo |-> s.oo, book |-> s.book, heap |-> s.heap]
  BY DEF IsState
<1> DEFINE k == s.ok
           m == s.mkt
           o == s.oo
           b == s.book
           h == s.heap
<1>2. s = [ok |-> k, mkt |-> m, oo |-> o, book |-> b, heap |-> h]
  BY <1>1
<1> HIDE DEF k, m, o, b, h
<1>3. OkSet(s, v) = [ok |-> v, mkt |-> m, oo |-> o, book |-> b, heap |-> h]
  BY <1>2 DEF OkSet
<1>4. AccountSet(s, a, v) = [ok |-> k, mkt |-> m, oo |-> [o EXCEPT ![a] = v], book |-> b, heap |-> h]
  BY <1>2 DEF AccountSet
<1>5. MarketSet(s, v) = [ok |-> k, mkt |-> v, oo |-> o, book |-> b, heap |-> h]
  BY <1>2 DEF MarketSet
<1>6. HeapSet(s, v) = [ok |-> k, mkt |-> m, oo |-> o, book |-> b, heap |-> v]
  BY <1>2 DEF HeapSet
<1>7. BookSet(s, a, v) = [ok |-> k, mkt |-> m, oo |-> o, book |-> [b EXCEPT ![a] = v], heap |-> h]
  BY <1>2 DEF BookSet
<1> QED BY <1>3, <1>4, <1>5, <1>6, <1>7 DEF k, m, o, b, h

\* A record of the five fields is a working state with those fields.
LEMMA MadeState ==
  ASSUME NEW ok, NEW m, NEW accs, NEW b, NEW h, NEW s,
         s = [ok |-> ok, mkt |-> m, oo |-> accs, book |-> b, heap |-> h]
  PROVE  /\ IsState(s) /\ s.ok = ok /\ s.mkt = m /\ s.oo = accs /\ s.book = b /\ s.heap = h
BY DEF IsState

\* The fields after the flag was set.
LEMMA OkSetIs ==
  ASSUME NEW s, IsState(s), NEW v, NEW r, r = OkSet(s, v)
  PROVE  /\ IsState(r) /\ r.ok = v /\ r.mkt = s.mkt /\ r.oo = s.oo
         /\ r.book = s.book /\ r.heap = s.heap
<1>0. IsState(s) /\ r = OkSet(s, v)
  OBVIOUS
<1>1. r = [ok |-> v, mkt |-> s.mkt, oo |-> s.oo, book |-> s.book, heap |-> s.heap]
  BY ONLY <1>0, SetFields, Zenon
<1> QED BY <1>1, MadeState

\* The fields after an account was replaced.
LEMMA AccountSetIs ==
  ASSUME NEW s, IsState(s), NEW a, NEW v, NEW r, r = AccountSet(s, a, v)
  PROVE  /\ IsState(r) /\ r.ok = s.ok /\ r.mkt = s.mkt /\ r.oo = [s.oo EXCEPT ![a] = v]
         /\ r.book = s.book /\ r.heap = s.heap
<1>1. r = [ok |-> s.ok, mkt |-> s.mkt, oo |-> [s.oo EXCEPT ![a] = v], book |-> s.book, heap |-> s.heap]
  <2>1. s = [ok |-> s.ok, mkt |-> s.mkt, oo |-> s.oo, book |-> s.book, heap |-> s.heap]
    BY DEF IsState
  <2> DEFINE k == s.ok
             m == s.mkt
             o == s.oo
             b == s.book
             h == s.heap
  <2>2. s = [ok |-> k, mkt |-> m, oo |-> o, book |-> b, heap |-> h]
    BY <2>1
  <2> HIDE DEF k, m, o, b, h
  <2>3. r = [ok |-> k, mkt |-> m, oo |-> [o EXCEPT ![a] = v], book |-> b, heap |-> h]
    BY <2>2 DEF AccountSet
  <2> QED BY <2>3 DEF k, m, o, b, h
<1> QED BY <1>1, MadeState

\* The fields after the market was replaced.
LEMMA MarketSetIs ==
  ASSUME NEW s, IsState(s), NEW v, NEW r, r = MarketSet(s, v)
  PROVE  /\ IsState(r) /\ r.ok = s.ok /\ r.mkt = v /\ r.oo = s.oo
         /\ r.book = s.book /\ r.heap = s.heap
<1>1. r = [ok |-> s.ok, mkt |-> v, oo |-> s.oo, book |-> s.book, heap |-> s.heap]
  BY SetFields, Zenon
<1> QED BY <1>1, MadeState

\* The fields after the heap was replaced.
LEMMA HeapSetIs ==
  ASSUME NEW s, IsState(s), NEW v, NEW r, r = HeapSet(s, v)
  PROVE  /\ IsState(r) /\ r.ok = s.ok /\ r.mkt = s.mkt /\ r.oo = s.oo
         /\ r.book = s.book /\ r.heap = v
<1>1. r = [ok |-> s.ok, mkt |-> s.mkt, oo |-> s.oo, book |-> s.book, heap |-> v]
  BY SetFields, Zenon
<1> QED BY <1>1, MadeState

\* The fields after a side of the book was replaced.
LEMMA BookSetIs ==
  ASSUME NEW s, IsState(s), NEW a, NEW v, NEW r, r = BookSet(s, a, v)
  PROVE  /\ IsState(r) /\ r.ok = s.ok /\ r.mkt = s.mkt /\ r.oo = s.oo
         /\ r.book = Put(s.book, a, v) /\ r.heap = s.heap
<1>1. r = [ok |-> s.ok, mkt |-> s.mkt, oo |-> s.oo, book |-> [s.book EXCEPT ![a] = v], heap |-> s.heap]
  BY SetFields, Zenon
<1> QED BY <1>1, MadeState DEF Put

\* The flag and one account set together.
OkAccountSet(s, ok, a, acc) == [s EXCEPT !.ok = ok, !.oo[a] = acc]

\* The fields after that.
LEMMA SetOkAndAccount ==
  ASSUME NEW s, IsState(s), NEW ok, NEW a, NEW acc
  PROVE  LET r == OkAccountSet(s, ok, a, acc)
         IN  /\ IsState(r) /\ r.ok = ok /\ r.mkt = s.mkt /\ r.oo = [s.oo EXCEPT ![a] = acc]
             /\ r.book = s.book /\ r.heap = s.heap
<1> DEFINE q == OkSet(s, ok)
           r == AccountSet(q, a, acc)
<1>1. OkAccountSet(s, ok, a, acc) = r
  BY DEF OkAccountSet, AccountSet, OkSet
<1>2. IsState(q) /\ q.ok = ok /\ q.mkt = s.mkt /\ q.oo = s.oo /\ q.book = s.book /\ q.heap = s.heap
  BY OkSetIs
<1> HIDE DEF q
<1>3. IsState(r) /\ r.ok = q.ok /\ r.mkt = q.mkt /\ r.oo = [q.oo EXCEPT ![a] = acc]
      /\ r.book = q.book /\ r.heap = q.heap
  <2> HIDE DEF r
  <2> QED BY <1>2, AccountSetIs DEF r
<1> HIDE DEF r
<1> QED BY <1>1, <1>2, <1>3

\* What cancelling one slot does to the working state.
LEMMA CancelSlotOfFields ==
  ASSUME NEW s, IsState(s), NEW a, NEW slot, NEW quantity
  PROVE  LET r == CancelSlotOf(s, a, slot, quantity)
             acc == cancel_slot(s.oo[a], slot, quantity)
         IN  /\ IsState(r) /\ r.ok \in BOOLEAN
             /\ r.ok = (s.ok /\ ~is_free_slot(s.oo[a], slot) /\ Sound(acc))
             /\ r.oo = [s.oo EXCEPT ![a] = acc]
             /\ r.mkt = s.mkt /\ r.book = s.book /\ r.heap = s.heap
<1> DEFINE r == CancelSlotOf(s, a, slot, quantity)
           acc == cancel_slot(s.oo[a], slot, quantity)
           ok == s.ok /\ ~is_free_slot(s.oo[a], slot) /\ Sound(acc)
<1>1. r = OkAccountSet(s, ok, a, acc)
  BY DEF CancelSlotOf, With, OkAccountSet
<1>2. ok \in BOOLEAN
  OBVIOUS
<1> HIDE DEF r, acc, ok
<1>3. IsState(r) /\ r.ok = ok /\ r.mkt = s.mkt /\ r.oo = [s.oo EXCEPT ![a] = acc]
      /\ r.book = s.book /\ r.heap = s.heap
  BY <1>1, SetOkAndAccount
<1> QED BY <1>2, <1>3 DEF r, acc, ok

\* The fees of a fill booked in the market ...
FeeBooked(m, fees) ==
  [m EXCEPT !.referrer_rebates_accrued = @ + fees, !.fees_accrued = @ + fees]

\* ... and in the market of a working state.
FeesSet(s, fees) ==
  [s EXCEPT !.mkt.referrer_rebates_accrued = @ + fees, !.mkt.fees_accrued = @ + fees]

\* The fields after the fees were booked.
LEMMA SetFees ==
  ASSUME NEW s, IsState(s), s.mkt \in MarketValues, NEW fees, NEW r0, r0 = FeesSet(s, fees)
  PROVE  /\ IsState(r0) /\ r0.ok = s.ok /\ r0.mkt = FeeBooked(s.mkt, fees) /\ r0.oo = s.oo
         /\ r0.book = s.book /\ r0.heap = s.heap
<1> DEFINE m == s.mkt
           v == [m EXCEPT !.referrer_rebates_accrued = @ + fees]
           q == [s EXCEPT !.mkt.referrer_rebates_accrued = @ + fees]
           v2 == [v EXCEPT !.fees_accrued = @ + fees]
           r == [q EXCEPT !.mkt.fees_accrued = @ + fees]
<1>1. FeeBooked(m, fees) = v2
  BY DEF FeeBooked
<1>2. q = MarketSet(s, v)
  <2> DEFINE k == s.ok
             o == s.oo
             b == s.book
             h == s.heap
  <2>1. s = [ok |-> k, mkt |-> m, oo |-> o, book |-> b, heap |-> h]
    BY DEF IsState
  <2> HIDE DEF k, o, b, h
  <2>2. q = [s EXCEPT !.mkt = v]
    BY <2>1
  <2> QED BY <2>2 DEF MarketSet
<1> HIDE DEF v
<1>3. IsState(q) /\ q.mkt = v /\ q.ok = s.ok /\ q.oo = s.oo /\ q.book = s.book /\ q.heap = s.heap
  <2> HIDE DEF q
  <2> QED BY <1>2, MarketSetIs
<1>4. r0 = r
  BY DEF FeesSet
<1> HIDE DEF q
<1>5. r = MarketSet(q, v2)
  <2> DEFINE k == q.ok
             o == q.oo
             b == q.book
             h == q.heap
  <2>1. q = [ok |-> k, mkt |-> v, oo |-> o, book |-> b, heap |-> h]
    BY <1>3 DEF IsState
  <2> HIDE DEF k, o, b, h
  <2>2. r = [q EXCEPT !.mkt = v2]
    BY <2>1
  <2> QED BY <2>2 DEF MarketSet
<1> HIDE DEF v2, r
<1>6. IsState(r) /\ r.ok = q.ok /\ r.mkt = v2 /\ r.oo = q.oo /\ r.book = q.book /\ r.heap = q.heap
  BY <1>3, <1>5, MarketSetIs
<1> QED BY <1>1, <1>3, <1>4, <1>6 DEF m

\* The working state after a maker was executed.
MakerPaid(s, fill, r) ==
  LET acc == execute_maker(s.oo[fill.maker], fill)
  IN  /\ IsState(r) /\ r.ok \in BOOLEAN
      /\ r.ok = (s.ok /\ Sound(acc)
                 /\ (fill.maker_out => ~is_free_slot(s.oo[fill.maker], fill.maker_slot)))
      /\ r.oo = [s.oo EXCEPT ![fill.maker] = acc]
      /\ r.mkt = FeeBooked(s.mkt, FillTerms(fill).fees)
      /\ r.book = s.book /\ r.heap = s.heap

\* Executing a maker yields that state.
LEMMA ExecuteMakerFields ==
  ASSUME NEW s, IsState(s), NEW fill, fill.maker_out \in BOOLEAN,
         s.mkt \in MarketValues
  PROVE  MakerPaid(s, fill, ExecuteMaker(s, fill))
<1> DEFINE acc == execute_maker(s.oo[fill.maker], fill)
           fees == FillTerms(fill).fees
           a == fill.maker
           ok == s.ok /\ Sound(acc) /\ (fill.maker_out => ~is_free_slot(s.oo[fill.maker], fill.maker_slot))
           r == ExecuteMaker(s, fill)
           q == OkAccountSet(s, ok, a, acc)
           bare == [s EXCEPT !.ok = ok, !.oo[a] = acc,
                             !.mkt.referrer_rebates_accrued = @ + fees, !.mkt.fees_accrued = @ + fees]
<1>1. r = bare
  BY DEF ExecuteMaker, With
<1>2. ok \in BOOLEAN
  OBVIOUS
<1> HIDE DEF acc, fees, a, ok, r
<1>3. bare = FeesSet(q, fees)
  BY DEF OkAccountSet, FeesSet
<1>4. IsState(q) /\ q.ok = ok /\ q.mkt = s.mkt /\ q.oo = [s.oo EXCEPT ![a] = acc]
      /\ q.book = s.book /\ q.heap = s.heap
  <2> HIDE DEF q
  <2> QED BY SetOkAndAccount DEF q
<1> HIDE DEF q, bare
<1>5. IsState(r) /\ r.ok = q.ok /\ r.mkt = FeeBooked(q.mkt, fees) /\ r.oo = q.oo /\ r.book = q.book
      /\ r.heap = q.heap
  <2>1. IsState(q) /\ q.mkt \in MarketValues /\ r = FeesSet(q, fees)
    BY <1>1, <1>3, <1>4
  <2> QED BY ONLY <2>1, SetFees
<1> QED BY <1>2, <1>4, <1>5 DEF MakerPaid, acc, fees, a, ok, r

\* Pushing an event appends it, and fails when the heap is full.
LEMMA PushBackFields ==
  ASSUME NEW s, IsState(s), NEW e
  PROVE  LET r == push_back(s, e)
         IN  /\ IsState(r) /\ r.ok \in BOOLEAN
             /\ r.ok = (s.ok /\ Len(s.heap) < MAX_NUM_EVENTS)
             /\ r.heap = Append(s.heap, e)
             /\ r.mkt = s.mkt /\ r.book = s.book /\ r.oo = s.oo
<1> DEFINE r == push_back(s, e)
           ok == s.ok /\ Len(s.heap) < MAX_NUM_EVENTS
           h == Append(s.heap, e)
           q == OkSet(s, ok)
<1>1. r = HeapSet(q, h)
  BY DEF push_back, HeapSet, OkSet
<1>2. ok \in BOOLEAN
  OBVIOUS
<1> HIDE DEF ok, h
<1>3. IsState(q) /\ q.ok = ok /\ q.mkt = s.mkt /\ q.oo = s.oo /\ q.book = s.book /\ q.heap = s.heap
  <2> HIDE DEF q
  <2> QED BY OkSetIs DEF q
<1> HIDE DEF q, r
<1>4. IsState(r) /\ r.ok = q.ok /\ r.mkt = q.mkt /\ r.oo = q.oo /\ r.book = q.book /\ r.heap = h
  BY <1>1, <1>3, HeapSetIs
<1> QED BY <1>2, <1>3, <1>4 DEF r, ok, h

\* The working state after a leaf was removed.
LeafGone(s, side, leaf, r) ==
  /\ IsState(r) /\ r.ok = s.ok /\ r.mkt = s.mkt /\ r.oo = s.oo /\ r.heap = s.heap
  /\ r.book = [s.book EXCEPT ![side] = remove_leaf(s.book[side], leaf)]

\* Removing a leaf yields that state.
LEMMA RemoveLeafFields ==
  ASSUME NEW s, IsState(s), NEW side, NEW leaf
  PROVE  LeafGone(s, side, leaf, RemoveLeaf(s, side, leaf))
<1> DEFINE r == RemoveLeaf(s, side, leaf)
           bs == remove_leaf(s.book[side], leaf)
<1>1. r = BookSet(s, side, bs)
  BY DEF RemoveLeaf, BookSet
<1> HIDE DEF r, bs
<1>2. r = [ok |-> s.ok, mkt |-> s.mkt, oo |-> s.oo, book |-> [s.book EXCEPT ![side] = bs], heap |-> s.heap]
  BY <1>1, SetFields
<1>3. IsState(r) /\ r.ok = s.ok /\ r.mkt = s.mkt /\ r.oo = s.oo
      /\ r.book = [s.book EXCEPT ![side] = bs] /\ r.heap = s.heap
  BY <1>2, MadeState
<1> QED BY <1>3 DEF LeafGone, r, bs

\* A side of the book once a leaf was filled by quantity.
ReducedSide(bs, leaf, quantity) ==
  IF quantity = leaf.quantity THEN remove_leaf(bs, leaf)
  ELSE [leaves |-> (bs.leaves \ {leaf}) \cup {[leaf EXCEPT !.quantity = leaf.quantity - quantity]},
        bump |-> bs.bump]

\* The working state after a leaf was reduced.
LeafFilled(s, side, leaf, quantity, r) ==
  /\ IsState(r) /\ r.ok = s.ok /\ r.mkt = s.mkt /\ r.oo = s.oo /\ r.heap = s.heap
  /\ r.book = [s.book EXCEPT ![side] = ReducedSide(s.book[side], leaf, quantity)]

\* Reducing a leaf yields that state.
LEMMA ReduceFields ==
  ASSUME NEW s, IsState(s), NEW side \in Sides, NEW leaf \in LeafValues, NEW quantity,
         s.book = [d \in Sides |-> s.book[d]],
         s.book[side] = [leaves |-> s.book[side].leaves, bump |-> s.book[side].bump]
  PROVE  LeafFilled(s, side, leaf, quantity, Reduce(s, side, leaf, quantity))
<1> DEFINE r == Reduce(s, side, leaf, quantity)
           gone == RemoveLeaf(s, side, leaf)
           bs == s.book[side]
           m == [leaf EXCEPT !.quantity = leaf.quantity - quantity]
           rb == [leaves |-> (bs.leaves \ {leaf}) \cup {m}, bump |-> bs.bump]
<1>1. LeafGone(s, side, leaf, gone)
  BY RemoveLeafFields
<1>2. bs = [leaves |-> bs.leaves, bump |-> bs.bump]
  OBVIOUS
<1>3. s.book = [d \in Sides |-> s.book[d]]
  OBVIOUS
<1>4. CASE quantity = leaf.quantity
  <2>1. r = gone
    BY <1>4 DEF Reduce
  <2>2. ReducedSide(bs, leaf, quantity) = remove_leaf(bs, leaf)
    BY <1>4 DEF ReducedSide
  <2> HIDE DEF r, gone
  <2> QED BY <1>1, <2>1, <2>2 DEF LeafGone, LeafFilled, r
<1>5. CASE quantity # leaf.quantity
  <2>1. r = [gone EXCEPT !.book[side].leaves = @ \cup {m}]
    BY <1>5 DEF Reduce
  <2>2. ReducedSide(bs, leaf, quantity) = rb
    BY <1>5 DEF ReducedSide
  <2>3. remove_leaf(bs, leaf) = [leaves |-> bs.leaves \ {leaf}, bump |-> bs.bump]
    <3> DEFINE lv == bs.leaves
               bp == bs.bump
    <3>1. bs = [leaves |-> lv, bump |-> bp]
      BY <1>2
    <3> HIDE DEF lv, bp, bs
    <3>2. [bs EXCEPT !.leaves = @ \ {leaf}] = [leaves |-> lv \ {leaf}, bump |-> bp]
      BY <3>1
    <3> QED BY <3>2 DEF remove_leaf, lv, bp
  <2> HIDE DEF m, r, gone, bs
  <2>4. IsState(gone) /\ gone.ok = s.ok /\ gone.mkt = s.mkt /\ gone.oo = s.oo /\ gone.heap = s.heap
        /\ gone.book = [s.book EXCEPT ![side] = remove_leaf(bs, leaf)]
    BY <1>1 DEF LeafGone, bs
  <2>5. gone.book[side] = [leaves |-> bs.leaves \ {leaf}, bump |-> bs.bump]
    BY <2>3, <2>4, <1>3
  <2>6. r = BookSet(gone, side, rb)
    <3> DEFINE gb == gone.book[side]
               g == gone.book
    <3>1. [gb EXCEPT !.leaves = @ \cup {m}] = rb
      <4>1. gb = [leaves |-> bs.leaves \ {leaf}, bump |-> bs.bump]
        BY <2>5
      <4> HIDE DEF gb
      <4> QED BY ONLY <4>1
    <3>2. [gone EXCEPT !.book[side].leaves = @ \cup {m}] = [gone EXCEPT !.book[side] = [gb EXCEPT !.leaves = @ \cup {m}]]
      <4>1. gone = [ok |-> gone.ok, mkt |-> gone.mkt, oo |-> gone.oo, book |-> g, heap |-> gone.heap]
        BY <2>4 DEF IsState
      <4> HIDE DEF gb
      <4> QED BY <4>1 DEF gb
    <3> QED BY <2>1, <3>1, <3>2 DEF BookSet
  <2> HIDE DEF rb
  <2>8. [gone.book EXCEPT ![side] = rb] = [s.book EXCEPT ![side] = rb]
    BY <2>4, <1>3
  <2>9. IsState(r) /\ r.ok = gone.ok /\ r.mkt = gone.mkt /\ r.oo = gone.oo
        /\ r.book = Put(gone.book, side, rb) /\ r.heap = gone.heap
    BY <2>4, <2>6, BookSetIs
  <2> QED BY <2>2, <2>4, <2>8, <2>9 DEF LeafFilled, bs, r, Put
<1> QED BY <1>4, <1>5

\* Appending to the heap is adding an event at a new index.
LEMMA HeapFacts ==
  ASSUME NEW h, HeapOk(h)
  PROVE  /\ 0 \notin DOMAIN h
         /\ Len(h) + 1 \notin DOMAIN h
         /\ \A e \in EventValues :
              /\ Append(h, e) = Plus(h, Len(h) + 1, e)
              /\ Len(h) < MAX_NUM_EVENTS => HeapOk(Append(h, e))
<1>1. h \in Seq(EventValues) /\ Len(h) <= MAX_NUM_EVENTS /\ Len(h) \in Nat /\ DOMAIN h = 1 .. Len(h)
  BY DEF HeapOk
<1> DEFINE n == Len(h) + 1
<1>2. 0 \notin DOMAIN h /\ n \notin DOMAIN h /\ DOMAIN h \cup {n} = 1 .. n
  BY <1>1
<1>3. ASSUME NEW e \in EventValues
      PROVE  /\ Append(h, e) = Plus(h, n, e)
             /\ Len(h) < MAX_NUM_EVENTS => HeapOk(Append(h, e))
  <2>1. Append(h, e) \in Seq(EventValues) /\ Len(Append(h, e)) = n
        /\ Append(h, e) = [i \in 1 .. n |-> IF i = n THEN e ELSE h[i]]
    <3> DEFINE k == Append(h, e)
    <3>1. k \in Seq(EventValues) /\ Len(k) = n /\ k[n] = e /\ \A i \in 1 .. Len(h) : k[i] = h[i]
      BY <1>1
    <3> HIDE DEF k
    <3>2. k = [i \in 1 .. n |-> k[i]]
      BY <3>1
    <3>3. \A i \in 1 .. n : k[i] = IF i = n THEN e ELSE h[i]
      BY <1>1, <3>1
    <3> QED BY <3>1, <3>2, <3>3 DEF k
  <2>2. Append(h, e) = Plus(h, n, e)
    BY <1>2, <2>1 DEF Plus
  <2>3. Len(h) < MAX_NUM_EVENTS => n <= MAX_NUM_EVENTS
    BY <1>1, OrderbookAssumption
  <2> QED BY <2>1, <2>2, <2>3 DEF HeapOk
<1> QED BY <1>2, <1>3

\* An event added and removed again leaves the state as sane as it was.
LEMMA PlusMinusSame ==
  ASSUME NEW s, NEW E, NEW base, NEW quote, NEW lock, NEW w, NEW n, n \notin DOMAIN E, NEW e,
         IsFiniteSet(DOMAIN E), Sane(s, Minus(Plus(E, n, e), n), base, quote, lock, w)
  PROVE  Sane(s, E, base, quote, lock, w)
<1> DEFINE F == Minus(Plus(E, n, e), n)
<1>1. DOMAIN F = DOMAIN E /\ \A i \in DOMAIN E : F[i] = E[i]
  BY DEF Plus, Minus
<1> DEFINE f == [i \in DOMAIN E |-> i]
<1>2. Renames(f, E, F)
  <2> HIDE DEF F
  <2> QED BY <1>1 DEF Renames
<1> HIDE DEF f, F
<1>3. Sane(s, F, base, quote, lock, w)
  BY DEF F
<1> QED BY <1>2, <1>3, EventsRenamed

\* What an out event for a leaf says.
OutEventOk(s, side, leaf, e) ==
  /\ e \in EventValues /\ e.kind = "Out" /\ IsLast(e)
  /\ AccountOf(e) = leaf.owner /\ SlotOf(e) = leaf.owner_slot /\ e.quantity = leaf.quantity
  /\ PlaceOfEvent(e) = PlaceOfLeaf(leaf) /\ SideOf(e) = side
  /\ \A kind \in Kinds :
       /\ EventLocks(kind, OrdersOf(s.oo), leaf.owner, e)
            = OrderLocks(kind, s.oo[leaf.owner].open_orders[leaf.owner_slot], leaf.quantity)
       /\ Covers(kind, LeafLocks(kind, OrdersOf(s.oo), leaf.owner, leaf),
                 EventLocks(kind, OrdersOf(s.oo), leaf.owner, e))
  /\ \A unit : Due(unit, e) = 0

\* The out event of a leaf names the leaf's slot and side and locks what the leaf locked.
LEMMA OutEventFacts ==
  ASSUME NEW s, NEW E, NEW base, NEW quote, NEW lock, NEW w, Sane(s, E, base, quote, lock, w),
         NEW side \in Sides, NEW leaf \in s.book[side].leaves
  PROVE  OutEventOk(s, side, leaf, OutEvent(side, leaf))
<1> DEFINE e == OutEvent(side, leaf)
           o == OrdersOf(s.oo)
           a == leaf.owner
           slot == leaf.owner_slot
           order == s.oo[a].open_orders[slot]
<1>1. /\ s.oo \in [Accounts -> AccountValues] /\ o \in [Places -> OrderValues]
      /\ BookOk(s.book, o, w.ids) /\ AllLeaves(s.book) \in SUBSET LeafValues
      /\ \A l \in s.book[side].leaves : o[PlaceOfLeaf(l)].side = side
      /\ leaf \in AllLeaves(s.book)
  <2>1. /\ s.oo \in [Accounts -> AccountValues] /\ o \in [Places -> OrderValues]
        /\ BookOk(s.book, o, w.ids)
    BY ONLY Sane(s, E, base, quote, lock, w), SaneParts
  <2>2. \A l \in s.book[side].leaves : o[PlaceOfLeaf(l)].side = side
    BY <2>1 DEF BookOk
  <2> QED BY <2>1, <2>2, AllLeavesFacts
<1>2. /\ leaf \in LeafValues /\ a \in Accounts /\ slot \in OrderSlots /\ leaf.quantity \in Nat \ {0}
  BY <1>1 DEF LeafValues
<1>3. /\ e.kind = "Out" /\ e.side = side /\ e.owner = a /\ e.owner_slot = slot /\ e.quantity = leaf.quantity
      /\ e \in OutEvents
  BY <1>2 DEF OutEvent, OutEvents
<1> HIDE DEF e
<1>4. e \in EventValues /\ IsLast(e) /\ AccountOf(e) = a /\ SlotOf(e) = slot /\ SideOf(e) = side
  BY <1>3 DEF EventValues, EventOk, IsLast, AccountOf, SlotOf, SideOf
<1>5. PlaceOfEvent(e) = <<a, slot>> /\ PlaceOfLeaf(leaf) = <<a, slot>>
  BY <1>4 DEF PlaceOfEvent, PlaceOfLeaf
<1>6. o[<<a, slot>>] = order
  BY <1>1, <1>2, OrdersOfType
<1>7. \A unit : Due(unit, e) = 0
  BY <1>3 DEF Due
<1> HIDE DEF o, order
<1>8. ASSUME NEW kind \in Kinds
      PROVE  /\ EventLocks(kind, o, a, e) = OrderLocks(kind, order, leaf.quantity)
             /\ Covers(kind, LeafLocks(kind, o, a, leaf), EventLocks(kind, o, a, e))
  <2>1. EventLocks(kind, o, a, e) = OrderLocks(kind, order, leaf.quantity)
    BY <1>3, <1>4, <1>5, <1>6 DEF EventLocks
  <2>2. LeafLocks(kind, o, a, leaf) = OrderLocks(kind, order, leaf.quantity)
    BY <1>5, <1>6 DEF LeafLocks
  <2>3. LeafLocks(kind, o, a, leaf) \in Nat
    BY <1>1, <1>2, LeafLocksNat
  <2> QED BY <2>1, <2>2, <2>3 DEF Covers
<1> QED BY <1>3, <1>4, <1>5, <1>7, <1>8 DEF OutEventOk, e, o, order, a, slot

\* A smaller book with the same open accounts stays within the frame.
LEMMA FrameLess ==
  ASSUME NEW s, NEW w, Frame(s, w), NEW r,
         r.mkt.time_expiry = s.mkt.time_expiry, r.mkt.closed = s.mkt.closed,
         \A a \in Accounts : r.oo[a].open = s.oo[a].open,
         \A side \in Sides : r.book[side].leaves \subseteq s.book[side].leaves
  PROVE  Frame(r, w)
<1>1. OnlyShrunk(s.book)
  BY DEF Frame
<1>2. OnlyShrunk(r.book)
  BY <1>1 DEF OnlyShrunk
<1> QED BY <1>2 DEF Frame

\* Replacing an account by one as open as it was closes no account.
LEMMA OpenKept ==
  ASSUME NEW accs \in [Accounts -> AccountValues], NEW a \in Accounts, NEW acc,
         acc.open = accs[a].open
  PROVE  \A x \in Accounts : [accs EXCEPT ![a] = acc][x].open = accs[x].open
OBVIOUS

\* Removing a leaf adds none.
LEMMA BookLessLeaves ==
  ASSUME NEW b, NEW o, NEW ids, BookOk(b, o, ids), NEW side \in Sides, NEW l
  PROVE  \A d \in Sides : [b EXCEPT ![side] = remove_leaf(b[side], l)][d].leaves \subseteq b[d].leaves
<1>1. ASSUME NEW d \in Sides
      PROVE  [b EXCEPT ![side] = remove_leaf(b[side], l)][d].leaves \subseteq b[d].leaves
  <2>1. b = [x \in Sides |-> b[x]]
    BY DEF BookOk
  <2>2. CASE d = side
    <3> DEFINE bs == b[side]
               lv == bs.leaves
               bp == bs.bump
    <3>1. bs = [leaves |-> lv, bump |-> bp]
      BY DEF BookOk, SideOk
    <3>2. [b EXCEPT ![side] = remove_leaf(b[side], l)][d] = remove_leaf(bs, l)
      BY <2>1, <2>2
    <3> HIDE DEF bs, lv, bp
    <3>3. remove_leaf(bs, l) = [leaves |-> lv \ {l}, bump |-> bp]
      BY <3>1 DEF remove_leaf
    <3> QED BY <3>2, <3>3, <2>2 DEF lv, bs
  <2>3. CASE d # side
    BY <2>1, <2>3
  <2> QED BY <2>2, <2>3
<1> QED BY <1>1

\* A leaf is off the book, and its owner's account may have changed.
LeafLeft(s, side, leaf, r) ==
  /\ IsState(r) /\ r.ok \in BOOLEAN /\ (r.ok => s.ok)
  /\ r.mkt = s.mkt
  /\ r.book = [s.book EXCEPT ![side] = remove_leaf(s.book[side], leaf)]
  /\ \A x \in Accounts : r.oo[x].open = s.oo[x].open

\* The owner of a cancelled order gets back at once what it had locked.
LEMMA LeafCancelled ==
  ASSUME NEW s, NEW E, NEW base, NEW quote, NEW lock, NEW w,
         IsState(s), Sane(s, E, base, quote, lock, w),
         NEW side \in Sides, NEW leaf \in s.book[side].leaves, NEW n, n \notin DOMAIN E,
         NEW r, r = RemoveLeaf(CancelSlotOf(s, leaf.owner, leaf.owner_slot, leaf.quantity), side, leaf)
  PROVE  /\ LeafLeft(s, side, leaf, r) /\ r.heap = s.heap
         /\ r.ok => Sane(r, E, base, quote, lock, w)
<1> DEFINE e == OutEvent(side, leaf)
           a == leaf.owner
           slot == leaf.owner_slot
           old == s.oo[a]
           acc == cancel_slot(s.oo[a], slot, leaf.quantity)
           c == CancelSlotOf(s, a, slot, leaf.quantity)
           t == RemoveLeaf(s, side, leaf)
           F == Plus(E, n, e)
<1>1. /\ base \in Int /\ quote \in Int /\ s.mkt \in MarketValues /\ TotalsOk(s.mkt, w)
      /\ s.oo \in [Accounts -> AccountValues] /\ HeapOk(s.heap) /\ EventsOk(E)
      /\ AllLeaves(s.book) \in SUBSET LeafValues /\ BookOk(s.book, OrdersOf(s.oo), w.ids)
  BY ONLY Sane(s, E, base, quote, lock, w), SaneParts
<1>2. leaf \in LeafValues /\ a \in Accounts /\ slot \in OrderSlots /\ leaf.quantity \in Nat
      /\ old \in AccountValues
  <2>1. leaf \in LeafValues
    BY <1>1, AllLeavesFacts
  <2> QED BY <1>1, <2>1 DEF LeafValues
<1>3. OutEventOk(s, side, leaf, e)
  <2> HIDE DEF e
  <2> QED BY OutEventFacts DEF e
<1>4. /\ IsState(c) /\ c.ok \in BOOLEAN /\ c.ok = (s.ok /\ ~is_free_slot(old, slot) /\ Sound(acc))
      /\ c.oo = [s.oo EXCEPT ![a] = acc] /\ c.mkt = s.mkt /\ c.book = s.book /\ c.heap = s.heap
  BY CancelSlotOfFields
<1>5. LeafGone(s, side, leaf, t)
  BY RemoveLeafFields
<1>6. /\ acc \in AccountValues
      /\ acc.open = old.open
      /\ acc.open_orders = [old.open_orders EXCEPT ![slot] = FreeSlot]
      /\ \A kind \in Kinds : Held(kind, acc) = Held(kind, old) - OrderLocks(kind, old.open_orders[slot], leaf.quantity)
      /\ \A unit \in Units : OwedTo(unit, acc) = OwedTo(unit, old)
  <2> DEFINE q == leaf.quantity
             acc2 == cancel_slot(old, slot, q)
  <2>1. old \in AccountValues /\ slot \in OrderSlots /\ q \in Nat
    BY <1>2
  <2> HIDE DEF q, old, slot, a
  <2>2. /\ acc2 \in AccountValues
        /\ acc2.open = old.open
        /\ acc2.open_orders = [old.open_orders EXCEPT ![slot] = FreeSlot]
        /\ \A kind \in Kinds : Held(kind, acc2) = Held(kind, old) - OrderLocks(kind, old.open_orders[slot], q)
        /\ \A unit \in Units : OwedTo(unit, acc2) = OwedTo(unit, old)
    BY ONLY <2>1, CancelSlotFacts
  <2> QED BY <2>2 DEF q, old, a, slot
<1> HIDE DEF c, t, e, acc
<1>7. LeafGone(c, side, leaf, r)
  BY <1>4, RemoveLeafFields DEF c
<1>8. /\ IsState(r) /\ r.ok = c.ok /\ r.mkt = s.mkt /\ r.oo = [s.oo EXCEPT ![a] = acc] /\ r.heap = s.heap
      /\ r.book = [s.book EXCEPT ![side] = remove_leaf(s.book[side], leaf)]
  BY <1>4, <1>7 DEF LeafGone
<1>9. /\ t.mkt = s.mkt /\ t.oo = s.oo /\ t.heap = s.heap /\ t.book = r.book
      /\ t.book = [s.book EXCEPT ![side] = remove_leaf(@, leaf)]
  BY <1>5, <1>8 DEF LeafGone
<1>10. \A x \in Accounts : r.oo[x].open = s.oo[x].open
  <2>1. acc.open = s.oo[a].open
    BY <1>6
  <2>2. \A x \in Accounts : [s.oo EXCEPT ![a] = acc][x].open = s.oo[x].open
    BY <1>1, <1>2, <2>1, OpenKept
  <2> QED BY <1>8, <2>2
<1>11. LeafLeft(s, side, leaf, r)
  BY <1>4, <1>8, <1>10 DEF LeafLeft
<1>12. ASSUME r.ok PROVE Sane(r, E, base, quote, lock, w)
  <2>1. /\ e \in EventValues /\ IsLast(e) /\ PlaceOfEvent(e) = PlaceOfLeaf(leaf) /\ SideOf(e) = side
        /\ AccountOf(e) = a /\ SlotOf(e) = slot
        /\ \A kind \in Kinds : Covers(kind, LeafLocks(kind, OrdersOf(s.oo), leaf.owner, leaf),
                                      EventLocks(kind, OrdersOf(s.oo), leaf.owner, e))
        /\ \A kind \in Kinds : EventLocks(kind, OrdersOf(s.oo), a, e)
                                 = OrderLocks(kind, old.open_orders[slot], leaf.quantity)
        /\ \A unit : Due(unit, e) = 0
    BY <1>3 DEF OutEventOk
  <2>2. HeapOk(t.heap) /\ n \notin DOMAIN E /\ Sane(s, E, base, quote, lock, w)
    BY <1>1, <1>9
  <2>3. Sane(t, F, base + Due("base", e), quote + Due("quote", e), lock, w)
    BY ONLY <1>9, <2>1, <2>2, LeafOut, side \in Sides, leaf \in s.book[side].leaves
  <2>4. Sane(t, F, base, quote, lock, w)
    BY <1>1, <2>1, <2>3
  <2>5. n \in DOMAIN F /\ e = F[n]
    BY DEF Plus
  <2>6. Sound(acc)
    BY <1>4, <1>8, <1>12
  <2>7. \A kind \in Kinds : Held(kind, acc) = Held(kind, t.oo[a]) - EventLocks(kind, OrdersOf(t.oo), a, e)
    BY <1>6, <1>9, <2>1
  <2>8. \A unit \in Units : OwedTo(unit, acc) = OwedTo(unit, t.oo[a]) + Due(unit, e)
                                                 + (IF unit = "rebates" THEN 0 ELSE 0)
    <3>1. \A unit \in Units : OwedTo(unit, old) \in Int
      BY <1>2, OwedToInt
    <3> QED BY <1>6, <1>9, <2>1, <3>1
  <2>9. /\ acc.open = t.oo[a].open
        /\ acc.open_orders = IF IsLast(e) THEN [t.oo[a].open_orders EXCEPT ![SlotOf(e)] = FreeSlot]
                             ELSE t.oo[a].open_orders
    BY <1>6, <1>9, <2>1
  <2>10. /\ r.oo = [t.oo EXCEPT ![a] = acc] /\ r.book = t.book /\ HeapOk(r.heap)
         /\ TotalsOk(r.mkt, w) /\ r.mkt.fees_available = t.mkt.fees_available
         /\ r.mkt.referrer_rebates_accrued = t.mkt.referrer_rebates_accrued + 0
    <3>1. s.mkt.referrer_rebates_accrued \in Int
      BY <1>1 DEF MarketValues
    <3> QED BY <1>1, <1>8, <1>9, <3>1
  <2>11. a = AccountOf(e)
    BY <2>1
  <2> HIDE DEF a, F
  <2>12. Sane(r, Minus(F, n), base, quote, lock, w)
    BY ONLY <1>6, <2>4, <2>5, <2>6, <2>7, <2>8, <2>9, <2>10, <2>11, EventDone
  <2>13. IsFiniteSet(DOMAIN E)
    BY <1>1 DEF EventsOk
  <2> QED BY ONLY <2>12, <2>13, n \notin DOMAIN E, PlusMinusSame DEF F
<1> QED BY <1>8, <1>11, <1>12

\* The frame is kept.
LEMMA LeftFrame ==
  ASSUME NEW s, NEW w, Frame(s, w), NEW side \in Sides, NEW leaf,
         NEW o, NEW ids, BookOk(s.book, o, ids), NEW r, LeafLeft(s, side, leaf, r)
  PROVE  Frame(r, w)
<1>1. \A d \in Sides : [s.book EXCEPT ![side] = remove_leaf(s.book[side], leaf)][d].leaves
                       \subseteq s.book[d].leaves
  BY BookLessLeaves
<1>2. \A d \in Sides : r.book[d].leaves \subseteq s.book[d].leaves
  BY <1>1 DEF LeafLeft
<1>3. r.mkt = s.mkt /\ \A x \in Accounts : r.oo[x].open = s.oo[x].open
  BY DEF LeafLeft
<1> QED BY <1>2, <1>3, FrameLess

\* The owner of an order that is dropped or evicted is told: at once if the
\* account is at hand, else by an event.
LEMMA OwnerTold ==
  ASSUME NEW s, NEW base, NEW quote, NEW lock, NEW w,
         IsState(s), s.ok \in BOOLEAN, Sane(s, s.heap, base, quote, lock, w),
         NEW side \in Sides, NEW leaf \in s.book[side].leaves, NEW me, NEW rem,
         NEW r, r = RemoveLeaf(process_out_event(s, OutEvent(side, leaf), me, rem), side, leaf)
  PROVE  /\ LeafLeft(s, side, leaf, r)
         /\ r.ok => Sane(r, r.heap, base, quote, lock, w)
<1> DEFINE e == OutEvent(side, leaf)
<1>1. HeapOk(s.heap) /\ s.mkt \in MarketValues /\ base \in Int /\ quote \in Int
  BY SaneParts
<1>2. CASE leaf.owner = me \/ leaf.owner \in rem
  <2>1. r = RemoveLeaf(CancelSlotOf(s, leaf.owner, leaf.owner_slot, leaf.quantity), side, leaf)
    BY <1>2 DEF process_out_event, OutEvent
  <2>2. 0 \notin DOMAIN s.heap
    BY <1>1, HeapFacts
  <2>3. LeafLeft(s, side, leaf, r) /\ r.heap = s.heap
        /\ (r.ok => Sane(r, s.heap, base, quote, lock, w))
    BY <2>1, <2>2, LeafCancelled
  <2> QED BY <2>3
<1>3. CASE ~(leaf.owner = me \/ leaf.owner \in rem)
  <2> DEFINE p == push_back(s, e)
             h == s.heap
             n == Len(h) + 1
  <2>1. r = RemoveLeaf(p, side, leaf)
    BY <1>3 DEF process_out_event, OutEvent
  <2>2. /\ IsState(p) /\ p.ok \in BOOLEAN /\ p.ok = (s.ok /\ Len(s.heap) < MAX_NUM_EVENTS)
        /\ p.heap = Append(s.heap, e) /\ p.mkt = s.mkt /\ p.book = s.book /\ p.oo = s.oo
    BY PushBackFields
  <2> HIDE DEF p
  <2>3. LeafGone(p, side, leaf, r)
    BY <2>1, <2>2, RemoveLeafFields
  <2>4. /\ IsState(r) /\ r.ok = p.ok /\ r.book = [s.book EXCEPT ![side] = remove_leaf(s.book[side], leaf)]
        /\ r.mkt = s.mkt /\ r.heap = Append(h, e) /\ r.oo = s.oo
    BY <2>2, <2>3 DEF LeafGone
  <2>5. LeafLeft(s, side, leaf, r)
    BY <2>2, <2>4 DEF LeafLeft
  <2>6. ASSUME r.ok PROVE Sane(r, r.heap, base, quote, lock, w)
    <3>1. OutEventOk(s, side, leaf, e)
      BY OutEventFacts
    <3> HIDE DEF e
    <3>2. /\ e \in EventValues /\ IsLast(e) /\ PlaceOfEvent(e) = PlaceOfLeaf(leaf) /\ SideOf(e) = side
          /\ \A kind \in Kinds : Covers(kind, LeafLocks(kind, OrdersOf(s.oo), leaf.owner, leaf),
                                        EventLocks(kind, OrdersOf(s.oo), leaf.owner, e))
          /\ \A unit : Due(unit, e) = 0
      BY <3>1 DEF OutEventOk
    <3>3. Len(h) < MAX_NUM_EVENTS
      BY <2>2, <2>4, <2>6
    <3>4. n \notin DOMAIN h /\ r.heap = Plus(h, n, e) /\ HeapOk(r.heap)
      BY <1>1, <2>4, <3>2, <3>3, HeapFacts
    <3>5. r.book = [s.book EXCEPT ![side] = remove_leaf(@, leaf)]
      BY <2>4
    <3>6. Sane(s, h, base, quote, lock, w)
      OBVIOUS
    <3> HIDE DEF n, h
    <3>7. Sane(r, Plus(h, n, e), base + Due("base", e), quote + Due("quote", e), lock, w)
      BY <2>4, <3>2, <3>4, <3>5, <3>6, LeafOut
    <3> QED BY <1>1, <3>2, <3>4, <3>7
  <2> QED BY <2>5, <2>6
<1> QED BY <1>2, <1>3

\* What an item says of its leaf when the leaf can be matched.
ItemFits(side, item) ==
  /\ item.price \in Nat \ {0}
  /\ item.leaf.tree = "Fixed" => item.price = item.leaf.price
  /\ item.leaf.tree # "Fixed" /\ side = "Bid" => item.price <= item.leaf.peg_limit

\* A valid item's price is positive and within its order's limits.
LEMMA ValidItem ==
  ASSUME NEW side \in Sides, NEW leaf \in LeafValues, LeafOk(leaf), NEW px \in Int, NEW time,
         Priced(side, leaf, px), NEW item, item = Item(side, leaf, px, time), item.state = "Valid"
  PROVE  item.leaf = leaf /\ ItemFits(side, item) /\ item.price <= MaxPrice
<1> DEFINE at == IF leaf.tree = "Fixed" THEN [state |-> "Valid", price |-> leaf.price]
                 ELSE oracle_pegged_price(side, leaf, px)
<1>1. item.leaf = leaf /\ item.price = at.price /\ at.state = "Valid"
  <2> DEFINE st == IF is_expired(leaf, time) THEN "Invalid" ELSE at.state
  <2>1. item = [leaf |-> leaf, price |-> at.price, state |-> st]
    BY DEF Item
  <2> HIDE DEF at
  <2>2. item.leaf = leaf /\ item.price = at.price /\ item.state = st
    <3> HIDE DEF st
    <3> QED BY <2>1
  <2> QED BY <2>2
<1>2. leaf.tree \in Trees /\ leaf.price \in Int /\ leaf.peg_limit \in Int
  BY DEF LeafValues
<1>3. CASE leaf.tree = "Fixed"
  <2>1. item.price = leaf.price /\ leaf.price >= 1 /\ leaf.price <= MaxPrice
    BY <1>1, <1>3 DEF LeafOk
  <2> QED BY <1>1, <1>2, <1>3, <2>1 DEF ItemFits
<1>4. CASE leaf.tree # "Fixed"
  <2> DEFINE price == px + leaf.price
  <2>1. at = oracle_pegged_price(side, leaf, px)
    BY <1>4
  <2>2. price \in Int
    BY <1>2
  <2>3. leaf.peg_limit >= 1 /\ leaf.peg_limit # NoPegLimit
    BY <1>2, <1>4 DEF LeafOk, NoPegLimit
  <2> HIDE DEF at, price
  <2>4. /\ price \in 1 .. MaxPrice - 1 /\ at.price = price
        /\ ~is_price_better(side, price, leaf.peg_limit)
    BY <1>1, <2>1, <2>3 DEF oracle_pegged_price, price
  <2>5. price >= 1 /\ price <= MaxPrice /\ (side = "Bid" => price <= leaf.peg_limit)
    BY <1>2, <2>2, <2>4, BookSideAssumption DEF is_price_better
  <2> QED BY <1>1, <1>4, <2>2, <2>4, <2>5 DEF ItemFits
<1> QED BY <1>3, <1>4

\* The fill event process_fill_event queues.
FillEvent(side, item, quantity, me) ==
  [kind |-> "Fill", taker_side |-> side,
   maker_out |-> quantity = item.leaf.quantity,
   maker_slot |-> item.leaf.owner_slot, maker |-> item.leaf.owner, taker |-> me,
   price |-> item.price, peg_limit |-> item.leaf.peg_limit,
   quantity |-> quantity]

\* What the event of a fill says.
FillEventOk(side, item, quantity, me, e) ==
  LET leaf == item.leaf
      quote == quantity * item.price * quote_lot_size
      rebate == IF leaf.owner = me THEN 0 ELSE maker_rebate_floor(quote)
  IN  /\ e \in FillEvents /\ e \in EventValues /\ EventOk(e) /\ e.kind = "Fill"
      /\ IsLast(e) <=> quantity = leaf.quantity
      /\ AccountOf(e) = leaf.owner /\ PlaceOfEvent(e) = PlaceOfLeaf(leaf)
      /\ SideOf(e) = side
      /\ quote \in Nat /\ rebate \in Nat
      /\ Due("base", e) = IF side = "Bid" THEN quantity * base_lot_size
                          ELSE -(quantity * base_lot_size)
      /\ Due("quote", e) = rebate + IF side = "Ask" THEN quote ELSE -quote

\* That event fits the leaf it matched: slot, side, and a price its owner reserved for.
LEMMA FillEventFacts ==
  ASSUME NEW side \in Sides, NEW item, item.leaf \in LeafValues, LeafOk(item.leaf),
         ItemFits(side, item), NEW q \in Nat \ {0}, NEW me \in Traders
  PROVE  FillEventOk(side, item, q, me, FillEvent(invert_side(side), item, q, me))
<1> DEFINE e == FillEvent(invert_side(side), item, q, me)
           leaf == item.leaf
           quote == q * item.price * quote_lot_size
           t == FillTerms(e)
           rebate == IF leaf.owner = me THEN 0 ELSE maker_rebate_floor(quote)
<1>1. /\ leaf.owner \in Accounts /\ leaf.owner_slot \in OrderSlots /\ leaf.quantity \in Nat \ {0}
      /\ leaf.peg_limit \in Int /\ leaf.price \in Int /\ leaf.tree \in Trees
  BY DEF LeafValues
<1>2. item.price \in Nat \ {0}
  BY DEF ItemFits
<1>3. invert_side(side) \in Sides /\ (invert_side(side) = "Ask" <=> side = "Bid")
      /\ invert_side(invert_side(side)) = side
  BY DEF invert_side, Sides
<1>4. /\ e.kind = "Fill" /\ e.taker_side = invert_side(side)
      /\ e.maker_out = (q = leaf.quantity) /\ e.maker_slot = leaf.owner_slot /\ e.maker = leaf.owner
      /\ e.taker = me /\ e.price = item.price /\ e.peg_limit = leaf.peg_limit /\ e.quantity = q
      /\ e \in FillEvents
  BY <1>1, <1>2, <1>3 DEF FillEvent, FillEvents
<1> HIDE DEF e
<1>5. EventOk(e)
  <2>1. leaf.peg_limit = NoPegLimit \/ leaf.peg_limit >= 1
    BY DEF LeafOk
  <2>2. side = "Bid" /\ leaf.peg_limit # NoPegLimit => item.price <= leaf.peg_limit
    BY DEF LeafOk, ItemFits
  <2> QED BY <1>3, <1>4, <2>1, <2>2 DEF EventOk
<1>6. /\ t.side = invert_side(e.taker_side)
      /\ t.quote = e.quantity * e.price * quote_lot_size /\ t.quote \in Nat
      /\ t.rebate = IF e.maker = e.taker THEN 0 ELSE maker_rebate_floor(t.quote)
      /\ t.rebate \in Nat
  BY <1>4, <1>5, FillTermsFacts
<1> HIDE DEF t
<1>7. t.side = side /\ t.quote = quote /\ t.rebate = rebate /\ quote \in Nat /\ rebate \in Nat
  BY <1>3, <1>4, <1>6
<1>8. e \in EventValues
  BY <1>4, <1>5 DEF EventValues
<1>9. /\ IsLast(e) <=> q = leaf.quantity
      /\ AccountOf(e) = leaf.owner /\ PlaceOfEvent(e) = PlaceOfLeaf(leaf) /\ SideOf(e) = side
  BY <1>4, <1>7 DEF IsLast, AccountOf, PlaceOfEvent, PlaceOfLeaf, SlotOf, SideOf, t
<1>10. /\ Due("base", e) = IF side = "Bid" THEN q * base_lot_size ELSE -(q * base_lot_size)
       /\ Due("quote", e) = rebate + IF side = "Ask" THEN quote ELSE -quote
  <2>1. Due("base", e) = IF t.side = "Bid" THEN e.quantity * base_lot_size
                         ELSE -(e.quantity * base_lot_size)
    BY <1>4, Zenon DEF Due, FillDue, t
  <2>2. Due("quote", e) = t.rebate + IF t.side = "Ask" THEN t.quote ELSE -t.quote
    BY <1>4, Zenon DEF Due, FillDue, t
  <2> HIDE DEF quote, rebate
  <2> QED BY <1>4, <1>7, <2>1, <2>2
<1> HIDE DEF quote, rebate
<1>11. FillEventOk(side, item, q, me, e)
  BY <1>4, <1>5, <1>7, <1>8, <1>9, <1>10 DEF FillEventOk, quote, rebate
<1> QED BY <1>11 DEF e

\* Lots are locked in proportion.
LEMMA LocksSplit ==
  ASSUME NEW side \in Sides, NEW n \in Nat, NEW q \in Nat, q <= n, NEW p \in Nat,
         NEW kind \in Kinds, kind # "fees"
  PROVE  Locks(kind, side, n, p) = Locks(kind, side, n - q, p) + Locks(kind, side, q, p)
<1> DEFINE d == n - q
<1>1. d \in Nat /\ n = d + q
  OBVIOUS
<1> HIDE DEF d
<1>2. n * p = d * p + q * p /\ n * p \in Nat /\ d * p \in Nat /\ q * p \in Nat
  <2>1. \A a, b, c \in Nat : (a + b) * c = a * c + b * c /\ a * c \in Nat
    OBVIOUS
  <2> QED BY <1>1, <2>1
<1>3. Locks(kind, side, n, p) = Locks(kind, side, d, p) + Locks(kind, side, q, p)
  <2>1. kind \in {"asks_base", "bids_base", "bids_quote"}
    BY DEF Kinds
  <2>2. CASE kind = "asks_base"
    <3>1. /\ Locks("asks_base", side, n, p) = IF side = "Ask" THEN n ELSE 0
          /\ Locks("asks_base", side, d, p) = IF side = "Ask" THEN d ELSE 0
          /\ Locks("asks_base", side, q, p) = IF side = "Ask" THEN q ELSE 0
      BY DEF Locks
    <3> QED BY <1>1, <2>2, <3>1
  <2>3. CASE kind = "bids_base"
    <3>1. /\ Locks("bids_base", side, n, p) = IF side = "Bid" THEN n ELSE 0
          /\ Locks("bids_base", side, d, p) = IF side = "Bid" THEN d ELSE 0
          /\ Locks("bids_base", side, q, p) = IF side = "Bid" THEN q ELSE 0
      BY DEF Locks
    <3> QED BY <1>1, <2>3, <3>1
  <2>4. CASE kind = "bids_quote"
    <3>1. /\ Locks("bids_quote", side, n, p) = IF side = "Bid" THEN n * p ELSE 0
          /\ Locks("bids_quote", side, d, p) = IF side = "Bid" THEN d * p ELSE 0
          /\ Locks("bids_quote", side, q, p) = IF side = "Bid" THEN q * p ELSE 0
      BY DEF Locks
    <3> DEFINE x == n * p
               y == d * p
               z == q * p
    <3>2. x = y + z /\ x \in Nat /\ y \in Nat /\ z \in Nat
      BY <1>2
    <3>3. /\ Locks(kind, side, n, p) = IF side = "Bid" THEN x ELSE 0
          /\ Locks(kind, side, d, p) = IF side = "Bid" THEN y ELSE 0
          /\ Locks(kind, side, q, p) = IF side = "Bid" THEN z ELSE 0
      BY <2>4, <3>1
    <3> HIDE DEF x, y, z
    <3> QED BY <3>2, <3>3
  <2> QED BY <2>1, <2>2, <2>3, <2>4
<1> QED BY <1>3 DEF d

\* The fee locked for an order covers the fees of its parts.
LEMMA FeesSplit ==
  ASSUME NEW side \in Sides, NEW n \in Nat, NEW q \in Nat, q <= n, NEW p \in Nat,
         NEW fees \in Nat, side = "Bid" => fees <= maker_fees_floor(q * p * quote_lot_size)
  PROVE  Locks("fees", side, n, p) >= Locks("fees", side, n - q, p) + (IF side = "Bid" THEN fees ELSE 0)
<1> DEFINE d == n - q
           x == d * p * quote_lot_size
           y == q * p * quote_lot_size
           z == n * p * quote_lot_size
<1>1. d \in Nat /\ n = d + q
  OBVIOUS
<1> HIDE DEF d
<1>2. z = x + y /\ x \in Nat /\ y \in Nat /\ z \in Nat
  <2>1. \A a, b, c \in Nat : (a + b) * c = a * c + b * c /\ a * c \in Nat
    OBVIOUS
  <2>2. quote_lot_size \in Nat
    BY FeeAssumption
  <2> QED BY <1>1, <2>1, <2>2
<1>3. /\ Locks("fees", side, n, p) = IF side = "Bid" THEN maker_fees_ceil(z) ELSE 0
      /\ Locks("fees", side, d, p) = IF side = "Bid" THEN maker_fees_ceil(x) ELSE 0
  BY DEF Locks
<1> HIDE DEF x, y, z
<1>4. maker_fees_ceil(x) + maker_fees_floor(y) <= maker_fees_ceil(z)
      /\ maker_fees_ceil(x) \in Nat /\ maker_fees_floor(y) \in Nat /\ maker_fees_ceil(z) \in Nat
  BY <1>2, FeeParts, FeeFacts
<1>5. side = "Bid" => fees <= maker_fees_floor(y)
  BY DEF y
<1>6. Locks("fees", side, n, p) >= Locks("fees", side, d, p) + (IF side = "Bid" THEN fees ELSE 0)
  BY <1>3, <1>4, <1>5
<1> QED BY <1>6 DEF d

\* A leaf locks what is left of it and what its fill releases.
LEMMA FillCovers ==
  ASSUME NEW side \in Sides, NEW item, item.leaf \in LeafValues, LeafOk(item.leaf),
         ItemFits(side, item), NEW q \in Nat \ {0}, q <= item.leaf.quantity, NEW me \in Traders,
         NEW e, FillEventOk(side, item, q, me, e), e.quantity = q, e.price = item.price,
         e.peg_limit = item.leaf.peg_limit,
         NEW o \in [Places -> OrderValues], LeafFits(o[PlaceOfLeaf(item.leaf)], item.leaf),
         o[PlaceOfLeaf(item.leaf)].side = side,
         NEW kind \in Kinds, NEW p, p = o[PlaceOfLeaf(item.leaf)].locked_price
  PROVE  /\ p \in Nat
         /\ Covers(kind, Locks(kind, side, item.leaf.quantity, p),
                   Locks(kind, side, item.leaf.quantity - q, p)
                   + EventLocks(kind, o, item.leaf.owner, e))
<1> DEFINE leaf == item.leaf
           t == FillTerms(e)
           n == leaf.quantity
<1>1. n \in Nat /\ q <= n /\ leaf.tree \in Trees /\ leaf.peg_limit \in Int /\ item.price \in Nat \ {0}
  BY DEF LeafValues, ItemFits
<1>2. PlaceOfLeaf(leaf) \in Places /\ p \in Nat
  BY DEF LeafValues, PlaceOfLeaf, Places, OrderValues
<1>3. e \in FillEvents /\ EventOk(e) /\ e.kind = "Fill" /\ SideOf(e) = side /\ AccountOf(e) = leaf.owner
  BY DEF FillEventOk
<1>4. /\ t.side \in Sides /\ t.locked_price \in Nat
      /\ t.locked_price = IF e.peg_limit # NoPegLimit /\ t.side = "Bid" THEN e.peg_limit ELSE e.price
      /\ t.locked_fees \in Nat
      /\ t.side = "Bid" => t.locked_fees <= maker_fees_floor(e.quantity * t.locked_price * quote_lot_size)
  BY ONLY <1>3, FillTermsFacts
<1>5. t.side = side
  BY <1>3 DEF SideOf
<1>6. side = "Bid" => t.locked_price = p
  <2>1. side = "Bid" => p = IF leaf.tree = "Fixed" THEN leaf.price ELSE leaf.peg_limit
    BY DEF LeafFits
  <2>2. leaf.tree = "Fixed" => leaf.peg_limit = NoPegLimit /\ item.price = leaf.price
    BY DEF LeafOk, ItemFits
  <2>3. leaf.tree # "Fixed" => leaf.peg_limit # NoPegLimit
    BY <1>1 DEF LeafOk, NoPegLimit
  <2> QED BY <1>4, <1>5, <2>1, <2>2, <2>3
<1>7. EventLocks(kind, o, leaf.owner, e)
        = IF kind = "fees" THEN IF side = "Bid" THEN t.locked_fees ELSE 0
          ELSE Locks(kind, side, q, t.locked_price)
  BY <1>3, <1>5 DEF EventLocks, FillLocks
<1> HIDE DEF t, leaf, n
<1>8. CASE kind = "fees"
  <2>1. side = "Bid" => t.locked_fees <= maker_fees_floor(q * p * quote_lot_size)
    BY <1>4, <1>5, <1>6
  <2>2. Locks("fees", side, n, p) >= Locks("fees", side, n - q, p) + (IF side = "Bid" THEN t.locked_fees ELSE 0)
    BY <1>1, <1>2, <1>4, <2>1, FeesSplit
  <2> QED BY <1>2, <1>7, <1>8, <2>2 DEF Covers, leaf, n
<1>9. CASE kind # "fees"
  <2>1. Locks(kind, side, n, p) = Locks(kind, side, n - q, p) + Locks(kind, side, q, p)
    BY <1>1, <1>2, <1>9, LocksSplit
  <2>2. Locks(kind, side, q, t.locked_price) = Locks(kind, side, q, p)
    <3>1. CASE side = "Bid"
      BY <1>6, <3>1
    <3>2. CASE side # "Bid"
      BY <3>2, <1>9 DEF Locks, Kinds
    <3> QED BY <3>1, <3>2
  <2> QED BY <1>2, <1>7, <1>9, <2>1, <2>2 DEF Covers, leaf, n
<1> QED BY <1>8, <1>9

\* No lots lock nothing but, at most, a fee.
LEMMA NoLots ==
  ASSUME NEW side \in Sides, NEW p \in Nat, NEW kind \in Kinds
  PROVE  /\ kind # "fees" => Locks(kind, side, 0, p) = 0
         /\ Locks(kind, side, 0, p) \in Nat
<1>1. 0 * p = 0
  OBVIOUS
<1>2. kind # "fees" => Locks(kind, side, 0, p) = 0
  BY <1>1 DEF Locks, Kinds
<1>3. Locks(kind, side, 0, p) \in Nat
  <2>1. 0 \in Nat
    OBVIOUS
  <2> QED BY <2>1, LocksFacts
<1> QED BY <1>2, <1>3

\* A leaf is filled, in part or wholly, and an event says so.
LEMMA LeafFilledOk ==
  ASSUME NEW s, NEW E, NEW base, NEW quote, NEW lock, NEW w, Sane(s, E, base, quote, lock, w),
         NEW side \in Sides, NEW item, item.leaf \in s.book[side].leaves, ItemFits(side, item),
         NEW q \in Nat \ {0}, q <= item.leaf.quantity, NEW me \in Traders,
         NEW n, n \notin DOMAIN E, NEW r, LeafFilled(s, side, item.leaf, q, r),
         NEW e, e = FillEvent(invert_side(side), item, q, me)
  PROVE  /\ FillEventOk(side, item, q, me, e)
         /\ Sane(r, Plus(E, n, e), base + Due("base", e), quote + Due("quote", e), lock, w)
<1> DEFINE leaf == item.leaf
           o == OrdersOf(s.oo)
           p == o[PlaceOfLeaf(item.leaf)].locked_price
           new == Plus(E, n, e)
           base2 == base + Due("base", e)
           quote2 == quote + Due("quote", e)
<1>1. /\ o \in [Places -> OrderValues] /\ BookOk(s.book, o, w.ids) /\ HeapOk(s.heap)
      /\ LeavesClaim(o, AllLeaves(s.book))
  BY ONLY Sane(s, E, base, quote, lock, w), SaneParts
<1>2. leaf \in AllLeaves(s.book) /\ leaf \in LeafValues /\ LeafOk(leaf)
  BY <1>1, AllLeavesFacts
<1>3. LeafFits(o[PlaceOfLeaf(leaf)], leaf) /\ o[PlaceOfLeaf(leaf)].side = side
  BY <1>1, <1>2 DEF LeavesClaim, BookOk
<1>4. FillEventOk(side, item, q, me, e)
  BY <1>2, FillEventFacts
<1>5. e.quantity = q /\ e.price = item.price /\ e.peg_limit = item.leaf.peg_limit
  BY DEF FillEvent
<1>6. ASSUME NEW kind \in Kinds
      PROVE  /\ p \in Nat
             /\ Covers(kind, Locks(kind, side, leaf.quantity, p),
                       Locks(kind, side, leaf.quantity - q, p) + EventLocks(kind, o, leaf.owner, e))
  <2> HIDE DEF o
  <2> QED BY ONLY <1>1, <1>2, <1>3, <1>4, <1>5, kind \in Kinds, side \in Sides, ItemFits(side, item),
                  q \in Nat \ {0}, q <= item.leaf.quantity, me \in Traders, FillCovers
<1>7. leaf.quantity \in Nat \ {0}
  BY <1>2 DEF LeafValues
<1>8. \A kind \in Kinds : LeafLocks(kind, o, leaf.owner, leaf) = Locks(kind, side, leaf.quantity, p)
  BY <1>3 DEF LeafLocks, OrderLocks
<1>9. /\ IsState(r) /\ r.mkt = s.mkt /\ r.oo = s.oo /\ r.heap = s.heap
      /\ r.book = [s.book EXCEPT ![side] = ReducedSide(s.book[side], leaf, q)]
  BY DEF LeafFilled
<1>10. e \in EventValues /\ AccountOf(e) = leaf.owner /\ PlaceOfEvent(e) = PlaceOfLeaf(leaf) /\ SideOf(e) = side
       /\ (IsLast(e) <=> q = leaf.quantity)
  BY <1>4 DEF FillEventOk
<1> HIDE DEF o, p
<1>11. CASE q = leaf.quantity
  <2>1. \A kind \in Kinds : Covers(kind, LeafLocks(kind, OrdersOf(s.oo), leaf.owner, leaf),
                                   EventLocks(kind, OrdersOf(s.oo), leaf.owner, e))
    <3> SUFFICES ASSUME NEW kind \in Kinds
                 PROVE  Covers(kind, LeafLocks(kind, o, leaf.owner, leaf), EventLocks(kind, o, leaf.owner, e))
      BY DEF o
    <3>1. leaf.quantity - q = 0
      BY <1>7, <1>11
    <3> DEFINE x == Locks(kind, side, leaf.quantity, p)
               y == Locks(kind, side, 0, p)
               z == EventLocks(kind, o, leaf.owner, e)
    <3>2. Covers(kind, x, y + z)
      BY <1>6, <3>1
    <3>3. y \in Nat /\ (kind # "fees" => y = 0)
      BY <1>6, NoLots
    <3>4. x \in Nat /\ z \in Nat
      BY <1>1, <1>6, <1>7, <1>10, LocksFacts, EventLocksNat
    <3>5. LeafLocks(kind, o, leaf.owner, leaf) = x
      BY <1>8
    <3> HIDE DEF x, y, z
    <3>6. Covers(kind, x, z)
      BY <3>2, <3>3, <3>4 DEF Covers
    <3> QED BY <3>5, <3>6 DEF z
  <2>2. r.book = [s.book EXCEPT ![side] = remove_leaf(@, leaf)]
    BY <1>9, <1>11 DEF ReducedSide
  <2>3. IsLast(e) /\ HeapOk(r.heap)
    BY <1>1, <1>9, <1>10, <1>11
  <2>4. Sane(s, E, base, quote, lock, w) /\ side \in Sides /\ leaf \in s.book[side].leaves
        /\ n \notin DOMAIN E
    OBVIOUS
  <2> HIDE DEF leaf
  <2>5. Sane(r, Plus(E, n, e), base + Due("base", e), quote + Due("quote", e), lock, w)
    BY ONLY <1>9, <1>10, <2>1, <2>2, <2>3, <2>4, LeafOut
  <2> QED BY <1>4, <2>5
<1>12. CASE q # leaf.quantity
  <2> DEFINE k == leaf.quantity - q
             m == [leaf EXCEPT !.quantity = k]
             ns == [leaves |-> (s.book[side].leaves \ {leaf}) \cup {m}, bump |-> s.book[side].bump]
  <2>1. k \in Nat \ {0}
    BY <1>7, <1>12
  <2>2. m.owner = leaf.owner /\ m.quantity = k /\ PlaceOfLeaf(m) = PlaceOfLeaf(leaf)
    BY <1>2 DEF LeafValues, PlaceOfLeaf
  <2>3. \A kind \in Kinds : Covers(kind, LeafLocks(kind, OrdersOf(s.oo), leaf.owner, leaf),
                                   LeafLocks(kind, OrdersOf(s.oo), leaf.owner, m)
                                   + EventLocks(kind, OrdersOf(s.oo), leaf.owner, e))
    <3> SUFFICES ASSUME NEW kind \in Kinds
                 PROVE  Covers(kind, LeafLocks(kind, o, leaf.owner, leaf),
                               LeafLocks(kind, o, leaf.owner, m) + EventLocks(kind, o, leaf.owner, e))
      BY DEF o
    <3>1. LeafLocks(kind, o, leaf.owner, m) = Locks(kind, side, k, p)
      <4> HIDE DEF m, k
      <4> QED BY <1>3, <2>2 DEF LeafLocks, OrderLocks, p
    <3> QED BY <1>6, <1>8, <3>1
  <2>4. r.book = [s.book EXCEPT ![side] = ns]
    BY <1>9, <1>12 DEF ReducedSide
  <2>5. ~IsLast(e) /\ HeapOk(r.heap)
    BY <1>1, <1>9, <1>10, <1>12
  <2>6. Sane(s, E, base, quote, lock, w) /\ side \in Sides /\ leaf \in s.book[side].leaves
        /\ n \notin DOMAIN E
    OBVIOUS
  <2>7. m = [leaf EXCEPT !.quantity = k]
        /\ ns = [leaves |-> (s.book[side].leaves \ {leaf}) \cup {m}, bump |-> s.book[side].bump]
    OBVIOUS
  <2> HIDE DEF leaf, m, ns, k
  <2>8. Sane(r, Plus(E, n, e), base + Due("base", e), quote + Due("quote", e), lock, w)
    BY ONLY <1>9, <1>10, <2>1, <2>3, <2>4, <2>5, <2>6, <2>7, LeafReduced
  <2> QED BY <1>4, <2>8
<1> QED BY <1>11, <1>12

\* Orders that are filled are what is left of old ones.
LEMMA FrameFilled ==
  ASSUME NEW s, NEW w, Frame(s, w), NEW o, NEW ids, BookOk(s.book, o, ids),
         NEW side \in Sides, NEW leaf \in s.book[side].leaves,
         NEW q \in Nat \ {0}, q <= leaf.quantity,
         NEW r, r.mkt.time_expiry = s.mkt.time_expiry, r.mkt.closed = s.mkt.closed,
         \A a \in Accounts : r.oo[a].open = s.oo[a].open,
         r.book = [s.book EXCEPT ![side] = ReducedSide(s.book[side], leaf, q)]
  PROVE  Frame(r, w) /\ \A l \in s.book[side].leaves : l # leaf => l \in r.book[side].leaves
<1> DEFINE m == [leaf EXCEPT !.quantity = leaf.quantity - q]
<1>1. s.book = [d \in Sides |-> s.book[d]] /\ s.book[side].leaves \subseteq LeafValues
      /\ s.book[side] = [leaves |-> s.book[side].leaves, bump |-> s.book[side].bump]
  BY DEF BookOk, SideOk
<1>2. leaf \in LeafValues
  BY <1>1
<1>3. /\ r.book[side] = ReducedSide(s.book[side], leaf, q)
      /\ \A d \in Sides : d # side => r.book[d] = s.book[d]
  BY <1>1
<1>4. r.book[side].leaves \subseteq (s.book[side].leaves \ {leaf}) \cup {m}
      /\ s.book[side].leaves \ {leaf} \subseteq r.book[side].leaves
  <2> DEFINE lv == s.book[side].leaves
             bp == s.book[side].bump
             bs == s.book[side]
  <2>1. bs = [leaves |-> lv, bump |-> bp]
    BY <1>1
  <2> HIDE DEF m, lv, bp, bs
  <2>2. ReducedSide(bs, leaf, q) = [leaves |-> lv \ {leaf}, bump |-> bp]
        \/ ReducedSide(bs, leaf, q) = [leaves |-> (lv \ {leaf}) \cup {m}, bump |-> bp]
    BY <2>1 DEF ReducedSide, remove_leaf, m
  <2>3. ReducedSide(bs, leaf, q).leaves \subseteq (lv \ {leaf}) \cup {m}
        /\ lv \ {leaf} \subseteq ReducedSide(bs, leaf, q).leaves
    BY <2>2
  <2> QED BY <1>3, <2>3 DEF lv, bs
<1>5. OnlyShrunk(s.book) /\ mkt.seq_num = mkt.seq_num
  BY DEF Frame
<1>6. m.id = leaf.id /\ m.quantity <= leaf.quantity /\ m.quantity = leaf.quantity - q
  BY <1>2 DEF LeafValues
<1>7. \/ m.id > mkt.seq_num
      \/ \E old \in book[side].leaves :
           m.quantity <= old.quantity /\ m = [old EXCEPT !.quantity = m.quantity]
  <2>1. CASE leaf.id > mkt.seq_num
    BY <1>6, <2>1
  <2>2. CASE \E old \in book[side].leaves :
           leaf.quantity <= old.quantity /\ leaf = [old EXCEPT !.quantity = leaf.quantity]
    <3>1. PICK old \in book[side].leaves :
            leaf.quantity <= old.quantity /\ leaf = [old EXCEPT !.quantity = leaf.quantity]
      BY <2>2
    <3>2. old \in LeafValues
      BY DEF Frame
    <3>3. m = [old EXCEPT !.quantity = m.quantity]
      <4> DEFINE x == leaf.quantity
                 y == m.quantity
      <4>1. m = [leaf EXCEPT !.quantity = y]
        BY <1>6
      <4>2. leaf = [old EXCEPT !.quantity = x]
        BY <3>1
      <4> HIDE DEF x, y, m
      <4> QED BY <3>2, <4>1, <4>2 DEF y, LeafValues
    <3>4. m.quantity <= old.quantity
      <4>1. leaf.quantity \in Int /\ old.quantity \in Int /\ m.quantity \in Int
        BY <1>2, <1>6, <3>2 DEF LeafValues
      <4> HIDE DEF m
      <4> QED BY <1>6, <3>1, <4>1
    <3> QED BY <3>3, <3>4
  <2> QED BY <1>5, <2>1, <2>2 DEF OnlyShrunk
<1> HIDE DEF m
<1>8. OnlyShrunk(r.book)
  <2> SUFFICES ASSUME NEW d \in Sides, NEW l \in r.book[d].leaves
               PROVE  \/ l.id > mkt.seq_num
                      \/ \E old \in book[d].leaves :
                           l.quantity <= old.quantity /\ l = [old EXCEPT !.quantity = l.quantity]
    BY DEF OnlyShrunk
  <2>1. CASE l \in s.book[d].leaves
    BY <1>5, <2>1 DEF OnlyShrunk
  <2>2. CASE d = side /\ l = m
    BY <1>7, <2>2
  <2> QED BY <1>3, <1>4, <2>1, <2>2
<1> QED BY <1>4, <1>8 DEF Frame

\* Booking a maker's fee changes no other total.
LEMMA FeeBookedFacts ==
  ASSUME NEW m \in MarketValues, NEW fees \in Int, NEW w, TotalsOk(m, w)
  PROVE  LET k == FeeBooked(m, fees)
         IN  /\ TotalsOk(k, w)
             /\ k.time_expiry = m.time_expiry /\ k.closed = m.closed
             /\ k.fees_available = m.fees_available
             /\ k.base_deposit_total = m.base_deposit_total
             /\ k.quote_deposit_total = m.quote_deposit_total
             /\ k.referrer_rebates_accrued = m.referrer_rebates_accrued + fees
<1> DEFINE x == m.referrer_rebates_accrued + fees
           y == m.fees_accrued + fees
           k == [m EXCEPT !.referrer_rebates_accrued = x, !.fees_accrued = y]
<1>1. x \in Int /\ y \in Int
  BY DEF MarketValues
<1>2. FeeBooked(m, fees) = k
  BY DEF FeeBooked, MarketValues
<1> HIDE DEF x, y
<1>3. /\ k \in MarketValues /\ k.seq_num = m.seq_num
      /\ k.time_expiry = m.time_expiry /\ k.closed = m.closed
      /\ k.fees_available = m.fees_available
      /\ k.base_deposit_total = m.base_deposit_total
      /\ k.quote_deposit_total = m.quote_deposit_total
      /\ k.referrer_rebates_accrued = x
  BY <1>1 DEF MarketValues
<1> HIDE DEF k
<1>4. TotalsOk(k, w)
  BY <1>3 DEF TotalsOk
<1> QED BY <1>2, <1>3, <1>4 DEF x

\* An account was handed what an event says; the heap and the book are as before.
Settled(s, r) ==
  /\ IsState(r) /\ r.ok \in BOOLEAN /\ (r.ok => s.ok)
  /\ r.heap = s.heap /\ r.book = s.book
  /\ r.mkt.time_expiry = s.mkt.time_expiry /\ r.mkt.closed = s.mkt.closed
  /\ \A x \in Accounts : r.oo[x].open = s.oo[x].open

\* The maker of a fill is settled.
LEMMA FillConsumed ==
  ASSUME NEW s, IsState(s), NEW E, NEW base, NEW quote, NEW lock, NEW w,
         Sane(s, E, base, quote, lock, w),
         NEW n \in DOMAIN E, NEW e, e = E[n], e.kind = "Fill", NEW r, r = ExecuteMaker(s, e)
  PROVE  /\ Settled(s, r)
         /\ r.ok => Sane(r, Minus(E, n), base, quote, lock, w)
<1> DEFINE a == e.maker
           old == s.oo[a]
           acc == execute_maker(s.oo[e.maker], e)
           fees == FillTerms(e).fees
           o == OrdersOf(s.oo)
<1>1. /\ s.mkt \in MarketValues /\ TotalsOk(s.mkt, w) /\ s.oo \in [Accounts -> AccountValues]
      /\ HeapOk(s.heap) /\ EventsOk(E) /\ EventsClaim(o, AllLeaves(s.book), E)
  BY ONLY Sane(s, E, base, quote, lock, w), SaneParts
<1>2. e \in EventValues
  BY <1>1 DEF EventsOk
<1>3. e \in FillEvents /\ EventOk(e) /\ AccountOf(e) \in Accounts /\ SlotOf(e) \in OrderSlots
      /\ PlaceOfEvent(e) \in Places
  BY <1>2, EventKinds DEF OutEvents
<1>4. a = AccountOf(e) /\ a \in Accounts /\ SlotOf(e) = e.maker_slot /\ e.maker_slot \in OrderSlots
      /\ e.maker_out \in BOOLEAN /\ (IsLast(e) <=> e.maker_out) /\ SideOf(e) = FillTerms(e).side
      /\ PlaceOfEvent(e) = <<a, e.maker_slot>>
  BY <1>3 DEF AccountOf, SlotOf, IsLast, SideOf, FillEvents, PlaceOfEvent
<1>5. o[<<a, e.maker_slot>>] = old.open_orders[e.maker_slot]
  BY <1>1, <1>4, OrdersOfType
<1>6. e.maker_out => old.open_orders[e.maker_slot].side = FillTerms(e).side
  BY <1>1, <1>4, <1>5 DEF EventsClaim
<1>7. old \in AccountValues
  BY <1>1, <1>4
<1>8. /\ acc \in AccountValues
      /\ acc.open = old.open
      /\ acc.open_orders = IF e.maker_out
                           THEN [old.open_orders EXCEPT ![e.maker_slot] = FreeSlot]
                           ELSE old.open_orders
      /\ \A kind \in Kinds : Held(kind, acc) = Held(kind, old) - FillLocks(kind, e)
      /\ \A unit \in Units :
           OwedTo(unit, acc) = OwedTo(unit, old) + FillDue(unit, e)
                               + (IF unit = "rebates" THEN fees ELSE 0)
  <2> DEFINE new == execute_maker(old, e)
  <2> HIDE DEF old
  <2>1. /\ new \in AccountValues
        /\ new.open = old.open
        /\ new.open_orders = IF e.maker_out
                             THEN [old.open_orders EXCEPT ![e.maker_slot] = FreeSlot]
                             ELSE old.open_orders
        /\ \A kind \in Kinds : Held(kind, new) = Held(kind, old) - FillLocks(kind, e)
        /\ \A unit \in Units :
             OwedTo(unit, new) = OwedTo(unit, old) + FillDue(unit, e)
                                 + (IF unit = "rebates" THEN FillTerms(e).fees ELSE 0)
    BY ONLY <1>3, <1>6, <1>7, ExecuteMakerFacts
  <2> QED BY <2>1 DEF old
<1>9. MakerPaid(s, e, r)
  BY <1>1, <1>4, ExecuteMakerFields
<1>10. /\ IsState(r) /\ r.ok \in BOOLEAN /\ (r.ok => s.ok /\ Sound(acc))
       /\ r.oo = [s.oo EXCEPT ![a] = acc] /\ r.mkt = FeeBooked(s.mkt, fees)
       /\ r.book = s.book /\ r.heap = s.heap
  BY <1>9 DEF MakerPaid
<1>11. fees \in Int
  BY <1>3, FillTermsFacts
<1> HIDE DEF acc, fees
<1>12. /\ TotalsOk(r.mkt, w) /\ r.mkt.time_expiry = s.mkt.time_expiry /\ r.mkt.closed = s.mkt.closed
       /\ r.mkt.fees_available = s.mkt.fees_available
       /\ r.mkt.referrer_rebates_accrued = s.mkt.referrer_rebates_accrued + fees
  BY <1>1, <1>10, <1>11, FeeBookedFacts
<1>13. \A x \in Accounts : r.oo[x].open = s.oo[x].open
  <2>1. acc.open = s.oo[a].open
    BY <1>8
  <2>2. \A x \in Accounts : [s.oo EXCEPT ![a] = acc][x].open = s.oo[x].open
    BY <1>1, <1>4, <2>1, OpenKept
  <2> QED BY <1>10, <2>2
<1>14. Settled(s, r)
  BY <1>10, <1>12, <1>13 DEF Settled
<1>15. ASSUME r.ok PROVE Sane(r, Minus(E, n), base, quote, lock, w)
  <2>1. Sound(acc)
    BY <1>10, <1>15
  <2>2. acc.open_orders = IF IsLast(e) THEN [s.oo[a].open_orders EXCEPT ![SlotOf(e)] = FreeSlot]
                          ELSE s.oo[a].open_orders
    BY <1>4, <1>8
  <2>3. \A kind \in Kinds : Held(kind, acc) = Held(kind, s.oo[a]) - EventLocks(kind, OrdersOf(s.oo), a, e)
    BY <1>4, <1>8 DEF EventLocks
  <2>4. \A unit \in Units : OwedTo(unit, acc) = OwedTo(unit, s.oo[a]) + Due(unit, e)
                                                 + (IF unit = "rebates" THEN fees ELSE 0)
    BY <1>8 DEF Due
  <2>5. acc.open = s.oo[a].open
    BY <1>8
  <2>6. HeapOk(r.heap)
    BY <1>1, <1>10
  <2>7. acc \in AccountValues /\ Sane(s, E, base, quote, lock, w) /\ n \in DOMAIN E /\ e = E[n]
    BY <1>8
  <2> HIDE DEF a
  <2> QED BY ONLY <1>4, <1>10, <1>11, <1>12, <2>1, <2>2, <2>3, <2>4, <2>5, <2>6, <2>7, EventDone
<1> QED BY <1>14, <1>15

\* The state after an account got back what a leaf had locked.
LEMMA CancelSlotOfIs ==
  ASSUME NEW s, IsState(s), NEW a, NEW slot, NEW quantity,
         NEW acc, acc = cancel_slot(s.oo[a], slot, quantity),
         NEW r, r = CancelSlotOf(s, a, slot, quantity)
  PROVE  /\ IsState(r) /\ r.ok \in BOOLEAN
         /\ r.ok => s.ok /\ ~is_free_slot(s.oo[a], slot) /\ Sound(acc)
         /\ r.oo = [s.oo EXCEPT ![a] = acc]
         /\ r.mkt = s.mkt /\ r.book = s.book /\ r.heap = s.heap
<1> DEFINE ok == s.ok /\ ~is_free_slot(s.oo[a], slot) /\ Sound(acc)
           q == OkAccountSet(s, ok, a, acc)
<1>1. r = q
  BY DEF CancelSlotOf, With, OkAccountSet
<1>2. ok \in BOOLEAN
  OBVIOUS
<1> HIDE DEF ok
<1>3. IsState(q) /\ q.ok = ok /\ q.mkt = s.mkt /\ q.oo = [s.oo EXCEPT ![a] = acc]
      /\ q.book = s.book /\ q.heap = s.heap
  <2> HIDE DEF q
  <2> QED BY SetOkAndAccount DEF q
<1> HIDE DEF q
<1> QED BY <1>1, <1>2, <1>3 DEF ok

\* The owner of an order that left the book gets back what was locked.
LEMMA OutConsumed ==
  ASSUME NEW s, IsState(s), NEW E, NEW base, NEW quote, NEW lock, NEW w,
         Sane(s, E, base, quote, lock, w),
         NEW n \in DOMAIN E, NEW e, e = E[n], e.kind # "Fill",
         NEW r, r = CancelSlotOf(s, e.owner, e.owner_slot, e.quantity)
  PROVE  /\ Settled(s, r)
         /\ r.ok => Sane(r, Minus(E, n), base, quote, lock, w)
<1> DEFINE a == e.owner
           slot == e.owner_slot
           q == e.quantity
           old == s.oo[a]
           acc == cancel_slot(s.oo[a], slot, q)
           o == OrdersOf(s.oo)
<1>1. /\ s.mkt \in MarketValues /\ TotalsOk(s.mkt, w) /\ s.oo \in [Accounts -> AccountValues]
      /\ HeapOk(s.heap) /\ EventsOk(E)
  BY ONLY Sane(s, E, base, quote, lock, w), SaneParts
<1>2. e \in EventValues
  BY <1>1 DEF EventsOk
<1>3. e \in OutEvents
  BY <1>2, EventKinds
<1>4. a = AccountOf(e) /\ a \in Accounts /\ SlotOf(e) = slot /\ slot \in OrderSlots
      /\ IsLast(e) /\ q \in Nat /\ PlaceOfEvent(e) = <<a, slot>>
  BY <1>3 DEF AccountOf, SlotOf, IsLast, OutEvents, PlaceOfEvent
<1>5. o[<<a, slot>>] = old.open_orders[slot]
  BY <1>1, <1>4, OrdersOfType
<1>7. old \in AccountValues
  BY <1>1, <1>4
<1>8. /\ acc \in AccountValues
      /\ acc.open = old.open
      /\ acc.open_orders = [old.open_orders EXCEPT ![slot] = FreeSlot]
      /\ \A kind \in Kinds : Held(kind, acc) = Held(kind, old) - OrderLocks(kind, old.open_orders[slot], q)
      /\ \A unit \in Units : OwedTo(unit, acc) = OwedTo(unit, old)
  <2> DEFINE new == cancel_slot(old, slot, q)
  <2>1. old \in AccountValues /\ slot \in OrderSlots /\ q \in Nat
    BY <1>4, <1>7
  <2> HIDE DEF old, q, slot, a
  <2>2. /\ new \in AccountValues
        /\ new.open = old.open
        /\ new.open_orders = [old.open_orders EXCEPT ![slot] = FreeSlot]
        /\ \A kind \in Kinds : Held(kind, new) = Held(kind, old) - OrderLocks(kind, old.open_orders[slot], q)
        /\ \A unit \in Units : OwedTo(unit, new) = OwedTo(unit, old)
    BY ONLY <2>1, CancelSlotFacts
  <2> QED BY <2>2 DEF old, a
<1>9. /\ IsState(r) /\ r.ok \in BOOLEAN /\ (r.ok => s.ok /\ Sound(acc))
      /\ r.oo = [s.oo EXCEPT ![a] = acc] /\ r.mkt = s.mkt /\ r.book = s.book /\ r.heap = s.heap
  <2> DEFINE acc2 == acc
  <2> HIDE DEF acc2, a, slot, q
  <2>1. r = CancelSlotOf(s, a, slot, q) /\ acc2 = cancel_slot(s.oo[a], slot, q)
    BY DEF acc2, a, slot, q
  <2>2. /\ IsState(r) /\ r.ok \in BOOLEAN /\ (r.ok => s.ok /\ ~is_free_slot(s.oo[a], slot) /\ Sound(acc2))
        /\ r.oo = [s.oo EXCEPT ![a] = acc2] /\ r.mkt = s.mkt /\ r.book = s.book /\ r.heap = s.heap
    BY ONLY IsState(s), <2>1, CancelSlotOfIs
  <2> QED BY <2>2 DEF acc2
<1> HIDE DEF acc
<1>13. \A x \in Accounts : r.oo[x].open = s.oo[x].open
  <2>1. acc.open = s.oo[a].open
    BY <1>8
  <2>2. \A x \in Accounts : [s.oo EXCEPT ![a] = acc][x].open = s.oo[x].open
    BY <1>1, <1>4, <2>1, OpenKept
  <2> QED BY <1>9, <2>2
<1>14. Settled(s, r)
  BY <1>9, <1>13 DEF Settled
<1>15. ASSUME r.ok PROVE Sane(r, Minus(E, n), base, quote, lock, w)
  <2>1. Sound(acc)
    BY <1>9, <1>15
  <2>2. acc.open_orders = IF IsLast(e) THEN [s.oo[a].open_orders EXCEPT ![SlotOf(e)] = FreeSlot]
                          ELSE s.oo[a].open_orders
    BY <1>4, <1>8
  <2>3. \A kind \in Kinds : Held(kind, acc) = Held(kind, s.oo[a]) - EventLocks(kind, OrdersOf(s.oo), a, e)
    BY <1>4, <1>5, <1>8 DEF EventLocks
  <2>4. \A unit \in Units : OwedTo(unit, acc) = OwedTo(unit, s.oo[a]) + Due(unit, e)
                                                 + (IF unit = "rebates" THEN 0 ELSE 0)
    <3>1. \A unit \in Units : OwedTo(unit, old) \in Int
      BY <1>7, OwedToInt
    <3> QED BY <1>8, <3>1 DEF Due
  <2>5. acc.open = s.oo[a].open
    BY <1>8
  <2>6. /\ HeapOk(r.heap) /\ TotalsOk(r.mkt, w) /\ r.mkt.fees_available = s.mkt.fees_available
        /\ r.mkt.referrer_rebates_accrued = s.mkt.referrer_rebates_accrued + 0
        /\ r.oo = [s.oo EXCEPT ![a] = acc] /\ r.book = s.book /\ 0 \in Int
    <3>1. s.mkt.referrer_rebates_accrued \in Int
      BY <1>1 DEF MarketValues
    <3> QED BY <1>1, <1>9, <3>1
  <2>7. acc \in AccountValues /\ Sane(s, E, base, quote, lock, w) /\ n \in DOMAIN E /\ e = E[n]
        /\ a = AccountOf(e)
    BY <1>4, <1>8
  <2> HIDE DEF a
  <2> QED BY ONLY <2>1, <2>2, <2>3, <2>4, <2>5, <2>6, <2>7, EventDone
<1> QED BY <1>14, <1>15

\* An account was handed what an event says.
LEMMA EventConsumed ==
  ASSUME NEW s, IsState(s), NEW E, NEW base, NEW quote, NEW lock, NEW w,
         Sane(s, E, base, quote, lock, w),
         NEW n \in DOMAIN E, NEW e, e = E[n], NEW r, r = Consume(s, e)
  PROVE  /\ Settled(s, r)
         /\ r.ok => Sane(r, Minus(E, n), base, quote, lock, w)
<1>1. CASE e.kind = "Fill"
  <2>1. r = ExecuteMaker(s, e)
    BY <1>1 DEF Consume
  <2> QED BY <1>1, <2>1, FillConsumed
<1>2. CASE e.kind # "Fill"
  <2>1. r = CancelSlotOf(s, e.owner, e.owner_slot, e.quantity)
    BY <1>2 DEF Consume
  <2> QED BY <1>2, <2>1, OutConsumed
<1> QED BY <1>1, <1>2

\* What process_fill_event may lead to.
FillOutcome(s, e, r) == r = ExecuteMaker(s, e) \/ r = push_back(s, e)

\* A fill is settled on the spot or waits on the heap.
LEMMA FillHandled ==
  ASSUME NEW s, IsState(s), s.ok \in BOOLEAN, HeapOk(s.heap),
         NEW e \in EventValues, e.kind = "Fill", NEW base, NEW quote, NEW lock, NEW w,
         \A n : n \notin DOMAIN s.heap => Sane(s, Plus(s.heap, n, e), base, quote, lock, w),
         NEW r, FillOutcome(s, e, r)
  PROVE  /\ IsState(r) /\ r.ok \in BOOLEAN /\ (r.ok => s.ok) /\ r.book = s.book
         /\ r.mkt.time_expiry = s.mkt.time_expiry /\ r.mkt.closed = s.mkt.closed
         /\ \A x \in Accounts : r.oo[x].open = s.oo[x].open
         /\ r.ok => Sane(r, r.heap, base, quote, lock, w)
<1> DEFINE h == s.heap
           k == Len(h) + 1
<1>1. 0 \notin DOMAIN h /\ k \notin DOMAIN h
      /\ Append(h, e) = Plus(h, k, e) /\ (Len(h) < MAX_NUM_EVENTS => HeapOk(Append(h, e)))
  BY HeapFacts
<1>2. CASE r = ExecuteMaker(s, e)
  <2> DEFINE F == Plus(h, 0, e)
  <2>1. 0 \in DOMAIN F /\ e = F[0]
    BY DEF Plus
  <2>2. Sane(s, F, base, quote, lock, w)
    BY <1>1
  <2> HIDE DEF F
  <2>3. Settled(s, r) /\ (r.ok => Sane(r, Minus(F, 0), base, quote, lock, w))
    BY <1>2, <2>1, <2>2, FillConsumed
  <2>4. IsFiniteSet(DOMAIN h)
    BY <2>2, SaneParts, HeapOk(s.heap), FS_Interval DEF HeapOk
  <2>5. r.ok => Sane(r, h, base, quote, lock, w)
    <3> HIDE DEF h
    <3> QED BY ONLY <1>1, <2>3, <2>4, PlusMinusSame DEF F
  <2> QED BY <2>3, <2>5 DEF Settled
<1>3. CASE r = push_back(s, e)
  <2>1. /\ IsState(r) /\ r.ok \in BOOLEAN /\ r.ok = (s.ok /\ Len(s.heap) < MAX_NUM_EVENTS)
        /\ r.heap = Append(s.heap, e) /\ r.mkt = s.mkt /\ r.book = s.book /\ r.oo = s.oo
    BY <1>3, PushBackFields
  <2>2. ASSUME r.ok PROVE Sane(r, r.heap, base, quote, lock, w)
    <3> DEFINE F == Plus(h, k, e)
    <3>1. Sane(s, F, base, quote, lock, w)
      BY <1>1
    <3>2. r.heap = F /\ HeapOk(r.heap)
      BY <1>1, <2>1, <2>2
    <3> HIDE DEF F
    <3>3. Sane(r, F, base, quote, lock, w)
      BY <2>1, <3>1, <3>2 DEF Sane
    <3> QED BY <3>2, <3>3
  <2> QED BY <2>1, <2>2
<1> QED BY <1>2, <1>3 DEF FillOutcome

-----------------------------------------------------------------------------
(* An account without orders locks nothing; it may be replaced. *)

\* An account without an order on the book or an event that waits.
Idle(s, E, a) ==
  /\ \A l \in AllLeaves(s.book) : l.owner # a
  /\ \A i \in DOMAIN E : AccountOf(E[i]) # a

\* A leaf, and an event, locks lots of its owner.
LEMMA LeafLocksLots ==
  ASSUME NEW o \in [Places -> OrderValues], NEW l \in LeafValues
  PROVE  \/ LeafLocks("bids_base", o, l.owner, l) # 0
         \/ LeafLocks("asks_base", o, l.owner, l) # 0
<1> DEFINE order == o[PlaceOfLeaf(l)]
<1>1. /\ PlaceOfLeaf(l) \in Places /\ l.quantity \in Nat /\ l.quantity # 0
  BY DEF LeafValues, PlaceOfLeaf, Places
<1>2. order \in OrderValues
  BY <1>1
<1>3. order.side \in Sides /\ order.locked_price \in Nat
  BY <1>2 DEF OrderValues
<1>4. /\ LeafLocks("bids_base", o, l.owner, l) = Locks("bids_base", order.side, l.quantity, order.locked_price)
      /\ LeafLocks("asks_base", o, l.owner, l) = Locks("asks_base", order.side, l.quantity, order.locked_price)
  BY DEF LeafLocks, OrderLocks
<1> HIDE DEF order
<1>5. /\ Locks("asks_base", order.side, l.quantity, order.locked_price)
           = IF order.side = "Ask" THEN l.quantity ELSE 0
      /\ Locks("bids_base", order.side, l.quantity, order.locked_price)
           = IF order.side = "Bid" THEN l.quantity ELSE 0
  BY <1>1, <1>3, LocksFacts
<1> QED BY <1>1, <1>3, <1>4, <1>5 DEF Sides

\* Every event locks some lots of its account.
LEMMA EventLocksLots ==
  ASSUME NEW o \in [Places -> OrderValues], NEW e \in EventValues
  PROVE  \/ EventLocks("bids_base", o, AccountOf(e), e) # 0
         \/ EventLocks("asks_base", o, AccountOf(e), e) # 0
<1>1. /\ EventOk(e)
      /\ \/ e \in OutEvents /\ e.kind = "Out"
         \/ e \in FillEvents /\ e.kind = "Fill"
      /\ AccountOf(e) \in Accounts /\ SlotOf(e) \in OrderSlots
      /\ PlaceOfEvent(e) \in Places
      /\ e.quantity \in Nat \ {0}
  BY EventKinds
<1> DEFINE Some(side, p) == /\ EventLocks("bids_base", o, AccountOf(e), e)
                                 = Locks("bids_base", side, e.quantity, p)
                            /\ EventLocks("asks_base", o, AccountOf(e), e)
                                 = Locks("asks_base", side, e.quantity, p)
<1>2. ASSUME NEW side \in Sides, NEW p \in Nat, Some(side, p)
      PROVE  \/ EventLocks("bids_base", o, AccountOf(e), e) # 0
             \/ EventLocks("asks_base", o, AccountOf(e), e) # 0
  <2>1. /\ Locks("asks_base", side, e.quantity, p) = IF side = "Ask" THEN e.quantity ELSE 0
        /\ Locks("bids_base", side, e.quantity, p) = IF side = "Bid" THEN e.quantity ELSE 0
    BY <1>1, LocksFacts
  <2> QED BY <1>1, <1>2, <2>1 DEF Sides
<1>3. CASE e.kind = "Out"
  <2> DEFINE order == o[PlaceOfEvent(e)]
  <2>1. order \in OrderValues
    BY <1>1
  <2>2. order.side \in Sides /\ order.locked_price \in Nat
    BY <2>1 DEF OrderValues
  <2>3. Some(order.side, order.locked_price)
    BY <1>3 DEF EventLocks, OrderLocks
  <2> HIDE DEF order, Some
  <2> QED BY <1>2, <2>2, <2>3
<1>4. CASE e.kind = "Fill"
  <2> DEFINE t == FillTerms(e)
  <2>1. e \in FillEvents
    BY <1>1, <1>4 DEF OutEvents
  <2>2. t.side \in Sides /\ t.locked_price \in Nat
    <3>1. /\ t.side \in Sides /\ t.locked_price \in Nat \ {0}
      BY <1>1, <2>1, FillTermsFacts
    <3> QED BY <3>1
  <2>3. Some(t.side, t.locked_price)
    BY <1>4 DEF EventLocks, FillLocks
  <2> HIDE DEF t, Some
  <2> QED BY <1>2, <2>2, <2>3
<1> QED BY <1>1, <1>3, <1>4

\* Who has no lots in orders has no order on the book and no event that waits.
LEMMA NoLotsIdle ==
  ASSUME NEW s, NEW E, NEW base, NEW quoted, NEW lock, NEW w, Sane(s, E, base, quoted, lock, w),
         NEW a \in Accounts, s.oo[a].bids_base_lots = 0, s.oo[a].asks_base_lots = 0
  PROVE  Idle(s, E, a)
<1> DEFINE L == AllLeaves(s.book)
           o == OrdersOf(s.oo)
<1>1. /\ o \in [Places -> OrderValues] /\ L \in SUBSET LeafValues /\ IsFiniteSet(L)
      /\ EventsOk(E) /\ Covered(s.oo, L, E, lock)
  BY SaneParts
<1> HIDE DEF L, o
<1>2. ASSUME NEW kind \in {"bids_base", "asks_base"}
      PROVE  LeavesLock(kind, o, a, L) = 0 /\ EventsLock(kind, o, a, E) = 0
  <2>1. kind \in Kinds /\ kind # "fees"
    BY DEF Kinds
  <2>2. Covers(kind, Held(kind, s.oo[a]) - (IF kind = "fees" THEN lock[a] ELSE 0),
               LeavesLock(kind, OrdersOf(s.oo), a, L) + EventsLock(kind, OrdersOf(s.oo), a, E))
    BY <1>1, <2>1, CoveredAt
  <2>3. Held(kind, s.oo[a]) = 0
    BY HeldFacts
  <2>4. LeavesLock(kind, o, a, L) \in Nat
    BY <1>1, <2>1, LeafTaken
  <2>5. EventsLock(kind, o, a, E) \in Nat
    BY <1>1, <2>1, EventTaken
  <2> DEFINE x == LeavesLock(kind, o, a, L)
             y == EventsLock(kind, o, a, E)
  <2>6. 0 - 0 = x + y
    BY <2>1, <2>2, <2>3 DEF Covers, o
  <2> HIDE DEF x, y
  <2>7. x \in Nat /\ y \in Nat
    BY <2>4, <2>5 DEF x, y
  <2>8. x = 0 /\ y = 0
    BY <2>6, <2>7
  <2> QED BY <2>8 DEF x, y
<1>3. ASSUME NEW l \in L, l.owner = a PROVE FALSE
  <2>1. l \in LeafValues
    BY <1>1
  <2>2. \/ LeafLocks("bids_base", o, a, l) # 0
        \/ LeafLocks("asks_base", o, a, l) # 0
    BY <1>1, <1>3, <2>1, LeafLocksLots
  <2>3. ASSUME NEW kind \in {"bids_base", "asks_base"}
        PROVE  LeafLocks(kind, o, a, l) = 0
    <3>1. kind \in Kinds
      BY DEF Kinds
    <3>2. /\ LeavesLock(kind, o, a, L) \in Nat
          /\ \A k \in L : LeavesLock(kind, o, a, L) = LeafLocks(kind, o, a, k)
                                                      + LeavesLock(kind, o, a, L \ {k})
      BY <1>1, <3>1, LeafTaken
    <3>3. L \ {l} \in SUBSET LeafValues
      BY <1>1
    <3>4. IsFiniteSet(L \ {l})
      BY <1>1, FS_RemoveElement
    <3>5. LeavesLock(kind, o, a, L \ {l}) \in Nat
      BY <1>1, <3>1, <3>3, <3>4, LeafTaken
    <3>6. LeafLocks(kind, o, a, l) \in Nat
      BY <1>1, <2>1, <3>1, LeafLocksNat
    <3>7. LeavesLock(kind, o, a, L) = 0
      BY <1>2
    <3>8. 0 = LeafLocks(kind, o, a, l) + LeavesLock(kind, o, a, L \ {l})
      BY <3>2, <3>7
    <3> QED BY <3>5, <3>6, <3>8
  <2> QED BY <2>2, <2>3
<1>4. ASSUME NEW i \in DOMAIN E, AccountOf(E[i]) = a PROVE FALSE
  <2>1. E[i] \in EventValues
    BY <1>1 DEF EventsOk
  <2>2. \/ EventLocks("bids_base", o, a, E[i]) # 0
        \/ EventLocks("asks_base", o, a, E[i]) # 0
    BY <1>1, <1>4, <2>1, EventLocksLots
  <2>3. ASSUME NEW kind \in {"bids_base", "asks_base"}
        PROVE  EventLocks(kind, o, a, E[i]) = 0
    <3>1. kind \in Kinds
      BY DEF Kinds
    <3>2. /\ EventsLock(kind, o, a, E) \in Nat
          /\ \A n \in DOMAIN E : EventsLock(kind, o, a, E) = EventLocks(kind, o, a, E[n])
                                                             + EventsLock(kind, o, a, Minus(E, n))
      BY <1>1, <3>1, EventTaken
    <3>3. EventsOk(Minus(E, i))
      BY <1>1, EventsOkMinus
    <3>4. EventsLock(kind, o, a, Minus(E, i)) \in Nat
      BY <1>1, <3>1, <3>3, EventTaken
    <3>5. EventLocks(kind, o, a, E[i]) \in Nat
      BY <1>1, <2>1, <3>1, EventLocksNat
    <3>6. EventsLock(kind, o, a, E) = 0
      BY <1>2
    <3>7. 0 = EventLocks(kind, o, a, E[i]) + EventsLock(kind, o, a, Minus(E, i))
      BY <3>2, <3>6
    <3> QED BY <3>4, <3>5, <3>7
  <2> QED BY <2>2, <2>3
<1> QED BY <1>3, <1>4 DEF Idle, L

\* An idle account is replaced by one that is owed as much.
Replaced(s, E, base, quoted, lock, w, a, acc, r) ==
  /\ Sane(s, E, base, quoted, lock, w) /\ a \in Accounts /\ Idle(s, E, a)
  /\ acc \in AccountValues /\ Sound(acc) /\ (acc.open \/ acc = ClosedAccount)
  /\ \A slot \in OrderSlots : acc.open_orders[slot].id = 0
  /\ \A kind \in Kinds : Held(kind, acc) = Held(kind, s.oo[a])
  /\ \A unit \in Units : OwedTo(unit, acc) = OwedTo(unit, s.oo[a])
  /\ r.oo = [s.oo EXCEPT ![a] = acc] /\ r.mkt = s.mkt /\ r.book = s.book /\ r.heap = s.heap

\* Replacing an idle account by one without orders that holds and is owed the same leaves a
\* sane state.
LEMMA AccountReplaced ==
  ASSUME NEW s, NEW E, NEW base, NEW quoted, NEW lock, NEW w, NEW a, NEW acc, NEW r,
         Replaced(s, E, base, quoted, lock, w, a, acc, r)
  PROVE  Sane(r, E, base, quoted, lock, w)
<1>0. /\ Sane(s, E, base, quoted, lock, w) /\ a \in Accounts /\ Idle(s, E, a)
      /\ acc \in AccountValues /\ Sound(acc) /\ (acc.open \/ acc = ClosedAccount)
      /\ \A slot \in OrderSlots : acc.open_orders[slot].id = 0
      /\ \A kind \in Kinds : Held(kind, acc) = Held(kind, s.oo[a])
      /\ \A unit \in Units : OwedTo(unit, acc) = OwedTo(unit, s.oo[a])
      /\ r.oo = [s.oo EXCEPT ![a] = acc] /\ r.mkt = s.mkt /\ r.book = s.book /\ r.heap = s.heap
  BY DEF Replaced
<1> DEFINE L == AllLeaves(s.book)
           o == OrdersOf(s.oo)
           p == OrdersOf(r.oo)
<1>1. /\ base \in Int /\ quoted \in Int /\ lock \in [Accounts -> Nat]
      /\ TotalsOk(s.mkt, w) /\ w.ids \in Nat
      /\ s.oo \in [Accounts -> AccountValues] /\ AccountsOk(s.oo, w.ids)
      /\ o \in [Places -> OrderValues]
      /\ BookOk(s.book, o, w.ids)
      /\ HeapOk(s.heap) /\ EventsOk(E)
      /\ L \in SUBSET LeafValues /\ IsFiniteSet(L)
      /\ LeavesClaim(o, L) /\ EventsClaim(o, L, E) /\ OrdersClaimed(o, L, E)
      /\ OwnersOpen(s.oo, L, E)
      /\ Covered(s.oo, L, E, lock)
      /\ Funds(s.mkt, s.oo, E, base, quoted)
  BY ONLY <1>0, SaneParts
<1>2. r.oo \in [Accounts -> AccountValues] /\ r.oo[a] = acc /\ \A x \in Accounts : x # a => r.oo[x] = s.oo[x]
  BY <1>0, <1>1
<1>3. p \in [Places -> OrderValues]
  BY <1>2, OrdersOfType
<1>4. \A q \in Places : IF q[1] = a THEN p[q].id = 0 ELSE p[q] = o[q]
  BY <1>0, <1>2 DEF OrdersOf, Places
<1>5. \A l \in L : PlaceOfLeaf(l) \in Places /\ PlaceOfLeaf(l)[1] # a /\ l.id # 0
  <2>1. \A l \in L : l \in LeafValues /\ l.owner # a
    BY <1>0, <1>1 DEF Idle
  <2> QED BY <2>1 DEF PlaceOfLeaf, Places, LeafValues
<1>6. \A i \in DOMAIN E : PlaceOfEvent(E[i]) \in Places /\ PlaceOfEvent(E[i])[1] # a
  <2>1. \A i \in DOMAIN E : E[i] \in EventValues /\ AccountOf(E[i]) # a
    BY <1>0, <1>1 DEF Idle, EventsOk
  <2>2. \A i \in DOMAIN E : PlaceOfEvent(E[i]) \in Places
    BY <2>1, EventKinds
  <2> QED BY <2>1, <2>2 DEF PlaceOfEvent
<1> HIDE DEF L, o, p
<1>7. (\A l \in L : p[PlaceOfLeaf(l)] = o[PlaceOfLeaf(l)])
      /\ (\A i \in DOMAIN E : p[PlaceOfEvent(E[i])] = o[PlaceOfEvent(E[i])])
  BY <1>4, <1>5, <1>6
<1>8. LeavesClaim(p, L)
  <2>1. ASSUME NEW l \in L, NEW q \in Places, p[q].id = l.id PROVE q = PlaceOfLeaf(l)
    <3>1. p[q] = o[q]
      BY <1>4, <1>5, <2>1
    <3> QED BY <1>1, <2>1, <3>1 DEF LeavesClaim
  <2> QED BY <1>1, <1>7, <2>1 DEF LeavesClaim
<1>9. EventsClaim(p, L, E)
  BY <1>1, <1>7 DEF EventsClaim
<1>10. OrdersClaimed(p, L, E)
  <2>1. \A q \in Places : p[q].id # 0 => o[q].id # 0
    BY <1>4
  <2> QED BY <1>1, <2>1 DEF OrdersClaimed
<1>11. OwnersOpen(r.oo, L, E)
  <2>1. \A l \in L : r.oo[l.owner].open
    <3>1. \A l \in L : l.owner \in Accounts /\ l.owner # a /\ s.oo[l.owner].open
      BY <1>0, <1>1 DEF Idle, L, OwnersOpen, LeafValues
    <3> QED BY <1>2, <3>1
  <2>2. \A i \in DOMAIN E : r.oo[AccountOf(E[i])].open
    <3>1. \A i \in DOMAIN E : E[i] \in EventValues /\ AccountOf(E[i]) # a /\ s.oo[AccountOf(E[i])].open
      BY <1>0, <1>1 DEF Idle, EventsOk, OwnersOpen
    <3>2. \A i \in DOMAIN E : AccountOf(E[i]) \in Accounts
      BY <3>1, EventKinds
    <3> QED BY <1>2, <3>1, <3>2
  <2>3. \A x \in Accounts : ~r.oo[x].open => r.oo[x] = ClosedAccount
    BY <1>0, <1>1, <1>2 DEF OwnersOpen
  <2> QED BY <2>1, <2>2, <2>3 DEF OwnersOpen
<1>12. Claims(r.oo, L, E)
  BY <1>8, <1>9, <1>10, <1>11 DEF Claims, p
<1>13. AccountsOk(r.oo, w.ids)
  <2>1. \A x \in Accounts : Sound(r.oo[x])
    BY <1>0, <1>1, <1>2 DEF AccountsOk
  <2>2. ASSUME NEW q \in Places PROVE p[q].id <= w.ids
    <3>1. o[q].id <= w.ids
      BY <1>1 DEF AccountsOk, o
    <3> QED BY <1>1, <1>4, <3>1
  <2> QED BY <1>2, <2>1, <2>2 DEF AccountsOk, p
<1>14. BookOk(r.book, p, w.ids) /\ AllLeaves(r.book) = L
  <2>1. \A l \in AllLeaves(s.book) : p[PlaceOfLeaf(l)] = o[PlaceOfLeaf(l)]
    BY <1>7 DEF L
  <2>2. BookOk(s.book, p, w.ids)
    BY <1>1, <2>1, BookSlots
  <2> QED BY <1>0, <2>2 DEF L
<1>15. Covered(r.oo, L, E, lock)
  <2>1. SameSlots(o, p, L, E)
    BY <1>7 DEF SameSlots
  <2>2. ASSUME NEW x \in Accounts, NEW kind \in Kinds
        PROVE  Covers(kind, Held(kind, r.oo[x]) - (IF kind = "fees" THEN lock[x] ELSE 0),
                      LeavesLock(kind, p, x, L) + EventsLock(kind, p, x, E))
    <3>1. Covers(kind, Held(kind, s.oo[x]) - (IF kind = "fees" THEN lock[x] ELSE 0),
                 LeavesLock(kind, OrdersOf(s.oo), x, L) + EventsLock(kind, OrdersOf(s.oo), x, E))
      BY <1>1, CoveredAt
    <3>2. Held(kind, r.oo[x]) = Held(kind, s.oo[x])
      BY <1>0, <1>2
    <3>3. /\ LeavesLock(kind, p, x, L) = LeavesLock(kind, o, x, L)
          /\ EventsLock(kind, p, x, E) = EventsLock(kind, o, x, E)
      BY <2>1, SameLocks
    <3> QED BY <3>1, <3>2, <3>3 DEF o
  <2> QED BY <2>2 DEF Covered, p
<1>16. Funds(r.mkt, r.oo, E, base, quoted)
  <2>1. ASSUME NEW unit \in Units PROVE Owed(unit, r.oo, E) = Owed(unit, s.oo, E)
    <3> DEFINE u == OwedToAll(unit, s.oo)
               v == OwedTo(unit, s.oo[a])
    <3>1. /\ u \in Int
          /\ OwedToAll(unit, [s.oo EXCEPT ![a] = acc]) = u - v + OwedTo(unit, acc)
      BY <1>0, <1>1, OwedUpdate
    <3>2. s.oo[a] \in AccountValues
      BY <1>0, <1>1
    <3>3. v \in Int
      BY <3>2, OwedToInt
    <3>4. OwedToAll(unit, r.oo) = u - v + v
      BY <1>0, <3>1
    <3> HIDE DEF u, v
    <3>5. OwedToAll(unit, r.oo) = u
      BY <3>1, <3>3, <3>4
    <3> QED BY <3>5 DEF Owed, u
  <2> QED BY <1>0, <1>1, <2>1 DEF Funds, Units
<1> QED BY <1>0, <1>1, <1>12, <1>13, <1>14, <1>15, <1>16 DEF Sane, p

\* Neither a new account nor a closed one has anything at stake.
AllZero(acc) ==
  /\ acc.bids_base_lots = 0 /\ acc.asks_base_lots = 0 /\ acc.bids_quote_lots = 0
  /\ acc.base_free_native = 0 /\ acc.quote_free_native = 0
  /\ acc.locked_maker_fees = 0 /\ acc.referrer_rebates_available = 0

\* A created and a closed account hold nothing.
LEMMA NewAccountFacts ==
  /\ EmptyAccount \in AccountValues /\ ClosedAccount \in AccountValues
  /\ AllZero(EmptyAccount) /\ AllZero(ClosedAccount)
  /\ EmptyAccount.open /\ ~ClosedAccount.open
  /\ \A slot \in OrderSlots : EmptyAccount.open_orders[slot].id = 0
  /\ \A slot \in OrderSlots : ClosedAccount.open_orders[slot].id = 0
<1>1. EmptyAccount.open_orders = [slot \in OrderSlots |-> FreeSlot] /\ EmptyAccount.open
  BY DEF EmptyAccount
<1>2. EmptyAccount \in AccountValues
  <2>1. [slot \in OrderSlots |-> FreeSlot] \in [OrderSlots -> OrderValues]
    BY FreeSlotValue
  <2>2. \A o : o \in [OrderSlots -> OrderValues] =>
          [open |-> TRUE,
           bids_base_lots |-> 0, asks_base_lots |-> 0, bids_quote_lots |-> 0,
           base_free_native |-> 0, quote_free_native |-> 0,
           locked_maker_fees |-> 0, referrer_rebates_available |-> 0,
           penalty_heap_count |-> 0, open_orders |-> o] \in AccountValues
    BY DEF AccountValues
  <2> QED BY <2>1, <2>2 DEF EmptyAccount
<1>3. AllZero(EmptyAccount)
  BY DEF EmptyAccount, AllZero
<1>4. ASSUME NEW e \in AccountValues, AllZero(e), NEW c, c = [e EXCEPT !.open = FALSE]
      PROVE  c \in AccountValues /\ AllZero(c) /\ ~c.open /\ c.open_orders = e.open_orders
  BY <1>4 DEF AccountValues, AllZero
<1>5. /\ ClosedAccount \in AccountValues /\ AllZero(ClosedAccount) /\ ~ClosedAccount.open
      /\ ClosedAccount.open_orders = EmptyAccount.open_orders
  BY <1>2, <1>3, <1>4 DEF ClosedAccount
<1>6. FreeSlot.id = 0
  BY DEF FreeSlot
<1> QED BY <1>1, <1>2, <1>3, <1>5, <1>6

\* What locks no lots of bids locks no fees.
LEMMA NoLotsNoFees ==
  ASSUME NEW side \in Sides, NEW q \in Nat \ {0}, NEW p \in Nat, Locks("bids_base", side, q, p) = 0
  PROVE  Locks("fees", side, q, p) = 0 /\ side # "Bid"
<1>1. Locks("bids_base", side, q, p) = IF side = "Bid" THEN q ELSE 0
  BY DEF Locks
<1>2. side # "Bid"
  BY <1>1
<1>3. Locks("fees", side, q, p) = 0
  BY <1>2 DEF Locks
<1> QED BY <1>2, <1>3

\* A leaf that locks no lots of bids of an account locks no fees of it.
LEMMA LeafLocksFees ==
  ASSUME NEW o \in [Places -> OrderValues], NEW l \in LeafValues, NEW a,
         LeafLocks("bids_base", o, a, l) = 0
  PROVE  LeafLocks("fees", o, a, l) = 0
<1> DEFINE order == o[PlaceOfLeaf(l)]
<1>1. /\ PlaceOfLeaf(l) \in Places /\ l.quantity \in Nat \ {0}
  BY DEF LeafValues, PlaceOfLeaf, Places
<1>2. order \in OrderValues
  BY <1>1
<1>3. order.side \in Sides /\ order.locked_price \in Nat
  BY <1>2 DEF OrderValues
<1>4. CASE l.owner = a
  <2>1. /\ LeafLocks("bids_base", o, a, l) = Locks("bids_base", order.side, l.quantity, order.locked_price)
        /\ LeafLocks("fees", o, a, l) = Locks("fees", order.side, l.quantity, order.locked_price)
    BY <1>4 DEF LeafLocks, OrderLocks
  <2> DEFINE side == order.side
             p == order.locked_price
             q == l.quantity
  <2>2. side \in Sides /\ q \in Nat \ {0} /\ p \in Nat /\ Locks("bids_base", side, q, p) = 0
    BY <1>1, <1>3, <2>1
  <2> HIDE DEF side, p, q
  <2>3. Locks("fees", side, q, p) = 0 /\ side # "Bid"
    BY <2>2, NoLotsNoFees
  <2> QED BY <2>1, <2>3 DEF side, p, q
<1>5. CASE l.owner # a
  BY <1>5 DEF LeafLocks
<1> QED BY <1>4, <1>5

\* Nor does such an event.
LEMMA EventLocksFees ==
  ASSUME NEW o \in [Places -> OrderValues], NEW e \in EventValues, NEW a,
         EventLocks("bids_base", o, a, e) = 0
  PROVE  EventLocks("fees", o, a, e) = 0
<1>1. /\ EventOk(e)
      /\ \/ e \in OutEvents /\ e.kind = "Out"
         \/ e \in FillEvents /\ e.kind = "Fill"
      /\ AccountOf(e) \in Accounts /\ SlotOf(e) \in OrderSlots
      /\ PlaceOfEvent(e) \in Places
      /\ e.quantity \in Nat \ {0}
  BY EventKinds
<1>2. CASE AccountOf(e) # a
  BY <1>2 DEF EventLocks
<1>3. CASE AccountOf(e) = a /\ e.kind = "Out"
  <2> DEFINE order == o[PlaceOfEvent(e)]
             side == order.side
             p == order.locked_price
             q == e.quantity
  <2>1. order \in OrderValues
    BY <1>1
  <2>2. side \in Sides /\ p \in Nat
    BY <2>1 DEF OrderValues
  <2>3. /\ EventLocks("bids_base", o, a, e) = Locks("bids_base", side, q, p)
        /\ EventLocks("fees", o, a, e) = Locks("fees", side, q, p)
    BY <1>3 DEF EventLocks, OrderLocks
  <2>4. q \in Nat \ {0}
    BY <1>1
  <2> HIDE DEF order, side, p, q
  <2>5. Locks("bids_base", side, q, p) = 0
    BY <2>3
  <2>6. Locks("fees", side, q, p) = 0 /\ side # "Bid"
    BY <2>2, <2>4, <2>5, NoLotsNoFees
  <2> QED BY <2>3, <2>6
<1>4. CASE AccountOf(e) = a /\ e.kind = "Fill"
  <2> DEFINE t == FillTerms(e)
             side == t.side
             p == t.locked_price
             q == e.quantity
  <2>1. e \in FillEvents
    BY <1>1, <1>4 DEF OutEvents
  <2>2. side \in Sides /\ p \in Nat
    <3>1. /\ t.side \in Sides /\ t.locked_price \in Nat \ {0}
      BY <1>1, <2>1, FillTermsFacts
    <3> QED BY <3>1
  <2>3. /\ EventLocks("bids_base", o, a, e) = Locks("bids_base", side, q, p)
        /\ EventLocks("fees", o, a, e) = IF side = "Bid" THEN t.locked_fees ELSE 0
    BY <1>4 DEF EventLocks, FillLocks
  <2>4. q \in Nat \ {0}
    BY <1>1
  <2> HIDE DEF t, side, p, q
  <2>5. Locks("bids_base", side, q, p) = 0
    BY <2>3
  <2>6. Locks("fees", side, q, p) = 0 /\ side # "Bid"
    BY <2>2, <2>4, <2>5, NoLotsNoFees
  <2> QED BY <2>3, <2>6
<1> QED BY <1>1, <1>2, <1>3, <1>4

\* The base lots that orders lock, and the fees, each as a sum of numbers.
LEMMA NoLeafFees ==
  ASSUME NEW o \in [Places -> OrderValues], NEW L \in SUBSET LeafValues, IsFiniteSet(L),
         NEW a, LeavesLock("bids_base", o, a, L) = 0
  PROVE  LeavesLock("fees", o, a, L) = 0
<1> DEFINE g == [l \in L |-> LeafLocks("bids_base", o, a, l)]
           h == [l \in L |-> LeafLocks("fees", o, a, l)]
<1>1. /\ LeavesLock("bids_base", o, a, L) = SumFunctionOnSet(g, L)
      /\ LeavesLock("fees", o, a, L) = SumFunctionOnSet(h, L)
  BY DEF LeavesLock
<1>2. "bids_base" \in Kinds
  BY DEF Kinds
<1>3. ASSUME NEW l \in L
      PROVE  g[l] \in Nat /\ (g[l] = 0 => h[l] = 0)
  <2>1. l \in LeafValues
    OBVIOUS
  <2>2. LeafLocks("bids_base", o, a, l) \in Nat
    BY <1>2, <2>1, LeafLocksNat
  <2>3. LeafLocks("bids_base", o, a, l) = 0 => LeafLocks("fees", o, a, l) = 0
    BY <2>1, LeafLocksFees
  <2> QED BY <2>2, <2>3
<1> HIDE DEF g, h
<1>4. \A l \in L : g[l] \in Nat
  BY <1>3
<1>5. /\ SumFunctionOnSet(g, L) \in Nat
      /\ \A l \in L : g[l] <= SumFunctionOnSet(g, L)
  BY <1>4, SumBounds
<1>6. SumFunctionOnSet(g, L) = 0
  BY <1>1
<1>7. \A l \in L : g[l] = 0
  BY <1>4, <1>5, <1>6
<1>8. \A l \in L : h[l] = 0
  BY <1>3, <1>7
<1>9. SumFunctionOnSet(h, L) = 0
  BY <1>8, SumOfZeros
<1> QED BY <1>1, <1>9

\* The same of the events that wait.
LEMMA NoEventFees ==
  ASSUME NEW o \in [Places -> OrderValues], NEW E, EventsOk(E),
         NEW a, EventsLock("bids_base", o, a, E) = 0
  PROVE  EventsLock("fees", o, a, E) = 0
<1> DEFINE L == DOMAIN E
           g == [l \in L |-> EventLocks("bids_base", o, a, E[l])]
           h == [l \in L |-> EventLocks("fees", o, a, E[l])]
<1>1. /\ EventsLock("bids_base", o, a, E) = SumFunctionOnSet(g, L)
      /\ EventsLock("fees", o, a, E) = SumFunctionOnSet(h, L)
  BY DEF EventsLock
<1>2. "bids_base" \in Kinds
  BY DEF Kinds
<1>3. ASSUME NEW l \in L
      PROVE  g[l] \in Nat /\ (g[l] = 0 => h[l] = 0)
  <2>1. E[l] \in EventValues
    BY DEF EventsOk
  <2>2. EventLocks("bids_base", o, a, E[l]) \in Nat
    BY <1>2, <2>1, EventLocksNat
  <2>3. EventLocks("bids_base", o, a, E[l]) = 0 => EventLocks("fees", o, a, E[l]) = 0
    BY <2>1, EventLocksFees
  <2> QED BY <2>2, <2>3
<1>4. IsFiniteSet(L)
  BY DEF EventsOk
<1> HIDE DEF g, h, L
<1>5. \A l \in L : g[l] \in Nat
  BY <1>3
<1>6. /\ SumFunctionOnSet(g, L) \in Nat
      /\ \A l \in L : g[l] <= SumFunctionOnSet(g, L)
  BY <1>4, <1>5, SumBounds
<1>7. SumFunctionOnSet(g, L) = 0
  BY <1>1
<1>8. \A l \in L : g[l] = 0
  BY <1>5, <1>6, <1>7
<1>9. \A l \in L : h[l] = 0
  BY <1>3, <1>8
<1>10. SumFunctionOnSet(h, L) = 0
  BY <1>4, <1>9, SumOfZeros
<1> QED BY <1>1, <1>10

\* Without lots in bids an account has no fees to cover.
LEMMA NoBidsNoFees ==
  ASSUME NEW s, NEW E, NEW base, NEW quoted, NEW lock, NEW w, Sane(s, E, base, quoted, lock, w),
         NEW a \in Accounts, s.oo[a].bids_base_lots = 0
  PROVE  FeesToCover(s, E, a) = 0
<1> DEFINE L == AllLeaves(s.book)
           o == OrdersOf(s.oo)
<1>1. /\ o \in [Places -> OrderValues] /\ L \in SUBSET LeafValues /\ IsFiniteSet(L)
      /\ EventsOk(E) /\ Covered(s.oo, L, E, lock)
  BY SaneParts
<1>2. "bids_base" \in Kinds
  BY DEF Kinds
<1>3. PICK kind : kind = "bids_base"
  OBVIOUS
<1>4. kind \in Kinds /\ kind # "fees"
  BY <1>2, <1>3
<1> HIDE DEF L
<1>5. Covers(kind, Held(kind, s.oo[a]) - (IF kind = "fees" THEN lock[a] ELSE 0),
             LeavesLock(kind, OrdersOf(s.oo), a, L) + EventsLock(kind, OrdersOf(s.oo), a, E))
  BY <1>1, <1>4, CoveredAt
<1> HIDE DEF o
<1>6. Held(kind, s.oo[a]) = 0
  BY <1>3, HeldFacts
<1>7. LeavesLock(kind, o, a, L) \in Nat
  BY <1>1, <1>4, LeafTaken
<1>8. EventsLock(kind, o, a, E) \in Nat
  BY <1>1, <1>4, EventTaken
<1> DEFINE x == LeavesLock(kind, o, a, L)
           y == EventsLock(kind, o, a, E)
<1>9. 0 - 0 = x + y
  BY <1>4, <1>5, <1>6 DEF Covers, o
<1>10. x \in Nat /\ y \in Nat
  BY <1>7, <1>8
<1> HIDE DEF x, y
<1>11. x = 0 /\ y = 0
  BY <1>9, <1>10
<1>12. LeavesLock("bids_base", o, a, L) = 0 /\ EventsLock("bids_base", o, a, E) = 0
  BY <1>3, <1>11 DEF x, y
<1>13. LeavesLock("fees", o, a, L) = 0
  BY <1>1, <1>12, NoLeafFees
<1>14. EventsLock("fees", o, a, E) = 0
  BY <1>1, <1>12, NoEventFees
<1>15. FeesToCover(s, E, a)
         = LeavesLock("fees", o, a, L) + EventsLock("fees", o, a, E)
  BY DEF FeesToCover, L, o
<1> QED BY <1>13, <1>14, <1>15

-----------------------------------------------------------------------------
(* Events are handed to their accounts one by one. *)

\* The handled indexes below an index.
Lower(T, i) == {j \in T : j < i}

\* The members of a finite set of numbers are counted from the lowest.
LEMMA PlacesCounted ==
  ASSUME NEW T \in SUBSET Nat, IsFiniteSet(T)
  PROVE  /\ Cardinality(T) \in Nat
         /\ \A i \in T : Cardinality(Lower(T, i)) \in 0 .. Cardinality(T) - 1
         /\ \A i, j \in T : Cardinality(Lower(T, i)) = Cardinality(Lower(T, j)) => i = j
         /\ \A n \in 0 .. Cardinality(T) - 1 : \E i \in T : Cardinality(Lower(T, i)) = n
<1> DEFINE size == Cardinality(T)
           rank == [i \in T |-> Cardinality(Lower(T, i))]
           Ranks == 0 .. size - 1
<1>1. size \in Nat
  BY FS_CardinalityType
<1>2. ASSUME NEW i \in T
      PROVE  IsFiniteSet(Lower(T, i)) /\ rank[i] \in Nat
  <2>1. Lower(T, i) \in SUBSET T
    BY DEF Lower
  <2>2. IsFiniteSet(Lower(T, i))
    BY <2>1, FS_Subset
  <2> QED BY <2>2, FS_CardinalityType
<1>3. ASSUME NEW i \in T, NEW S, S \in SUBSET T, Lower(T, i) \subseteq S, i \in S
      PROVE  /\ IsFiniteSet(S) /\ Cardinality(S) \in Nat
             /\ Cardinality(Lower(T, i)) < Cardinality(S)
  <2>1. IsFiniteSet(S)
    BY <1>3, FS_Subset
  <2>2. i \notin Lower(T, i)
    BY DEF Lower
  <2>3. Lower(T, i) \in SUBSET S /\ S # Lower(T, i)
    BY <1>3, <2>2
  <2>4. /\ Cardinality(Lower(T, i)) <= Cardinality(S)
        /\ Cardinality(S) = Cardinality(Lower(T, i)) => S = Lower(T, i)
    BY <2>1, <2>3, FS_Subset
  <2>5. Cardinality(S) \in Nat
    BY <2>1, FS_CardinalityType
  <2>6. Cardinality(Lower(T, i)) \in Nat
    BY <1>2
  <2> DEFINE x == Cardinality(Lower(T, i))
             y == Cardinality(S)
  <2>7. x # y
    BY <2>3, <2>4
  <2>8. x \in Nat /\ y \in Nat /\ x <= y
    BY <2>4, <2>5, <2>6
  <2> HIDE DEF x, y
  <2>9. x < y
    BY <2>7, <2>8
  <2> QED BY <2>1, <2>5, <2>9 DEF x, y
<1>4. ASSUME NEW i \in T PROVE rank[i] \in Ranks
  <2>1. Lower(T, i) \subseteq T
    BY DEF Lower
  <2>2. Cardinality(Lower(T, i)) < Cardinality(T)
    BY <1>3, <2>1
  <2> QED BY <1>1, <1>2, <2>2
<1>5. ASSUME NEW i \in T, NEW j \in T, i < j PROVE rank[i] < rank[j]
  <2>1. Lower(T, i) \subseteq Lower(T, j) /\ i \in Lower(T, j) /\ Lower(T, j) \in SUBSET T
    <3>1. i \in Nat /\ j \in Nat /\ \A x \in T : x \in Nat
      OBVIOUS
    <3>2. \A x \in T : x < i => x < j
      BY <1>5, <3>1
    <3> QED BY <1>5, <3>2 DEF Lower
  <2>2. Cardinality(Lower(T, i)) < Cardinality(Lower(T, j))
    BY <1>3, <2>1
  <2> QED BY <2>2
<1>6. \A i, j \in T : rank[i] = rank[j] => i = j
  <2> SUFFICES ASSUME NEW i \in T, NEW j \in T, rank[i] = rank[j] PROVE i = j
    OBVIOUS
  <2>1. rank[i] \in Nat /\ rank[j] \in Nat
    BY <1>2
  <2>2. i < j \/ j < i \/ i = j
    OBVIOUS
  <2> HIDE DEF rank
  <2> QED BY <1>5, <2>1, <2>2
<1>7. rank \in [T -> Ranks]
  BY <1>4
<1> HIDE DEF rank
<1>8. rank \in Injection(T, Ranks)
  BY <1>6, <1>7 DEF Injection, IsInjective
<1>9. IsFiniteSet(Ranks) /\ Cardinality(Ranks) = size
  <2>1. 0 \in Int /\ size - 1 \in Int
    BY <1>1
  <2> DEFINE top == size - 1
  <2>2. top \in Int /\ (IF 0 > top THEN 0 ELSE top - 0 + 1) = size
    BY <1>1
  <2> HIDE DEF top
  <2>3. /\ IsFiniteSet(0 .. top)
        /\ Cardinality(0 .. top) = IF 0 > top THEN 0 ELSE top - 0 + 1
    BY <2>2, FS_Interval
  <2> QED BY <2>2, <2>3 DEF top
<1> HIDE DEF size, Ranks
<1>10. rank \in Surjection(T, Ranks)
  <2>1. /\ IsFiniteSet(T) /\ Cardinality(T) <= Cardinality(Ranks)
        /\ (Cardinality(T) = Cardinality(Ranks) <=> rank \in Surjection(T, Ranks))
    BY <1>8, <1>9, FS_Injection
  <2> QED BY <1>9, <2>1 DEF size
<1>11. \A n \in Ranks : \E i \in T : rank[i] = n
  BY <1>10 DEF Surjection
<1>12. \A i \in T : rank[i] = Cardinality(Lower(T, i))
  BY DEF rank
<1>13. Cardinality(T) = size
  BY DEF size
<1> QED BY <1>1, <1>4, <1>6, <1>11, <1>12, <1>13 DEF Ranks

\* The events that wait besides those at the given positions.
Rest(handled) == [i \in DOMAIN heap \ handled |-> heap[i]]

\* The heap without events at some positions is what waits besides them, in
\* the order of the positions.
LEMMA RemainingFacts ==
  ASSUME HeapOk(heap), NEW handled, NEW F, F = Remaining(handled), NEW E, E = Rest(handled)
  PROVE  HeapOk(F) /\ Len(F) <= Len(heap) /\ \E f : Renames(f, F, E)
<1> DEFINE T == DOMAIN heap \ handled
           size == Cardinality(T)
           at == [k \in 1 .. size |-> CHOOSE i \in T : Cardinality(Lower(T, i)) = k - 1]
<1>1. /\ heap \in Seq(EventValues) /\ Len(heap) \in Nat /\ Len(heap) <= MAX_NUM_EVENTS
      /\ DOMAIN heap = 1 .. Len(heap)
  BY DEF HeapOk
<1>2. F = [k \in 1 .. size |-> heap[at[k]]]
  BY DEF Remaining, Lower
<1>3. E = [i \in T |-> heap[i]]
  BY DEF Rest
<1>4. T \in SUBSET (1 .. Len(heap)) /\ T \in SUBSET Nat
  BY <1>1
<1> HIDE DEF T
<1>5. IsFiniteSet(T) /\ size <= Len(heap)
  <2> DEFINE n == Len(heap)
  <2>1. 1 \in Int /\ n \in Int /\ (IF 1 > n THEN 0 ELSE n - 1 + 1) = n
    BY <1>1
  <2> HIDE DEF n
  <2>2. IsFiniteSet(1 .. n) /\ Cardinality(1 .. n) = IF 1 > n THEN 0 ELSE n - 1 + 1
    BY <2>1, FS_Interval
  <2>3. T \in SUBSET (1 .. n)
    BY <1>4 DEF n
  <2>4. IsFiniteSet(T) /\ Cardinality(T) <= Cardinality(1 .. n)
    BY <2>2, <2>3, FS_Subset
  <2> QED BY <2>1, <2>2, <2>4 DEF n
<1>6. /\ Cardinality(T) \in Nat
      /\ \A i \in T : Cardinality(Lower(T, i)) \in 0 .. Cardinality(T) - 1
      /\ \A i, j \in T : Cardinality(Lower(T, i)) = Cardinality(Lower(T, j)) => i = j
      /\ \A n \in 0 .. Cardinality(T) - 1 : \E i \in T : Cardinality(Lower(T, i)) = n
  BY <1>4, <1>5, PlacesCounted
<1>7. ASSUME NEW k \in 1 .. size
      PROVE  at[k] \in T /\ Cardinality(Lower(T, at[k])) = k - 1
  <2>1. k - 1 \in 0 .. Cardinality(T) - 1
    BY <1>6
  <2>2. \E i \in T : Cardinality(Lower(T, i)) = k - 1
    BY <1>6, <2>1
  <2>3. at[k] = CHOOSE i \in T : Cardinality(Lower(T, i)) = k - 1
    OBVIOUS
  <2> HIDE DEF at
  <2> QED BY <2>2, <2>3
<1>8. DOMAIN at = 1 .. size /\ at \in [1 .. size -> T]
  <2>1. \A k \in 1 .. size : at[k] \in T
    BY <1>7
  <2> QED BY <2>1
<1>9. size \in Nat
  BY <1>6
<1> HIDE DEF at
<1>10. \A k \in 1 .. size : heap[at[k]] \in EventValues
  <2>1. \A i \in T : heap[i] \in EventValues
    BY <1>1, <1>4
  <2> QED BY <1>7, <2>1
<1>11. \A i, j \in 1 .. size : at[i] = at[j] => i = j
  <2> SUFFICES ASSUME NEW i \in 1 .. size, NEW j \in 1 .. size, at[i] = at[j] PROVE i = j
    OBVIOUS
  <2>1. i - 1 = j - 1
    BY <1>7
  <2> QED BY <1>9, <2>1
<1>12. \A i \in T : \E j \in 1 .. size : at[j] = i
  <2> SUFFICES ASSUME NEW i \in T PROVE \E j \in 1 .. size : at[j] = i
    OBVIOUS
  <2> DEFINE n == Cardinality(Lower(T, i))
  <2>1. n \in 0 .. size - 1
    BY <1>6
  <2> HIDE DEF n
  <2>2. n + 1 \in 1 .. size /\ (n + 1) - 1 = n
    BY <1>9, <2>1
  <2>3. at[n + 1] \in T /\ Cardinality(Lower(T, at[n + 1])) = n
    BY <1>7, <2>2
  <2>4. at[n + 1] = i
    BY <1>6, <2>3 DEF n
  <2> QED BY <2>2, <2>4
<1> HIDE DEF size
<1>13. Renames(at, F, E)
  <2>1. DOMAIN F = 1 .. size /\ DOMAIN E = T
    BY <1>2, <1>3
  <2>2. \A j \in 1 .. size : F[j] = E[at[j]]
    BY <1>2, <1>3, <1>7
  <2> QED BY <1>8, <1>11, <1>12, <2>1, <2>2 DEF Renames
<1>14. F \in Seq(EventValues) /\ Len(F) = size
  BY <1>2, <1>9, <1>10
<1>15. size <= Len(heap) /\ size <= MAX_NUM_EVENTS
  <2>1. size <= Len(heap)
    BY <1>5 DEF size
  <2>2. MAX_NUM_EVENTS \in Int
    BY OrderbookAssumption
  <2> QED BY <1>1, <1>9, <2>1, <2>2
<1> QED BY <1>13, <1>14, <1>15 DEF HeapOk

\* One position of consume_events.
ConsumeNextOf(limit, accs, c, i) ==
  IF \/ i \notin DOMAIN heap \ c.seen \/ ~c.s.ok
     \/ Cardinality(c.seen) = Min({limit, MAX_EVENTS_CONSUME})
  THEN c
  ELSE IF AccountOf(heap[i]) \notin accs THEN [c EXCEPT !.seen = @ \cup {i}]
  ELSE [s |-> Consume(c.s, heap[i]), seen |-> c.seen \cup {i},
        handled |-> c.handled \cup {i}]

\* Consuming events as an instance of the recursion: where it starts ...
ConsumeFirst(q) == [s |-> q.s, seen |-> {}, handled |-> {}]

\* ... and one event handled.
ConsumeRound(q, c, i) == With(c, LAMBDA d : ConsumeNextOf(q.limit, q.accs, d, q.order[i]))

\* The instance whose fold these operators define.
Consuming == INSTANCE Recursion WITH Start <- ConsumeFirst, Step <- ConsumeRound, Pick <- Max

\* What has been consumed so far: nothing twice, and what is left is as it was.
ConsumedOk(c) ==
  /\ c = [s |-> c.s, seen |-> c.seen, handled |-> c.handled]
  /\ c.handled \subseteq c.seen
  /\ IsState(c.s) /\ c.s.ok \in BOOLEAN
  /\ c.s.ok =>
       /\ Sane(c.s, Rest(c.handled), 0, 0, NoLock, Totals(mkt))
       /\ c.s.heap = heap /\ c.s.book = book
       /\ c.s.mkt.time_expiry = mkt.time_expiry /\ c.s.mkt.closed = mkt.closed
       /\ \A x \in Accounts : c.s.oo[x].open = oo[x].open

\* What waits besides one more event.
LEMMA RestMinus ==
  ASSUME NEW handled, NEW i
  PROVE  Minus(Rest(handled), i) = Rest(handled \cup {i})
<1>1. DOMAIN Rest(handled) = DOMAIN heap \ handled
  BY DEF Rest
<1>2. DOMAIN heap \ (handled \cup {i}) = (DOMAIN heap \ handled) \ {i}
  OBVIOUS
<1>3. \A j \in (DOMAIN heap \ handled) \ {i} : Rest(handled)[j] = heap[j]
  BY DEF Rest
<1>4. Minus(Rest(handled), i) = [j \in (DOMAIN heap \ handled) \ {i} |-> heap[j]]
  BY <1>1, <1>3 DEF Minus
<1>5. Rest(handled \cup {i}) = [j \in (DOMAIN heap \ handled) \ {i} |-> heap[j]]
  BY <1>2 DEF Rest
<1> QED BY <1>4, <1>5

\* Each position consumes an event, or none.
LEMMA ConsumeNextOk ==
  ASSUME NEW c, ConsumedOk(c), NEW limit, NEW accs, NEW i, NEW r, r = ConsumeNextOf(limit, accs, c, i)
  PROVE  ConsumedOk(r)
<1>0. /\ c = [s |-> c.s, seen |-> c.seen, handled |-> c.handled]
      /\ c.handled \subseteq c.seen
      /\ IsState(c.s) /\ c.s.ok \in BOOLEAN
      /\ c.s.ok =>
           /\ Sane(c.s, Rest(c.handled), 0, 0, NoLock, Totals(mkt))
           /\ c.s.heap = heap /\ c.s.book = book
           /\ c.s.mkt.time_expiry = mkt.time_expiry /\ c.s.mkt.closed = mkt.closed
           /\ \A x \in Accounts : c.s.oo[x].open = oo[x].open
  BY DEF ConsumedOk
<1> DEFINE stops == \/ i \notin DOMAIN heap \ c.seen \/ ~c.s.ok
                    \/ Cardinality(c.seen) = Min({limit, MAX_EVENTS_CONSUME})
           missing == AccountOf(heap[i]) \notin accs
           seen == c.seen \cup {i}
           handled == c.handled \cup {i}
           t == Consume(c.s, heap[i])
<1>1. CASE stops
  <2>1. r = c
    BY <1>1 DEF ConsumeNextOf
  <2> QED BY <2>1
<1>2. CASE ~stops /\ missing
  <2>1. r = [c EXCEPT !.seen = seen]
    BY <1>2 DEF ConsumeNextOf
  <2> HIDE DEF stops, missing
  <2>2. c.handled \subseteq seen
    BY <1>0
  <2> HIDE DEF seen
  <2>3. /\ r.s = c.s /\ r.handled = c.handled /\ r.seen = seen
        /\ r = [s |-> r.s, seen |-> r.seen, handled |-> r.handled]
    BY <1>0, <2>1
  <2> QED BY <1>0, <2>2, <2>3 DEF ConsumedOk
<1>3. CASE ~stops /\ ~missing
  <2>1. r = [s |-> t, seen |-> seen, handled |-> handled]
    BY <1>3 DEF ConsumeNextOf
  <2>2. i \in DOMAIN heap /\ i \notin c.seen /\ c.s.ok
    BY <1>3
  <2>3. i \in DOMAIN Rest(c.handled) /\ heap[i] = Rest(c.handled)[i]
    BY <1>0, <2>2 DEF Rest
  <2>4. PICK E : E = Rest(c.handled)
    OBVIOUS
  <2>5. PICK e : e = heap[i]
    OBVIOUS
  <2>6. PICK s : s = c.s
    OBVIOUS
  <2>7. t = Consume(s, e)
    BY <2>5, <2>6
  <2> HIDE DEF t, stops, missing
  <2>8. /\ IsState(s) /\ Sane(s, E, 0, 0, NoLock, Totals(mkt)) /\ i \in DOMAIN E /\ e = E[i]
    BY <1>0, <2>2, <2>3, <2>4, <2>5, <2>6
  <2>9. /\ Settled(s, t)
        /\ t.ok => Sane(t, Minus(E, i), 0, 0, NoLock, Totals(mkt))
    BY <2>7, <2>8, EventConsumed
  <2>10. Minus(E, i) = Rest(handled)
    BY <2>4, RestMinus
  <2>11. handled \subseteq seen
    BY <1>0
  <2> HIDE DEF handled, seen
  <2>12. /\ r.s = t /\ r.seen = seen /\ r.handled = handled
         /\ r = [s |-> r.s, seen |-> r.seen, handled |-> r.handled]
    BY <2>1
  <2>13. /\ IsState(t) /\ t.ok \in BOOLEAN
         /\ t.heap = s.heap /\ t.book = s.book
         /\ t.mkt.time_expiry = s.mkt.time_expiry /\ t.mkt.closed = s.mkt.closed
         /\ \A x \in Accounts : t.oo[x].open = s.oo[x].open
    BY <2>9 DEF Settled
  <2>14. /\ s.heap = heap /\ s.book = book
         /\ s.mkt.time_expiry = mkt.time_expiry /\ s.mkt.closed = mkt.closed
         /\ \A x \in Accounts : s.oo[x].open = oo[x].open
    BY <1>0, <2>2, <2>6
  <2>15. /\ t.ok => Sane(t, Rest(handled), 0, 0, NoLock, Totals(mkt))
         /\ t.heap = heap /\ t.book = book
         /\ t.mkt.time_expiry = mkt.time_expiry /\ t.mkt.closed = mkt.closed
         /\ \A x \in Accounts : t.oo[x].open = oo[x].open
    BY <2>9, <2>10, <2>13, <2>14
  <2> QED BY <2>11, <2>12, <2>13, <2>15 DEF ConsumedOk
<1> QED BY <1>1, <1>2, <1>3

\* The fold over the positions in the order given.
ConsumeOver(limit, accs, s, order) ==
  FoldLeft(LAMBDA c, i : With(c, LAMBDA d : ConsumeNextOf(limit, accs, d, i)),
           [s |-> s, seen |-> {}, handled |-> {}], order)

\* It is a fold over the places in that order.
LEMMA ConsumeOverIs ==
  ASSUME NEW limit, NEW accs, NEW s, NEW order
  PROVE  LET q == [s |-> s, limit |-> limit, accs |-> accs, order |-> order]
         IN  ConsumeOver(limit, accs, s, order) = Consuming!Fold(q, DOMAIN order)
BY DEF ConsumeOver, FoldLeft, MapThenFoldSet, Consuming!Fold, ConsumeFirst, ConsumeRound, With

-----------------------------------------------------------------------------
(* A market in which nothing has happened. *)

\* Nothing waits, nothing is on the book, and nobody has anything at stake.
AllNew(s) ==
  /\ s.mkt \in MarketValues /\ s.mkt.seq_num = 0
  /\ s.mkt.base_deposit_total = 0 /\ s.mkt.quote_deposit_total = 0
  /\ s.mkt.referrer_rebates_accrued = 0 /\ s.mkt.fees_available = 0
  /\ s.oo = [a \in Accounts |-> EmptyAccount]
  /\ s.book = [side \in Sides |-> EmptySide]
  /\ s.heap = << >>

\* A new account is owed nothing.
LEMMA NothingOwed ==
  ASSUME NEW unit \in Units, NEW accs, accs = [a \in Accounts |-> EmptyAccount]
  PROVE  OwedToAll(unit, accs) = 0
<1>1. OwedTo(unit, EmptyAccount) = 0
  <2>1. AllZero(EmptyAccount)
    BY NewAccountFacts
  <2>2. 0 * base_lot_size = 0 /\ 0 * quote_lot_size = 0
    <3>1. base_lot_size \in Nat /\ quote_lot_size \in Nat
      BY FeeAssumption
    <3> QED BY <3>1
  <2> QED BY <2>1, <2>2 DEF AllZero, OwedTo, Units
<1> DEFINE g == [a \in Accounts |-> OwedTo(unit, accs[a])]
<1>2. \A a \in Accounts : g[a] = 0
  BY <1>1
<1>3. OwedToAll(unit, accs) = SumFunctionOnSet(g, Accounts)
  BY DEF OwedToAll
<1>4. IsFiniteSet(Accounts)
  BY OpenBookAssumption
<1> HIDE DEF g
<1>5. SumFunctionOnSet(g, Accounts) = 0
  BY <1>2, <1>4, SumOfZeros
<1> QED BY <1>3, <1>5

\* Nothing is locked or due without leaves and events.
LEMMA NothingLocked ==
  ASSUME NEW E, DOMAIN E = {}, NEW kind, NEW o, NEW a, NEW unit
  PROVE  /\ LeavesLock(kind, o, a, {}) = 0 /\ EventsLock(kind, o, a, E) = 0
         /\ DueToAll(unit, E) = 0
<1>1. IsFiniteSet({})
  BY FS_EmptySet
<1>2. \A g : SumFunctionOnSet(g, {}) = 0
  BY <1>1, SumValues
<1>3. LeavesLock(kind, o, a, {}) = 0
  BY <1>2 DEF LeavesLock
<1>4. EventsLock(kind, o, a, E) = 0
  BY <1>2 DEF EventsLock
<1>5. DueToAll(unit, E) = 0
  BY <1>2 DEF DueToAll
<1> QED BY <1>3, <1>4, <1>5

\* An empty side of the book.
LEMMA EmptySideOk ==
  /\ SideOk(EmptySide, 0) /\ EmptySide.leaves = {}
<1>1. EmptySide.leaves = {} /\ EmptySide.bump = 0
  BY DEF EmptySide
<1>2. \A tree : LeavesOf(EmptySide, tree) = {}
  BY <1>1 DEF LeavesOf
<1>3. IsFiniteSet({}) /\ Cardinality({}) = 0
  BY FS_EmptySet
<1>4. NodesOfTree(0) = 0
  BY DEF NodesOfTree
<1>5. UsedNodes(EmptySide) = 0
  BY <1>2, <1>3, <1>4 DEF UsedNodes
<1>6. 0 \in 0 .. MAX_ORDERTREE_NODES
  BY BookSideAssumption
<1>7. EmptySide \in [leaves : SUBSET LeafValues, bump : 0 .. MAX_ORDERTREE_NODES]
  BY <1>6 DEF EmptySide
<1> QED BY <1>1, <1>3, <1>5, <1>7 DEF SideOk

\* New accounts, in their own right and as the owners of orders.
LEMMA NewAccounts ==
  ASSUME NEW accs, accs = [a \in Accounts |-> EmptyAccount]
  PROVE  /\ AccountsOk(accs, 0)
         /\ \A a \in Accounts : accs[a] = EmptyAccount /\ accs[a].open
         /\ \A p \in Places : OrdersOf(accs)[p].id = 0
<1>1. /\ EmptyAccount \in AccountValues /\ AllZero(EmptyAccount) /\ EmptyAccount.open
      /\ \A slot \in OrderSlots : EmptyAccount.open_orders[slot].id = 0
  BY NewAccountFacts
<1>2. Sound(EmptyAccount)
  BY <1>1 DEF AllZero, Sound
<1>3. \A a \in Accounts : accs[a] = EmptyAccount
  OBVIOUS
<1>4. \A p \in Places : OrdersOf(accs)[p].id = 0
  <2> SUFFICES ASSUME NEW p \in Places PROVE OrdersOf(accs)[p].id = 0
    OBVIOUS
  <2>1. p[1] \in Accounts /\ p[2] \in OrderSlots
    BY DEF Places
  <2>2. OrdersOf(accs)[p] = accs[p[1]].open_orders[p[2]]
    BY DEF OrdersOf
  <2> QED BY <1>1, <1>3, <2>1, <2>2
<1>5. accs \in [Accounts -> AccountValues]
  BY <1>1
<1>6. AccountsOk(accs, 0)
  BY <1>2, <1>3, <1>4, <1>5 DEF AccountsOk
<1> QED BY <1>1, <1>3, <1>4, <1>6

\* The invariant of a market where everything is new.
LEMMA AllNewSane ==
  ASSUME NEW s, AllNew(s)
  PROVE  Sane(s, s.heap, 0, 0, NoLock, Totals(s.mkt))
<1>0. /\ s.mkt \in MarketValues /\ s.mkt.seq_num = 0
      /\ s.mkt.base_deposit_total = 0 /\ s.mkt.quote_deposit_total = 0
      /\ s.mkt.referrer_rebates_accrued = 0 /\ s.mkt.fees_available = 0
      /\ s.oo = [a \in Accounts |-> EmptyAccount]
      /\ s.book = [side \in Sides |-> EmptySide]
      /\ s.heap = << >>
  BY DEF AllNew
<1> DEFINE accs == s.oo
           o == OrdersOf(accs)
           E == s.heap
           L == AllLeaves(s.book)
           w == Totals(s.mkt)
<1>1. w.ids = 0 /\ TotalsOk(s.mkt, w)
  BY <1>0 DEF Totals, TotalsOk
<1>2. /\ AccountsOk(accs, 0)
      /\ \A a \in Accounts : accs[a] = EmptyAccount /\ accs[a].open
      /\ \A p \in Places : o[p].id = 0
  BY <1>0, NewAccounts
<1>3. L = {} /\ BookOk(s.book, o, 0)
  <2>1. SideOk(EmptySide, 0) /\ EmptySide.leaves = {}
    BY EmptySideOk
  <2>2. "Bid" \in Sides /\ "Ask" \in Sides
    BY DEF Sides
  <2> HIDE DEF o
  <2>3. \A side \in Sides : s.book[side] = EmptySide
    BY <1>0
  <2>4. L = {}
    BY <2>1, <2>2, <2>3 DEF AllLeaves
  <2>5. s.book = [side \in Sides |-> s.book[side]]
    BY <1>0
  <2> QED BY <2>1, <2>3, <2>4, <2>5 DEF BookOk
<1>4. DOMAIN E = {} /\ HeapOk(s.heap) /\ EventsOk(E)
  <2>1. 1 .. 0 = {} /\ Len(<< >>) = 0 /\ << >> \in Seq(EventValues) /\ DOMAIN << >> = {}
    OBVIOUS
  <2>2. IsFiniteSet({})
    BY FS_EmptySet
  <2>3. MAX_NUM_EVENTS \in Nat
    BY OrderbookAssumption
  <2> QED BY <1>0, <2>1, <2>2, <2>3 DEF HeapOk, EventsOk
<1> HIDE DEF o, L, w
<1>5. LeavesClaim(o, L) /\ EventsClaim(o, L, E) /\ OrdersClaimed(o, L, E)
  BY <1>2, <1>3, <1>4 DEF LeavesClaim, EventsClaim, OrdersClaimed
<1>6. OwnersOpen(accs, L, E)
  BY <1>2, <1>3, <1>4 DEF OwnersOpen
<1>7. Claims(accs, L, E)
  BY <1>5, <1>6 DEF Claims, o
<1>8. Covered(accs, L, E, NoLock)
  <2> SUFFICES ASSUME NEW a \in Accounts, NEW kind \in Kinds
               PROVE  Covers(kind, Held(kind, accs[a]) - (IF kind = "fees" THEN NoLock[a] ELSE 0),
                             LeavesLock(kind, OrdersOf(accs), a, L)
                             + EventsLock(kind, OrdersOf(accs), a, E))
    BY DEF Covered
  <2>1. LeavesLock(kind, OrdersOf(accs), a, L) = 0 /\ EventsLock(kind, OrdersOf(accs), a, E) = 0
    BY <1>3, <1>4, NothingLocked
  <2>2. Held(kind, accs[a]) = 0
    <3>1. AllZero(EmptyAccount)
      BY NewAccountFacts
    <3>2. Held(kind, EmptyAccount) = 0
      BY <3>1 DEF AllZero, Held, Kinds
    <3> QED BY <1>2, <3>2
  <2>3. NoLock[a] = 0
    BY DEF NoLock
  <2> QED BY <2>1, <2>2, <2>3 DEF Covers
<1>9. Funds(s.mkt, accs, E, 0, 0)
  <2>1. "base" \in Units /\ "quote" \in Units /\ "rebates" \in Units
    BY DEF Units
  <2>2. \A unit \in Units : OwedToAll(unit, accs) = 0
    BY <1>0, NothingOwed
  <2>3. \A unit \in Units : DueToAll(unit, E) = 0
    BY <1>4, NothingLocked
  <2>4. \A unit \in Units : Owed(unit, accs, E) = 0
    BY <2>2, <2>3 DEF Owed
  <2> QED BY <1>0, <2>1, <2>4 DEF Funds
<1>10. NoLock \in [Accounts -> Nat] /\ 0 \in Int
  BY DEF NoLock
<1> QED BY <1>1, <1>2, <1>3, <1>4, <1>7, <1>8, <1>9, <1>10 DEF Sane, L, o, w
=====================================================================

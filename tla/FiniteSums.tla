----------------------------- MODULE FiniteSums ----------------------------
(***************************************************************************)
(* Induction over the natural numbers, and sums over finite sets: the      *)
(* facts that the proofs about ledgers, manifests and caches share.        *)
(***************************************************************************)
EXTENDS Integers, FiniteSets, FiniteSetsExt, FiniteSetTheorems, WellFoundedInduction, TLAPS

\* A set of numbers that is not empty has a least one.
LEMMA Least ==
    ASSUME NEW S, S \subseteq Nat, S # {}
    PROVE  \E x \in S : \A y \in S : x <= y
<1> DEFINE R == OpToRel(<, Nat)
<1>1. PICK x \in S : \A y \in S : ~(<<y, x>> \in R)
  <2>1. IsWellFoundedOn(R, Nat)
    BY NatLessThanWellFounded, Zenon
  <2> HIDE DEF R
  <2> QED BY <2>1, WFMin
<1>2. \A y \in S : ~(y < x)
  BY <1>1 DEF OpToRel
<1> QED BY <1>2

\* A set of numbers with 0 in it, and the next of each, has every number.
LEMMA SetInduction ==
    ASSUME NEW S, 0 \in S, \A n \in Nat : n \in S => n + 1 \in S
    PROVE  Nat \subseteq S
<1> SUFFICES ASSUME Nat \ S # {} PROVE FALSE
    OBVIOUS
<1> DEFINE T == Nat \ S
<1>1. PICK x \in T : \A y \in T : x <= y
  <2>1. T \subseteq Nat /\ T # {}
    OBVIOUS
  <2> HIDE DEF T
  <2> QED BY <2>1, Least
<1>2. x # 0 /\ x - 1 \in Nat
  OBVIOUS
<1>3. x - 1 \in S
  BY <1>1, <1>2
<1> QED BY <1>2, <1>3

\* The sum of f over S, as the specifications write it.
SumOf(f, S) == MapThenSumSet(LAMBDA x : f[x], S)

One(s) == CHOOSE x \in s : TRUE

\* The sums over the sets of the family D, which has with a set the set without its one.
Adds(f, D, it) == it = [s \in D |-> IF s = {} THEN 0 ELSE f[One(s)] + it[s \ {One(s)}]]

\* The sum is what the recursion of MapThenFoldSet gives for S.
LEMMA SumOfDef ==
    ASSUME NEW f, NEW S
    PROVE  SumOf(f, S) = (CHOOSE it : Adds(f, SUBSET S, it))[S]
BY DEF SumOf, MapThenSumSet, MapThenFoldSet, Adds, One

\* A family of finite sets with the empty set in it, and each set whose every set
\* without one element it has, has every finite set.
LEMMA FiniteInduction ==
    ASSUME NEW Z, NEW S, IsFiniteSet(S), {} \in Z,
           \A T \in SUBSET S : T # {} /\ (\A x \in T : T \ {x} \in Z) => T \in Z
    PROVE  SUBSET S \subseteq Z
<1> DEFINE N == {n \in Nat : \A T \in SUBSET S : Cardinality(T) = n => T \in Z}
<1>1. 0 \in N
  <2> SUFFICES ASSUME NEW T \in SUBSET S, Cardinality(T) = 0 PROVE T \in Z
      OBVIOUS
  <2>1. IsFiniteSet(T)
      BY FS_Subset
  <2>2. T = {}
      BY <2>1, FS_EmptySet
  <2> QED BY <2>2
<1>2. ASSUME NEW n \in Nat, n \in N PROVE n + 1 \in N
  <2> SUFFICES ASSUME NEW T \in SUBSET S, Cardinality(T) = n + 1 PROVE T \in Z
      OBVIOUS
  <2>1. IsFiniteSet(T)
      BY FS_Subset
  <2>2. T # {}
    <3>1. Cardinality(T) # 0
        OBVIOUS
    <3> QED BY <3>1, FS_EmptySet
  <2>3. ASSUME NEW x \in T PROVE T \ {x} \in Z
    <3>1. Cardinality(T \ {x}) = Cardinality(T) - 1
        BY <2>1, FS_RemoveElement
    <3>2. Cardinality(T \ {x}) = n /\ T \ {x} \in SUBSET S
        BY <3>1
    <3> QED BY <1>2, <3>2
  <2> QED BY <2>2, <2>3
<1>3. Nat \subseteq N
  <2> HIDE DEF N
  <2> QED BY <1>1, <1>2, SetInduction
<1> SUFFICES ASSUME NEW T \in SUBSET S PROVE T \in Z
    OBVIOUS
<1>4. Cardinality(T) \in Nat
    BY FS_Subset, FS_CardinalityType
<1> QED BY <1>3, <1>4

\* A set that is not empty has its one.
LEMMA OneIn ==
    ASSUME NEW s, s # {}
    PROVE  One(s) \in s
BY DEF One

\* There are such sums, over the subsets of a finite set.
LEMMA AddsExist ==
    ASSUME NEW f, NEW S, IsFiniteSet(S)
    PROVE  \E it : Adds(f, SUBSET S, it)
<1> DEFINE Upto(n) == {s \in SUBSET S : Cardinality(s) <= n}
           N == {n \in Nat : \E it : Adds(f, Upto(n), it)}
<1>0. ASSUME NEW s \in SUBSET S
      PROVE  /\ Cardinality(s) \in Nat /\ IsFiniteSet(s) /\ (Cardinality(s) = 0 <=> s = {})
             /\ s # {} => Cardinality(s \ {One(s)}) = Cardinality(s) - 1
  <2>1. IsFiniteSet(s)
      BY FS_Subset
  <2>2. Cardinality(s) \in Nat /\ (Cardinality(s) = 0 <=> s = {})
      BY <2>1, FS_CardinalityType, FS_EmptySet
  <2>3. s # {} => Cardinality(s \ {One(s)}) = Cardinality(s) - 1
      BY <2>1, OneIn, FS_RemoveElement
  <2> QED BY <2>1, <2>2, <2>3
<1>1. 0 \in N
  <2> DEFINE it == [s \in Upto(0) |-> 0]
  <2>1. ASSUME NEW s \in Upto(0) PROVE s = {}
    <3>1. Cardinality(s) <= 0 /\ s \in SUBSET S
        OBVIOUS
    <3>2. Cardinality(s) \in Nat
        BY <1>0, <3>1
    <3>3. Cardinality(s) = 0
        BY <3>1, <3>2
    <3> QED BY <1>0, <3>1, <3>3
  <2>2. it = [s \in Upto(0) |-> IF s = {} THEN 0 ELSE f[One(s)] + it[s \ {One(s)}]]
    <3> HIDE DEF Upto
    <3> QED BY <2>1
  <2>3. Adds(f, Upto(0), it)
    <3> HIDE DEF it, Upto
    <3> QED BY <2>2 DEF Adds
  <2> QED BY <2>3
<1>2. ASSUME NEW n \in Nat, n \in N PROVE n + 1 \in N
  <2>1. PICK it : Adds(f, Upto(n), it)
      BY <1>2
  <2> DEFINE V == [s \in Upto(n + 1) |-> IF s = {} THEN 0 ELSE f[One(s)] + it[s \ {One(s)}]]
  <2>2. ASSUME NEW s \in Upto(n) PROVE V[s] = it[s]
    <3>1. s \in Upto(n + 1)
      <4>1. Cardinality(s) <= n /\ s \in SUBSET S
          OBVIOUS
      <4>2. Cardinality(s) \in Nat
          BY <1>0, <4>1
      <4>3. Cardinality(s) <= n + 1
          BY <4>1, <4>2
      <4> QED BY <4>1, <4>3
    <3>2. it = [r \in Upto(n) |-> IF r = {} THEN 0 ELSE f[One(r)] + it[r \ {One(r)}]]
        BY <2>1 DEF Adds
    <3> HIDE DEF Upto
    <3> QED BY <3>1, <3>2
  <2>3. ASSUME NEW s \in Upto(n + 1), s # {} PROVE s \ {One(s)} \in Upto(n)
      BY <1>0, <2>3
  <2>4. V = [s \in Upto(n + 1) |-> IF s = {} THEN 0 ELSE f[One(s)] + V[s \ {One(s)}]]
    <3>1. ASSUME NEW s \in Upto(n + 1) PROVE V[s] = IF s = {} THEN 0 ELSE f[One(s)] + V[s \ {One(s)}]
      <4>1. CASE s = {}
          BY <4>1
      <4>2. CASE s # {}
        <5>1. V[s \ {One(s)}] = it[s \ {One(s)}]
            BY <2>2, <2>3, <4>2
        <5>2. V[s] = f[One(s)] + it[s \ {One(s)}]
          <6>1. s \in Upto(n + 1)
              BY <3>1
          <6> HIDE DEF Upto
          <6> QED BY <4>2, <6>1
        <5> QED BY <4>2, <5>1, <5>2
      <4> QED BY <4>1, <4>2
    <3> QED BY <3>1
  <2>5. Adds(f, Upto(n + 1), V)
      BY <2>4 DEF Adds
  <2> HIDE DEF V, Upto
  <2>6. n + 1 \in Nat /\ \E r : Adds(f, Upto(n + 1), r)
      BY <2>5
  <2> QED BY <2>6
<1>3. Nat \subseteq N
  <2> HIDE DEF N
  <2> QED BY <1>1, <1>2, SetInduction
<1>4. Upto(Cardinality(S)) = SUBSET S
    BY FS_Subset
<1>5. Cardinality(S) \in N
    BY <1>3, FS_CardinalityType
<1> QED BY <1>4, <1>5

\* f and g are the same on T.
Equal(f, g, T) == \A x \in T : f[x] = g[x]

\* The sums over the subsets of S are those over its subsets' subsets.
LEMMA AddsSame ==
    ASSUME NEW f, NEW g, NEW S, NEW T, IsFiniteSet(T), T \subseteq S, NEW it, NEW jt,
           Adds(f, SUBSET S, it), Adds(g, SUBSET T, jt), Equal(f, g, T)
    PROVE  \A s \in SUBSET T : it[s] = jt[s]
<1> DEFINE Z == {s \in SUBSET T : it[s] = jt[s]}
<1>1. ASSUME NEW s \in SUBSET T
      PROVE  /\ it[s] = IF s = {} THEN 0 ELSE f[One(s)] + it[s \ {One(s)}]
             /\ jt[s] = IF s = {} THEN 0 ELSE g[One(s)] + jt[s \ {One(s)}]
  <2>1. s \in SUBSET S
      OBVIOUS
  <2>2. it = [r \in SUBSET S |-> IF r = {} THEN 0 ELSE f[One(r)] + it[r \ {One(r)}]]
      BY DEF Adds
  <2>3. jt = [r \in SUBSET T |-> IF r = {} THEN 0 ELSE g[One(r)] + jt[r \ {One(r)}]]
      BY DEF Adds
  <2>4. it[s] = IF s = {} THEN 0 ELSE f[One(s)] + it[s \ {One(s)}]
      BY <2>1, <2>2
  <2>5. jt[s] = IF s = {} THEN 0 ELSE g[One(s)] + jt[s \ {One(s)}]
      BY <2>3
  <2> QED BY <2>4, <2>5
<1>2. {} \in Z
    BY <1>1
<1>3. ASSUME NEW s \in SUBSET T, s # {}, \A x \in s : s \ {x} \in Z PROVE s \in Z
  <2>1. One(s) \in s
      BY <1>3, OneIn
  <2>2. it[s \ {One(s)}] = jt[s \ {One(s)}] /\ f[One(s)] = g[One(s)]
      BY <1>3, <2>1 DEF Equal
  <2>3. it[s] = f[One(s)] + it[s \ {One(s)}] /\ jt[s] = g[One(s)] + jt[s \ {One(s)}]
      BY <1>1, <1>3
  <2> QED BY <2>2, <2>3
<1>4. SUBSET T \subseteq Z
  <2> HIDE DEF Z
  <2> QED BY <1>2, <1>3, FiniteInduction
<1> QED BY <1>4

\* A sum is its one element and the sum of the others.
LEMMA SumOne ==
    ASSUME NEW f, NEW S, IsFiniteSet(S)
    PROVE  /\ SumOf(f, {}) = 0
           /\ S # {} => SumOf(f, S) = f[One(S)] + SumOf(f, S \ {One(S)})
<1> DEFINE It(T) == CHOOSE it : Adds(f, SUBSET T, it)
<1>1. ASSUME NEW T, IsFiniteSet(T) PROVE Adds(f, SUBSET T, It(T)) /\ SumOf(f, T) = It(T)[T]
  <2>1. Adds(f, SUBSET T, It(T))
    <3>1. \E it : Adds(f, SUBSET T, it)
        BY <1>1, AddsExist
    <3> QED BY <3>1
  <2> QED BY <2>1, SumOfDef
<1> HIDE DEF It
<1>2. SumOf(f, {}) = 0
  <2>1. IsFiniteSet({})
      BY FS_EmptySet
  <2>2. It({}) = [s \in SUBSET {} |-> IF s = {} THEN 0 ELSE f[One(s)] + It({})[s \ {One(s)}]]
      BY <1>1, <2>1 DEF Adds
  <2>3. It({})[{}] = 0
      BY <2>2
  <2> QED BY <1>1, <2>1, <2>3
<1>3. ASSUME S # {} PROVE SumOf(f, S) = f[One(S)] + SumOf(f, S \ {One(S)})
  <2>1. PICK T : T = S \ {One(S)}
      OBVIOUS
  <2>2. IsFiniteSet(T) /\ T \subseteq S
      BY <2>1, FS_Subset
  <2>3. It(S) = [s \in SUBSET S |-> IF s = {} THEN 0 ELSE f[One(s)] + It(S)[s \ {One(s)}]]
      BY <1>1 DEF Adds
  <2>4. It(S)[S] = f[One(S)] + It(S)[T]
      BY <1>3, <2>1, <2>3
  <2>5. It(S)[T] = It(T)[T]
    <3>1. Adds(f, SUBSET S, It(S)) /\ Adds(f, SUBSET T, It(T))
        BY <1>1, <2>2
    <3>2. Equal(f, f, T)
        BY DEF Equal
    <3>3. \A s \in SUBSET T : It(S)[s] = It(T)[s]
        BY <2>2, <3>1, <3>2, AddsSame
    <3> QED BY <3>3
  <2> QED BY <1>1, <2>1, <2>2, <2>4, <2>5
<1> QED BY <1>2, <1>3

\* Functions that are the same on S have the same sum over it.
LEMMA SumSame ==
    ASSUME NEW f, NEW g, NEW S, IsFiniteSet(S), Equal(f, g, S)
    PROVE  SumOf(f, S) = SumOf(g, S)
<1>1. PICK it : Adds(f, SUBSET S, it) /\ SumOf(f, S) = it[S]
  <2>1. \E it : Adds(f, SUBSET S, it)
      BY AddsExist
  <2> QED BY <2>1, SumOfDef
<1>2. PICK jt : Adds(g, SUBSET S, jt) /\ SumOf(g, S) = jt[S]
  <2>1. \E jt : Adds(g, SUBSET S, jt)
      BY AddsExist
  <2> QED BY <2>1, SumOfDef
<1>3. S \in SUBSET S /\ S \subseteq S
    OBVIOUS
<1> QED BY <1>1, <1>2, <1>3, AddsSame

\* A sum of natural numbers is one.
LEMMA SumNat ==
    ASSUME NEW f, NEW S, IsFiniteSet(S), \A x \in S : f[x] \in Nat
    PROVE  SumOf(f, S) \in Nat
<1> DEFINE Z == {T \in SUBSET S : SumOf(f, T) \in Nat}
<1>1. {} \in Z
  <2>1. SumOf(f, {}) = 0
      BY SumOne
  <2> QED BY <2>1
<1>2. ASSUME NEW T \in SUBSET S, T # {}, \A x \in T : T \ {x} \in Z PROVE T \in Z
  <2>1. IsFiniteSet(T) /\ One(T) \in T
      BY <1>2, OneIn, FS_Subset
  <2>2. SumOf(f, T) = f[One(T)] + SumOf(f, T \ {One(T)})
      BY <1>2, <2>1, SumOne
  <2>3. f[One(T)] \in Nat /\ SumOf(f, T \ {One(T)}) \in Nat
      BY <1>2, <2>1
  <2>4. SumOf(f, T) \in Nat
      BY <2>2, <2>3
  <2> QED BY <2>4
<1>3. SUBSET S \subseteq Z
  <2> HIDE DEF Z
  <2> QED BY <1>1, <1>2, FiniteInduction
<1> QED BY <1>3

\* A sum is any of its elements and the sum of the others.
LEMMA SumAny ==
    ASSUME NEW f, NEW S, IsFiniteSet(S), \A x \in S : f[x] \in Nat
    PROVE  \A y \in S : SumOf(f, S) = f[y] + SumOf(f, S \ {y})
<1> DEFINE P(T) == \A y \in T : SumOf(f, T) = f[y] + SumOf(f, T \ {y})
           Z == {T \in SUBSET S : P(T)}
<1>1. {} \in Z
    OBVIOUS
<1>2. ASSUME NEW T \in SUBSET S, T # {}, \A x \in T : T \ {x} \in Z PROVE T \in Z
  <2>1. PICK x \in T : x = One(T)
      BY <1>2, OneIn
  <2>2. IsFiniteSet(T)
      BY FS_Subset
  <2>3. SumOf(f, T) = f[x] + SumOf(f, T \ {x})
      BY <1>2, <2>1, <2>2, SumOne
  <2>4. ASSUME NEW y \in T PROVE SumOf(f, T) = f[y] + SumOf(f, T \ {y})
    <3>1. CASE y = x
        BY <2>3, <3>1
    <3>2. CASE y # x
      <4>1. PICK R : R = (T \ {x}) \ {y}
          OBVIOUS
      <4>2. R = (T \ {y}) \ {x}
          BY <4>1
      <4>3. SumOf(f, T \ {x}) = f[y] + SumOf(f, R)
          BY <1>2, <3>2, <4>1
      <4>4. SumOf(f, T \ {y}) = f[x] + SumOf(f, R)
          BY <1>2, <3>2, <4>2
      <4>5. SumOf(f, R) \in Nat
        <5>1. IsFiniteSet(R) /\ R \subseteq S
            BY <4>1, FS_Subset
        <5> QED BY <5>1, SumNat
      <4>6. f[x] \in Nat /\ f[y] \in Nat
          OBVIOUS
      <4> QED BY <2>3, <4>3, <4>4, <4>5, <4>6
    <3> QED BY <3>1, <3>2
  <2>5. P(T)
      BY <2>4
  <2> QED BY <2>5
<1>3. SUBSET S \subseteq Z
  <2> HIDE DEF Z
  <2> QED BY <1>1, <1>2, FiniteInduction
<1>4. S \in Z
    BY <1>3
<1> QED BY <1>4
=============================================================================

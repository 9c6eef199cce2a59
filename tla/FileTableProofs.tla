-------------------------- MODULE FileTableProofs --------------------------
(***************************************************************************)
(* FileTable for every set of writes, contracts and readers: the state is  *)
(* well typed; manifests describe their files as long as publications and  *)
(* validations do not overlap; and a read keeps its contract as long as,   *)
(* besides, hashes tell rules apart, what runs at once is under rules that *)
(* agree, and contracts are registered again between queries.              *)
(***************************************************************************)
EXTENDS FileTable, FiniteSums

(***************************************************************************)
(* Rounding.                                                               *)
(***************************************************************************)
\* Division leaves less than the divisor.
LEMMA Quotient ==
    ASSUME NEW a \in Nat, NEW d \in Nat \ {0}
    PROVE  a \div d \in Int /\ d * (a \div d) <= a /\ a < d * (a \div d) + d
OBVIOUS

\* The quotient is the only number that leaves less than the divisor.
LEMMA OneQuotient ==
    ASSUME NEW d \in Nat \ {0}, NEW x \in Int, NEW y \in Int, d * x < d * y + d
    PROVE  x <= y
<1>1. SUFFICES ASSUME x >= y + 1 PROVE FALSE
    OBVIOUS
<1>2. d * (x - (y + 1)) >= 0
    BY <1>1
<1> QED BY <1>2

\* A part a of c, taken of b, is a part of b.
LEMMA RoundedPart ==
    ASSUME NEW a \in Nat, NEW b \in Nat, NEW c \in Nat \ {0}, a <= c
    PROVE  Rounded(a * b, c) \in 0 .. b
<1> DEFINE n == 2 * (a * b) + c
           q == n \div (2 * c)
<1>1. a * b \in Nat
    OBVIOUS
<1>2. a * b <= c * b
    OBVIOUS
<1>3. c * b \in Nat
    OBVIOUS
<1>4. n \in Nat /\ 2 * c \in Nat \ {0}
    BY <1>1
<1>5. q \in Int /\ (2 * c) * q <= n /\ n < (2 * c) * q + 2 * c
  <2> HIDE DEF n
  <2> QED BY <1>4, Quotient
<1>6. (2 * c) * b = 2 * (c * b) /\ (2 * c) * 0 = 0
    OBVIOUS
<1>7. (2 * c) * q < (2 * c) * b + 2 * c
  <2>1. n <= 2 * (c * b) + c
      BY <1>1, <1>2, <1>3
  <2>2. (2 * c) * q \in Int
      BY <1>5
  <2> HIDE DEF n, q
  <2> QED BY <1>3, <1>4, <1>5, <1>6, <2>1, <2>2
<1>8. (2 * c) * 0 < (2 * c) * q + 2 * c
  <2> HIDE DEF n, q
  <2> QED BY <1>4, <1>5, <1>6
<1>9. q <= b /\ 0 <= q
  <2> HIDE DEF q
  <2> QED BY <1>4, <1>5, <1>7, <1>8, OneQuotient
<1> QED BY <1>5, <1>9 DEF Rounded

\* A count is recovered from its rate, when there are fewer rows than steps of a rate.
LEMMA RoundedBack ==
    ASSUME NEW n \in Nat, NEW r \in Nat \ {0}, NEW s \in Nat, r < s
    PROVE  Rounded(Rounded(n * s, r) * r, s) = n
<1> DEFINE a == 2 * (n * s) + r
           q == a \div (2 * r)
           b == 2 * (q * r) + s
           p == b \div (2 * s)
<1>1. n * s \in Nat
    OBVIOUS
<1>2. a \in Nat /\ 2 * r \in Nat \ {0}
    BY <1>1
<1>3. q \in Int /\ (2 * r) * q <= a /\ a < (2 * r) * q + 2 * r
  <2> HIDE DEF a
  <2> QED BY <1>2, Quotient
<1>4. q * r \in Int /\ (2 * r) * q = 2 * (q * r)
  <2> HIDE DEF q
  <2> QED BY <1>3
<1>5. 2 * (n * s) < b /\ b < 2 * (n * s) + 2 * s
  <2> HIDE DEF q
  <2> QED BY <1>1, <1>3, <1>4
<1>6. b \in Nat /\ 2 * s \in Nat \ {0}
  <2> HIDE DEF q
  <2> QED BY <1>1, <1>4, <1>5
<1>7. p \in Int /\ (2 * s) * p <= b /\ b < (2 * s) * p + 2 * s
  <2> HIDE DEF b
  <2> QED BY <1>6, Quotient
<1>8. (2 * s) * n = 2 * (n * s)
    OBVIOUS
<1>9. (2 * s) * p < (2 * s) * n + 2 * s /\ (2 * s) * n < (2 * s) * p + 2 * s
  <2> HIDE DEF b, p
  <2>1. (2 * s) * p \in Int
      BY <1>7
  <2> QED BY <1>1, <1>5, <1>6, <1>7, <1>8, <2>1
<1>10. p <= n /\ n <= p
  <2> HIDE DEF p
  <2> QED BY <1>6, <1>7, <1>9, OneQuotient
<1>11. p = n
    BY <1>7, <1>10
<1> QED BY <1>11 DEF Rounded

(***************************************************************************)
(* Totals.                                                                 *)
(***************************************************************************)
\* A smaller set of natural numbers has no larger sum.
LEMMA SumPart ==
    ASSUME NEW f, NEW S, IsFiniteSet(S), \A x \in S : f[x] \in Nat
    PROVE  \A T \in SUBSET S : SumOf(f, T) <= SumOf(f, S)
<1> DEFINE P(U) == \A T \in SUBSET U : SumOf(f, T) <= SumOf(f, U)
           Z == {U \in SUBSET S : P(U)}
<1>0. ASSUME NEW T \in SUBSET S
      PROVE  SumOf(f, T) \in Nat /\ \A y \in T : SumOf(f, T) = f[y] + SumOf(f, T \ {y})
  <2>1. IsFiniteSet(T) /\ \A x \in T : f[x] \in Nat
      BY FS_Subset
  <2> QED BY <2>1, SumNat, SumAny
<1>1. {} \in Z
  <2>1. SumOf(f, {}) \in Nat
      BY <1>0
  <2> QED BY <2>1
<1>2. ASSUME NEW U \in SUBSET S, U # {}, \A x \in U : U \ {x} \in Z PROVE U \in Z
  <2>1. ASSUME NEW T \in SUBSET U PROVE SumOf(f, T) <= SumOf(f, U)
    <3>1. CASE T = U
      <4>1. SumOf(f, U) \in Nat
          BY <1>0
      <4> QED BY <3>1, <4>1
    <3>2. CASE T # U
      <4>1. PICK x \in U : x \notin T
          BY <3>2
      <4>2. SumOf(f, T) <= SumOf(f, U \ {x})
          BY <1>2, <4>1
      <4>3. SumOf(f, U) = f[x] + SumOf(f, U \ {x})
          BY <1>0
      <4>4. SumOf(f, T) \in Nat /\ SumOf(f, U \ {x}) \in Nat /\ f[x] \in Nat
          BY <1>0
      <4> QED BY <4>2, <4>3, <4>4
    <3> QED BY <3>1, <3>2
  <2> QED BY <2>1
<1>3. SUBSET S \subseteq Z
  <2> HIDE DEF Z
  <2> QED BY <1>1, <1>2, FiniteInduction
<1> QED BY <1>3

\* Smaller numbers have no larger sum.
LEMMA SumSmaller ==
    ASSUME NEW f, NEW g, NEW S, IsFiniteSet(S),
           \A x \in S : f[x] \in Nat /\ g[x] \in Nat /\ f[x] <= g[x]
    PROVE  SumOf(f, S) <= SumOf(g, S)
<1> DEFINE Z == {T \in SUBSET S : SumOf(f, T) <= SumOf(g, T)}
<1>0. ASSUME NEW T \in SUBSET S
      PROVE  /\ SumOf(f, T) \in Nat /\ \A y \in T : SumOf(f, T) = f[y] + SumOf(f, T \ {y})
             /\ SumOf(g, T) \in Nat /\ \A y \in T : SumOf(g, T) = g[y] + SumOf(g, T \ {y})
  <2>1. IsFiniteSet(T) /\ (\A x \in T : f[x] \in Nat) /\ \A x \in T : g[x] \in Nat
      BY FS_Subset
  <2> QED BY <2>1, SumNat, SumAny
<1>1. {} \in Z
  <2>1. SumOf(f, {}) = 0 /\ SumOf(g, {}) = 0
      BY SumOne
  <2> QED BY <2>1
<1>2. ASSUME NEW T \in SUBSET S, T # {}, \A x \in T : T \ {x} \in Z PROVE T \in Z
  <2>1. PICK x \in T : TRUE
      BY <1>2
  <2>2. SumOf(f, T) = f[x] + SumOf(f, T \ {x}) /\ SumOf(g, T) = g[x] + SumOf(g, T \ {x})
      BY <1>0
  <2>3. SumOf(f, T \ {x}) <= SumOf(g, T \ {x})
      BY <1>2
  <2>4. /\ SumOf(f, T \ {x}) \in Nat /\ SumOf(g, T \ {x}) \in Nat
        /\ f[x] \in Nat /\ g[x] \in Nat /\ f[x] <= g[x]
      BY <1>0
  <2>5. SumOf(f, T) <= SumOf(g, T)
      BY <2>2, <2>3, <2>4
  <2> QED BY <2>5
<1>3. SUBSET S \subseteq Z
  <2> HIDE DEF Z
  <2> QED BY <1>1, <1>2, FiniteInduction
<1> QED BY <1>3

\* The totals of manifests are sums.
LEMMA TotalIs ==
    ASSUME NEW n, NEW F
    PROVE  Total(n, F) = SumOf(n, F)
BY DEF Total, SumOf

\* The rows and the nulls of some files (Manifest::row_count, null_rate).
LEMMA TotalFacts ==
    ASSUME NEW F \in SUBSET Writes
    PROVE  /\ Total(Rows, F) \in Nat /\ Total(Nulls, F) \in Nat
           /\ Total(Nulls, F) <= Total(Rows, F) /\ Total(Rows, F) < Scale
           /\ Total(Rows, {}) = 0 /\ Total(Nulls, {}) = 0
           /\ F # {} => Total(Rows, F) # 0
<1>1. IsFiniteSet(F) /\ IsFiniteSet(Writes)
    BY WritesAssumption, FS_Subset
<1>2. \A x \in Writes : Rows[x] \in Nat /\ Rows[x] # 0 /\ Nulls[x] \in Nat /\ Nulls[x] <= Rows[x]
    BY RowsAssumption
<1>3. SumOf(Rows, F) \in Nat /\ SumOf(Nulls, F) \in Nat /\ SumOf(Rows, Writes) \in Nat
    BY <1>1, <1>2, SumNat
<1>4. SumOf(Nulls, F) <= SumOf(Rows, F)
    BY <1>1, <1>2, SumSmaller
<1>5. SumOf(Rows, F) <= SumOf(Rows, Writes)
    BY <1>1, <1>2, SumPart
<1>6. SumOf(Rows, {}) = 0 /\ SumOf(Nulls, {}) = 0
    BY <1>1, SumOne
<1>7. F # {} => SumOf(Rows, F) # 0
  <2> SUFFICES ASSUME NEW x \in F PROVE SumOf(Rows, F) # 0
      OBVIOUS
  <2>1. SumOf(Rows, F) = Rows[x] + SumOf(Rows, F \ {x})
      BY <1>1, <1>2, SumAny
  <2>2. SumOf(Rows, F \ {x}) \in Nat
    <3>1. IsFiniteSet(F \ {x})
        BY <1>1, FS_Subset
    <3> QED BY <1>2, <3>1, SumNat
  <2>3. Rows[x] \in Nat /\ Rows[x] # 0
      BY <1>2
  <2> QED BY <2>1, <2>2, <2>3
<1>8. SumOf(Rows, Writes) < Scale /\ Scale \in Nat
    BY ScaleAssumption, TotalIs
<1>9. SumOf(Rows, F) < Scale
    BY <1>3, <1>5, <1>8
<1> QED BY <1>3, <1>4, <1>6, <1>7, <1>9, TotalIs

\* One file more.
LEMMA TotalMore ==
    ASSUME NEW F \in SUBSET Writes, NEW w \in Writes, w \notin F, NEW n, n \in {Rows, Nulls}
    PROVE  Total(n, F \cup {w}) = Total(n, F) + Total(n, {w})
<1>1. IsFiniteSet(F \cup {w}) /\ IsFiniteSet({w}) /\ IsFiniteSet({})
    BY WritesAssumption, FS_Subset
<1>2. \A x \in Writes : n[x] \in Nat
    BY RowsAssumption
<1>3. SumOf(n, F \cup {w}) = n[w] + SumOf(n, (F \cup {w}) \ {w})
    BY <1>1, <1>2, SumAny
<1>4. SumOf(n, {w}) = n[w] + SumOf(n, {w} \ {w})
    BY <1>1, <1>2, SumAny
<1>5. (F \cup {w}) \ {w} = F /\ {w} \ {w} = {}
    OBVIOUS
<1>6. SumOf(n, {}) = 0
    BY <1>1, SumOne
<1>7. SumOf(n, F) \in Nat /\ n[w] \in Nat
  <2>1. IsFiniteSet(F)
      BY <1>1, FS_Subset
  <2> QED BY <1>2, <2>1, SumNat
<1>8. SumOf(n, F \cup {w}) = n[w] + SumOf(n, F)
    BY <1>3, <1>5
<1>9. SumOf(n, {w}) = n[w]
    BY <1>4, <1>5, <1>6, <1>7
<1>10. SumOf(n, F \cup {w}) = SumOf(n, F) + SumOf(n, {w})
    BY <1>7, <1>8, <1>9
<1> QED BY <1>10, TotalIs

(***************************************************************************)
(* Manifests.                                                              *)
(***************************************************************************)
\* A rate is between 0 and 1, and stands for no more nulls than there are rows.
LEMMA RateIn ==
    ASSUME NEW n \in Nat, NEW r \in Nat, n <= r
    PROVE  Rate(n, r) \in 0 .. Scale
<1>1. Scale \in Nat
    BY ScaleAssumption
<1>2. CASE r = 0
    BY <1>1, <1>2 DEF Rate
<1>3. CASE r # 0
  <2>1. Rounded(n * Scale, r) \in 0 .. Scale
      BY <1>1, <1>3, RoundedPart
  <2>2. r > 0
      BY <1>3
  <2> QED BY <2>1, <2>2 DEF Rate
<1> QED BY <1>2, <1>3

\* The nulls recovered from a rate are among the rows.
LEMMA RecoveredIn ==
    ASSUME NEW rate \in 0 .. Scale, NEW r \in Nat
    PROVE  Recovered(rate, r) \in 0 .. r
<1>1. Scale \in Nat
    BY ScaleAssumption
<1>2. Total(Rows, {}) = 0 /\ Total(Rows, {}) < Scale
    BY TotalFacts
<1>3. Scale \in Nat \ {0} /\ rate \in Nat /\ rate <= Scale
    BY <1>1, <1>2
<1> QED BY <1>3, RoundedPart DEF Recovered

\* The nulls of some files are recovered from their rate (combined_stats).
LEMMA RecoveredIs ==
    ASSUME NEW F \in SUBSET Writes
    PROVE  Recovered(Rate(Total(Nulls, F), Total(Rows, F)), Total(Rows, F)) = Total(Nulls, F)
<1>1. Scale \in Nat
    BY ScaleAssumption
<1>2. PICK n, r : n = Total(Nulls, F) /\ r = Total(Rows, F)
    OBVIOUS
<1>3. n \in Nat /\ r \in Nat /\ r < Scale /\ n <= r
    BY <1>2, TotalFacts
<1>4. CASE r = 0
  <2>1. Rate(n, r) \in 0 .. Scale
      BY <1>3, RateIn
  <2>2. Recovered(Rate(n, r), r) \in 0 .. r
      BY <1>3, <2>1, RecoveredIn
  <2> QED BY <1>2, <1>3, <1>4, <2>2
<1>5. CASE r # 0
  <2>1. r > 0
      BY <1>3, <1>5
  <2>2. Rate(n, r) = Rounded(n * Scale, r)
      BY <2>1 DEF Rate
  <2>3. Rounded(Rounded(n * Scale, r) * r, Scale) = n
      BY <1>1, <1>3, <1>5, RoundedBack
  <2> QED BY <1>2, <2>2, <2>3 DEF Recovered
<1> QED BY <1>4, <1>5

\* What a validation records (Engine::whole) is a manifest.
LEMMA CountedType ==
    ASSUME NEW k \in Comps, NEW F \in SUBSET Writes, NEW L \in SUBSET Writes
    PROVE  Counted(k, F, L) \in Manifest
<1>1. F \cap Breaks[k] \in SUBSET Writes
    OBVIOUS
<1>2. /\ Total(Rows, F) \in Nat /\ Total(Nulls, F) \in Nat /\ Total(Nulls, F) <= Total(Rows, F)
      /\ Total(Rows, F \cap Breaks[k]) \in Nat
    BY <1>1, TotalFacts
<1>3. Rate(Total(Nulls, F), Total(Rows, F)) \in 0 .. Scale
    BY <1>2, RateIn
<1> QED BY <1>2, <1>3 DEF Counted, Manifest

\* So is what an append makes of one.
LEMMA AfterType ==
    ASSUME NEW k \in Comps, NEW w \in Writes, NEW b \in Manifest \cup {None, Unknown}
    PROVE  After(k, b, w) \in Manifest \cup {None}
<1>1. PICK m : m = Counted(k, {w}, {w})
    OBVIOUS
<1>2. m \in Manifest
    BY <1>1, CountedType
<1>3. ASSUME b \in Manifest PROVE Combined(b, m) \in Manifest
  <2>1. /\ b.files \in SUBSET Writes /\ b.rows \in Nat /\ b.fails \in Nat /\ b.rate \in 0 .. Scale
        /\ m.files \in SUBSET Writes /\ m.rows \in Nat /\ m.fails \in Nat /\ m.rate \in 0 .. Scale
      BY <1>2, <1>3 DEF Manifest
  <2>2. PICK x, y : x = Recovered(b.rate, b.rows) /\ y = Recovered(m.rate, m.rows)
      OBVIOUS
  <2>3. x \in 0 .. b.rows /\ y \in 0 .. m.rows
      BY <2>1, <2>2, RecoveredIn
  <2>4. x + y \in Nat /\ b.rows + m.rows \in Nat /\ x + y <= b.rows + m.rows
      BY <2>1, <2>3
  <2>5. Rate(x + y, b.rows + m.rows) \in 0 .. Scale
      BY <2>4, RateIn
  <2>6. PICK z \in 0 .. Scale : z = Rate(x + y, b.rows + m.rows)
      BY <2>5
  <2>7. Combined(b, m) = [m EXCEPT !.files = b.files \cup @, !.rows = b.rows + @,
                                   !.fails = b.fails + @, !.rate = z]
      BY <2>2, <2>6 DEF Combined
  <2>8. b.rows + m.rows \in Nat /\ b.fails + m.fails \in Nat
      BY <2>1
  <2> QED BY <1>2, <2>1, <2>7, <2>8 DEF Manifest
<1> QED BY <1>1, <1>2, <1>3 DEF After

\* An append adds its own file to an exact manifest, exactly (facts::after_write).
LEMMA CombinedIs ==
    ASSUME NEW k \in Comps, NEW F \in SUBSET Writes, NEW w \in Writes, w \notin F
    PROVE  Combined(Counted(k, F, F), Counted(k, {w}, {w})) = Counted(k, F \cup {w}, F \cup {w})
<1>1. PICK b, m : b = Counted(k, F, F) /\ m = Counted(k, {w}, {w})
    OBVIOUS
<1>2. /\ b.files = F /\ b.rows = Total(Rows, F) /\ b.fails = Total(Rows, F \cap Breaks[k])
      /\ b.rate = Rate(Total(Nulls, F), Total(Rows, F))
      /\ m.files = {w} /\ m.rows = Total(Rows, {w}) /\ m.fails = Total(Rows, {w} \cap Breaks[k])
      /\ m.rate = Rate(Total(Nulls, {w}), Total(Rows, {w}))
    BY <1>1 DEF Counted
<1>3. b.rows + m.rows = Total(Rows, F \cup {w})
    BY <1>2, TotalMore
<1>4. b.fails + m.fails = Total(Rows, (F \cup {w}) \cap Breaks[k])
  <2>1. PICK G \in SUBSET Writes : G = F \cap Breaks[k] /\ w \notin G
      OBVIOUS
  <2>2. CASE w \in Breaks[k]
    <3>1. (F \cup {w}) \cap Breaks[k] = G \cup {w} /\ {w} \cap Breaks[k] = {w}
        BY <2>1, <2>2
    <3>2. Total(Rows, G \cup {w}) = Total(Rows, G) + Total(Rows, {w})
        BY <2>1, TotalMore
    <3> QED BY <1>2, <2>1, <3>1, <3>2
  <2>3. CASE w \notin Breaks[k]
    <3>1. (F \cup {w}) \cap Breaks[k] = G /\ {w} \cap Breaks[k] = {}
        BY <2>1, <2>3
    <3>2. Total(Rows, {}) = 0 /\ Total(Rows, G) \in Nat
        BY TotalFacts
    <3> QED BY <1>2, <2>1, <3>1, <3>2
  <2> QED BY <2>2, <2>3
<1>5. Recovered(b.rate, b.rows) + Recovered(m.rate, m.rows) = Total(Nulls, F \cup {w})
  <2>1. {w} \in SUBSET Writes
      OBVIOUS
  <2>2. Recovered(b.rate, b.rows) = Total(Nulls, F) /\ Recovered(m.rate, m.rows) = Total(Nulls, {w})
      BY <1>2, <2>1, RecoveredIs
  <2> QED BY <2>2, TotalMore
<1>6. PICK z : z = Rate(Total(Nulls, F \cup {w}), Total(Rows, F \cup {w}))
    OBVIOUS
<1>7. Combined(b, m) = [comp |-> m.comp, files |-> b.files \cup m.files, rows |-> b.rows + m.rows,
                        fails |-> b.fails + m.fails, rate |-> z]
  <2>1. Combined(b, m) = [m EXCEPT !.files = b.files \cup @, !.rows = b.rows + @,
                                   !.fails = b.fails + @, !.rate = z]
      BY <1>3, <1>5, <1>6 DEF Combined
  <2>2. m \in Manifest
      BY <1>1, CountedType
  <2> QED BY <2>1, <2>2 DEF Manifest
<1>8. m.comp = k /\ b.files \cup m.files = F \cup {w}
    BY <1>1, <1>2 DEF Counted
<1>9. Combined(b, m) = [comp |-> k, files |-> F \cup {w}, rows |-> Total(Rows, F \cup {w}),
                        fails |-> Total(Rows, (F \cup {w}) \cap Breaks[k]),
                        rate |-> Rate(Total(Nulls, F \cup {w}), Total(Rows, F \cup {w}))]
    BY <1>3, <1>4, <1>6, <1>7, <1>8
<1> QED BY <1>1, <1>9 DEF Counted

(***************************************************************************)
(* What a write and a reader hold at each of their steps.                  *)
(***************************************************************************)
Stamps == [contract : Contracts, comp : Comps]
Known  == Manifest \cup {None, Unknown}
Jobs == [kind : Kinds \cup {"none"}, policy : Policies, bound : [Contracts -> Comps] \cup {None},
         before : [Contracts -> Known] \cup {None}, todo : SUBSET Contracts,
         at : Contracts \cup {None}, doomed : SUBSET Writes]
Tasks == [stage : Stages, use : {"none", "query", "validate"}, contract : Contracts \cup {None},
          comp : Comps \cup {None}, refuse : BOOLEAN, stored : BOOLEAN, seen : SUBSET Writes,
          found : Manifest \cup {None}]
Under == {"load", "look", "list", "remove", "install", "save", "keep"}

\* A write at p, stamped b, holds j.
Holds(p, b, j) ==
    /\ p \in PCs /\ b \in Stamps \cup {None} /\ j \in Jobs
    /\ p \in Over => j = NoJob
    /\ p \notin Over => j.kind \in Kinds
    /\ p \notin {"idle", "elsewhere"} => b \in Stamps
    /\ p \in Under => j.bound \in [Contracts -> Comps] /\ j.before \in [Contracts -> Known]
    /\ p \in {"look", "keep"} => j.at \in Contracts

\* The state t of a reader.
Does(t) ==
    /\ t \in Tasks
    /\ t.stage # "idle" => t.contract \in Contracts
    /\ t.stage = "entries" => t.comp \in Comps

\* The parts of the type invariant: the directory, the writes and the readers.
DirInv ==
    /\ remote \in BOOLEAN
    /\ files \subseteq Writes
    /\ manifest \in [Contracts -> Manifest \cup {None}]
    /\ cached \in [Contracts -> Manifest \cup {None}]
    /\ comp \in [Contracts -> Comps]

WritesInv ==
    /\ pc \in [Writes -> PCs] /\ by \in [Writes -> Stamps \cup {None}] /\ job \in [Writes -> Jobs]
    /\ \A w \in Writes : Holds(pc[w], by[w], job[w])

TasksInv == task \in [Readers -> Tasks] /\ \A r \in Readers : Does(task[r])

TInv == DirInv /\ WritesInv /\ TasksInv

\* A step that concerns one write leaves the others as they are.
LEMMA OneWrite ==
    ASSUME WritesInv, NEW w \in Writes, NEW p, NEW b, NEW j, Holds(p, b, j),
           Goes(w, p, j), by' = [by EXCEPT ![w] = b]
    PROVE  WritesInv'
<1>1. p \in PCs /\ b \in Stamps \cup {None} /\ j \in Jobs
    BY DEF Holds
<1>2. pc' \in [Writes -> PCs] /\ by' \in [Writes -> Stamps \cup {None}] /\ job' \in [Writes -> Jobs]
  <2>1. pc' = [pc EXCEPT ![w] = p] /\ job' = [job EXCEPT ![w] = j]
      BY DEF Goes
  <2>2. pc \in [Writes -> PCs] /\ by \in [Writes -> Stamps \cup {None}] /\ job \in [Writes -> Jobs]
      BY DEF WritesInv
  <2> QED BY <1>1, <2>1, <2>2
<1>3. ASSUME NEW v \in Writes PROVE Holds(pc'[v], by'[v], job'[v])
  <2>1. CASE v = w
    <3>1. pc'[v] = p /\ by'[v] = b /\ job'[v] = j
        BY <2>1 DEF Goes, WritesInv
    <3> QED BY <3>1
  <2>2. CASE v # w
    <3>1. pc'[v] = pc[v] /\ by'[v] = by[v] /\ job'[v] = job[v]
        BY <2>2 DEF Goes, WritesInv
    <3> QED BY <3>1 DEF WritesInv
  <2> QED BY <2>1, <2>2
<1> QED BY <1>2, <1>3 DEF WritesInv, Holds

\* Nor does it change the stamp of the file, once it has one.
LEMMA OneMoves ==
    ASSUME WritesInv, NEW w \in Writes, NEW p, NEW j, Holds(p, by[w], j), Goes(w, p, j), by' = by
    PROVE  WritesInv'
<1>1. by' = [by EXCEPT ![w] = by[w]]
    BY DEF WritesInv
<1> QED BY <1>1, OneWrite

\* A step that concerns one reader leaves the others as they are.
LEMMA OneTask ==
    ASSUME TasksInv, NEW r \in Readers, NEW t, Does(t), task' = [task EXCEPT ![r] = t]
    PROVE  TasksInv'
<1>1. t \in Tasks /\ task \in [Readers -> Tasks]
    BY DEF Does, TasksInv
<1>2. task' \in [Readers -> Tasks]
    BY <1>1
<1>3. ASSUME NEW q \in Readers PROVE Does(task'[q])
  <2>1. CASE q = r
    <3>1. task'[q] = t
        BY <1>1, <2>1
    <3> QED BY <3>1
  <2>2. CASE q # r
    <3>1. task'[q] = task[q]
        BY <1>1, <2>2
    <3> QED BY <3>1 DEF TasksInv
  <2> QED BY <2>1, <2>2
<1> QED BY <1>2, <1>3 DEF TasksInv, Does

\* Nothing is written, and nobody reads.
LEMMA TInit == Init => TInv
<1> SUFFICES ASSUME Init PROVE TInv
    OBVIOUS
<1>1. DirInv
    BY DEF Init, DirInv
<1>2. NoJob \in Jobs
    BY DEF NoJob, Jobs, Policies
<1>3. ASSUME NEW p \in {"idle", "elsewhere"} PROVE Holds(p, None, NoJob)
    BY <1>2 DEF Holds, PCs, Over, Under
<1>4. WritesInv
  <2>1. ASSUME NEW w \in Writes
        PROVE  pc[w] \in {"idle", "elsewhere"} /\ by[w] = None /\ job[w] = NoJob
      BY DEF Init
  <2>2. pc \in [Writes -> PCs]
      BY DEF Init, PCs
  <2>3. by \in [Writes -> Stamps \cup {None}] /\ job \in [Writes -> Jobs]
      BY <1>2 DEF Init
  <2>4. ASSUME NEW w \in Writes PROVE Holds(pc[w], by[w], job[w])
    <3>1. PICK p \in {"idle", "elsewhere"} : p = pc[w]
        BY <2>1
    <3> QED BY <1>3, <2>1, <3>1
  <2> QED BY <2>2, <2>3, <2>4 DEF WritesInv
<1>5. Idle \in Tasks /\ Does(Idle)
    BY DEF Idle, Tasks, Does, Stages
<1>6. TasksInv
    BY <1>5 DEF Init, TasksInv
<1> QED BY <1>1, <1>4, <1>6 DEF TInv

\* Such a state is well typed.
LEMMA TInvType == TInv => TypeOK
<1> SUFFICES ASSUME TInv PROVE TypeOK
    OBVIOUS
<1>1. DirInv /\ WritesInv /\ TasksInv
    BY DEF TInv
<1>2. ASSUME NEW w \in Writes PROVE job[w] = NoJob <=> pc[w] \in Over
  <2>1. Holds(pc[w], by[w], job[w])
      BY <1>1 DEF WritesInv
  <2>2. NoJob.kind \notin Kinds
      BY DEF NoJob, Kinds
  <2> QED BY <2>1, <2>2 DEF Holds
<1>3. /\ remote \in BOOLEAN /\ files \subseteq Writes /\ comp \in [Contracts -> Comps]
      /\ manifest \in [Contracts -> Manifest \cup {None}] /\ cached \in [Contracts -> Manifest \cup {None}]
    BY <1>1 DEF DirInv
<1>4. pc \in [Writes -> PCs] /\ by \in [Writes -> Stamps \cup {None}] /\ job \in [Writes -> Jobs]
    BY <1>1 DEF WritesInv
<1>5. task \in [Readers -> Tasks]
    BY <1>1 DEF TasksInv
<1> QED BY <1>2, <1>3, <1>4, <1>5 DEF TypeOK, Stamps, Jobs, Tasks, Known

(***************************************************************************)
(* Every step keeps the types.                                             *)
(***************************************************************************)
\* The steps of a write before it publishes, and when it stops.
LEMMA BeginType ==
    ASSUME TInv, NEW w \in Writes, NEW c \in Contracts, NEW k \in Kinds, NEW p \in Policies, BeginWrite(w, c, k, p)
    PROVE  TInv'
<1>1. DirInv /\ WritesInv /\ TasksInv
    BY DEF TInv
<1>2. PICK j : j = [NoJob EXCEPT !.kind = k, !.policy = p]
    OBVIOUS
<1>3. PICK b : b = [contract |-> c, comp |-> comp[c]]
    OBVIOUS
<1>4. j \in Jobs /\ j.kind = k
    BY <1>2 DEF NoJob, Jobs, Policies
<1>5. b \in Stamps
    BY <1>1, <1>3 DEF Stamps, DirInv
<1>6. Holds("writing", b, j)
    BY <1>4, <1>5 DEF Holds, PCs, Over, Under
<1>7. Goes(w, "writing", j) /\ by' = [by EXCEPT ![w] = b]
    BY <1>2, <1>3 DEF BeginWrite
<1>8. WritesInv'
    BY <1>1, <1>6, <1>7, OneWrite
<1>9. UNCHANGED <<remote, dirVars, comp, task>>
    BY DEF BeginWrite
<1>10. DirInv' /\ TasksInv'
    BY <1>1, <1>9 DEF DirInv, TasksInv, dirVars, Does
<1> QED BY <1>8, <1>10 DEF TInv

\* A write that ends validation is typed, refused or not.
LEMMA FinishType ==
    ASSUME TInv, NEW w \in Writes, FinishWrite(w)
    PROVE  TInv'
<1>1. DirInv /\ WritesInv /\ TasksInv
    BY DEF TInv
<1>2. pc[w] = "writing" /\ Holds(pc[w], by[w], job[w])
    BY <1>1 DEF FinishWrite, WritesInv
<1>3. by[w] \in Stamps /\ job[w] \in Jobs /\ job[w].kind \in Kinds
    BY <1>2 DEF Holds, Over
<1>4. NoJob \in Jobs
    BY DEF NoJob, Jobs, Policies
<1>5. UNCHANGED <<remote, dirVars, comp, by, task>>
    BY DEF FinishWrite
<1>6. WritesInv'
  <2>1. CASE Goes(w, "refused", NoJob)
    <3>1. Holds("refused", by[w], NoJob)
        BY <1>3, <1>4 DEF Holds, PCs, Over, Under
    <3> QED BY <1>1, <1>5, <2>1, <3>1, OneMoves
  <2>2. CASE ~Goes(w, "refused", NoJob)
    <3>1. PICK p, j : /\ p = IF job[w].kind = "overwrite" THEN "list" ELSE "load"
                      /\ j = [job[w] EXCEPT !.bound = Bound(w), !.before = [c \in Contracts |-> None],
                                            !.todo = Contracts]
                      /\ Goes(w, p, j)
        BY <2>2 DEF FinishWrite
    <3>2. Bound(w) \in [Contracts -> Comps]
        BY <1>1, <1>3 DEF Bound, DirInv, Stamps
    <3>3. [c \in Contracts |-> None] \in [Contracts -> Known]
        BY DEF Known
    <3>4. j \in Jobs
        BY <1>3, <3>1, <3>2, <3>3 DEF Jobs
    <3>5. j.kind = job[w].kind /\ j.bound = Bound(w) /\ j.before = [c \in Contracts |-> None]
        BY <1>3, <3>1 DEF Jobs
    <3>6. p \in {"list", "load"}
        BY <3>1
    <3>7. Holds(p, by[w], j)
        BY <1>3, <3>2, <3>3, <3>4, <3>5, <3>6 DEF Holds, PCs, Over, Under
    <3> QED BY <1>1, <1>5, <3>1, <3>7, OneMoves
  <2> QED BY <2>1, <2>2
<1>10. DirInv' /\ TasksInv'
    BY <1>1, <1>5 DEF DirInv, TasksInv, dirVars, Does
<1> QED BY <1>6, <1>10 DEF TInv

\* What a write that publishes holds.
LEMMA UnderHolds ==
    ASSUME WritesInv, NEW w \in Writes, pc[w] \in Under
    PROVE  /\ job[w] \in Jobs /\ job[w].kind \in Kinds /\ by[w] \in Stamps
           /\ job[w].bound \in [Contracts -> Comps] /\ job[w].before \in [Contracts -> Known]
           /\ pc[w] \in {"look", "keep"} => job[w].at \in Contracts
<1>1. Holds(pc[w], by[w], job[w])
    BY DEF WritesInv
<1> QED BY <1>1 DEF Holds, Under, Over

\* It goes on with the same kind and the same compilations, or is done.
LEMMA UnderGoes ==
    ASSUME WritesInv, NEW w \in Writes, pc[w] \in Under, by' = by,
           NEW p \in Under, NEW j \in Jobs, Goes(w, p, j),
           j.kind \in Kinds, j.bound \in [Contracts -> Comps], j.before \in [Contracts -> Known],
           p \in {"look", "keep"} => j.at \in Contracts
    PROVE  WritesInv'
<1>1. by[w] \in Stamps
    BY UnderHolds
<1>2. Holds(p, by[w], j)
    BY <1>1 DEF Holds, Under, Over, PCs
<1> QED BY <1>2, OneMoves

\* A write that ends holds nothing any more.
LEMMA OverGoes ==
    ASSUME WritesInv, NEW w \in Writes, pc[w] = "writing" \/ pc[w] \in Under, by' = by,
           NEW p \in {"done", "torn", "stopped"}, Goes(w, p, NoJob)
    PROVE  WritesInv'
<1>1. by[w] \in Stamps
  <2>1. Holds(pc[w], by[w], job[w])
      BY DEF WritesInv
  <2> QED BY <2>1 DEF Holds, Under
<1>2. NoJob \in Jobs
    BY DEF NoJob, Jobs, Policies
<1>3. Holds(p, by[w], NoJob)
    BY <1>1, <1>2 DEF Holds, Under, Over, PCs
<1> QED BY <1>3, OneMoves

\* A write that stops is typed.
LEMMA StopType ==
    ASSUME TInv, NEW w \in Writes, Stop(w)
    PROVE  TInv'
<1>1. DirInv /\ WritesInv /\ TasksInv
    BY DEF TInv
<1>2. UNCHANGED <<remote, dirVars, comp, by, task>>
    BY DEF Stop
<1>3. PICK p \in {"done", "torn", "stopped"} : Goes(w, p, NoJob)
    BY DEF Stop
<1>4. pc[w] = "writing" \/ pc[w] \in Under
    BY DEF Stop, Publishing, Under
<1>5. WritesInv'
    BY <1>1, <1>2, <1>3, <1>4, OverGoes
<1>6. DirInv' /\ TasksInv'
    BY <1>1, <1>2 DEF DirInv, TasksInv, dirVars, Does
<1> QED BY <1>5, <1>6 DEF TInv

\* The steps of a publication.  What each leaves the write with is stated first: the
\* argument about manifests needs it again.
LEMMA LoadIs ==
    ASSUME TInv, NEW w \in Writes, NEW c \in Contracts, Load(w, c)
    PROVE  /\ pc[w] = "load" /\ c \in job[w].todo
           /\ \E p \in Under, j \in Jobs :
                 /\ Goes(w, p, j) /\ j.kind = job[w].kind /\ j.bound = job[w].bound
                 /\ j.todo = job[w].todo \ {c} /\ j.doomed = job[w].doomed
                 /\ \/ p = "look" /\ manifest[c] = None /\ j.at = c /\ j.before = job[w].before
                    \/ /\ p = IF j.todo = {} THEN "install" ELSE "load"
                       /\ manifest[c] # None /\ j.before = [job[w].before EXCEPT ![c] = manifest[c]]
<1>0. pc[w] = "load" /\ c \in job[w].todo
    BY DEF Load, Turn
<1>1. /\ job[w] \in Jobs /\ job[w].before \in [Contracts -> Known]
      /\ manifest[c] \in Manifest \cup {None}
    BY <1>0, UnderHolds DEF TInv, DirInv, Under
<1>2. PICK i : i = [job[w] EXCEPT !.todo = @ \ {c}, !.at = c]
    OBVIOUS
<1>3. /\ i \in Jobs /\ i.kind = job[w].kind /\ i.bound = job[w].bound /\ i.todo = job[w].todo \ {c}
      /\ i.doomed = job[w].doomed /\ i.at = c /\ i.before = job[w].before
    BY <1>1, <1>2 DEF Jobs
<1>4. CASE manifest[c] = None
  <2>1. Goes(w, "look", i)
      BY <1>2, <1>4 DEF Load
  <2> QED BY <1>0, <1>3, <1>4, <2>1 DEF Under
<1>5. CASE manifest[c] # None
  <2>1. PICK j : j = [[i EXCEPT !.before[c] = manifest[c]] EXCEPT !.at = None]
      OBVIOUS
  <2>2. [i EXCEPT !.before[c] = manifest[c]] = [i EXCEPT !.before = [i.before EXCEPT ![c] = manifest[c]]]
      BY <1>3
  <2>3. [i.before EXCEPT ![c] = manifest[c]] \in [Contracts -> Known]
      BY <1>1, <1>3 DEF Known
  <2>4. PICK b \in [Contracts -> Known] : b = [i.before EXCEPT ![c] = manifest[c]]
      BY <2>3
  <2>5. j = [[i EXCEPT !.before = b] EXCEPT !.at = None]
      BY <2>1, <2>2, <2>4
  <2>6. /\ j \in Jobs /\ j.kind = i.kind /\ j.bound = i.bound /\ j.todo = i.todo
        /\ j.doomed = i.doomed /\ j.before = b /\ [i EXCEPT !.before = b].todo = i.todo
      BY <1>3, <2>5 DEF Jobs
  <2>7. Loaded(w, [i EXCEPT !.before[c] = manifest[c]])
      BY <1>2, <1>5 DEF Load
  <2>8. Goes(w, IF j.todo = {} THEN "install" ELSE "load", j)
      BY <2>1, <2>2, <2>4, <2>6, <2>7 DEF Loaded
  <2>9. (IF j.todo = {} THEN "install" ELSE "load") \in Under
      BY DEF Under
  <2> QED BY <1>0, <1>3, <1>5, <2>4, <2>6, <2>8, <2>9
<1> QED BY <1>4, <1>5

\* What a look at the files makes of the job: the contract in hand knows that there are none,
\* or nothing.
LEMMA LookIs ==
    ASSUME TInv, NEW w \in Writes, Look(w)
    PROVE  /\ pc[w] = "look" /\ job[w].at \in Contracts
           /\ \E p \in Under, j \in Jobs :
                 /\ Goes(w, p, j) /\ j.kind = job[w].kind /\ j.bound = job[w].bound
                 /\ j.todo = job[w].todo /\ j.doomed = job[w].doomed
                 /\ p = IF j.todo = {} THEN "install" ELSE "load"
                 /\ j.before = [job[w].before EXCEPT ![job[w].at] = Before(files)]
<1>0. pc[w] = "look"
    BY DEF Look
<1>1. PICK i : i = job[w]
    OBVIOUS
<1>2. i \in Jobs /\ i.before \in [Contracts -> Known] /\ i.at \in Contracts
    BY <1>0, <1>1, UnderHolds DEF TInv, Under
<1>3. Before(files) \in Known
    BY DEF Before, Known
<1>4. PICK b \in [Contracts -> Known] : b = [i.before EXCEPT ![i.at] = Before(files)]
    BY <1>2, <1>3
<1>5. [i EXCEPT !.before[i.at] = Before(files)] = [i EXCEPT !.before = b]
    BY <1>4
<1>6. PICK j : j = [[i EXCEPT !.before = b] EXCEPT !.at = None]
    OBVIOUS
<1>7. /\ j \in Jobs /\ j.kind = i.kind /\ j.bound = i.bound /\ j.todo = i.todo
      /\ j.doomed = i.doomed /\ j.before = b /\ [i EXCEPT !.before = b].todo = i.todo
    BY <1>2, <1>6 DEF Jobs
<1>8. Loaded(w, [i EXCEPT !.before = b])
    BY <1>1, <1>5 DEF Look
<1>9. Goes(w, IF j.todo = {} THEN "install" ELSE "load", j)
    BY <1>6, <1>7, <1>8 DEF Loaded
<1>10. (IF j.todo = {} THEN "install" ELSE "load") \in Under
    BY DEF Under
<1> QED BY <1>0, <1>1, <1>2, <1>4, <1>7, <1>9, <1>10

\* An overwrite has the files it lists to remove.
LEMMA ListIs ==
    ASSUME TInv, NEW w \in Writes, List(w)
    PROVE  /\ pc[w] = "list"
           /\ \E p \in Under, j \in Jobs :
                 /\ Goes(w, p, j) /\ j.kind = job[w].kind /\ j.bound = job[w].bound
                 /\ j.todo = job[w].todo /\ j.before = job[w].before /\ j.doomed = files
                 /\ p = IF files = {} THEN "install" ELSE "remove"
<1>0. pc[w] = "list"
    BY DEF List
<1>1. job[w] \in Jobs /\ files \in SUBSET Writes
    BY <1>0, UnderHolds DEF TInv, DirInv, Under
<1>2. PICK j : j = [job[w] EXCEPT !.doomed = files]
    OBVIOUS
<1>3. /\ j \in Jobs /\ j.kind = job[w].kind /\ j.bound = job[w].bound
      /\ j.todo = job[w].todo /\ j.before = job[w].before /\ j.doomed = files
    BY <1>1, <1>2 DEF Jobs
<1>4. Goes(w, IF files = {} THEN "install" ELSE "remove", j)
    BY <1>2 DEF List
<1>5. (IF files = {} THEN "install" ELSE "remove") \in Under
    BY DEF Under
<1> QED BY <1>0, <1>3, <1>4, <1>5

\* It has one file fewer to remove.
LEMMA RemoveIs ==
    ASSUME TInv, NEW w \in Writes, NEW f \in Writes, RemoveFile(w, f)
    PROVE  /\ pc[w] = "remove" /\ files' = files \ {f} /\ f \in job[w].doomed
           /\ \E p \in Under, j \in Jobs :
                 /\ Goes(w, p, j) /\ j.kind = job[w].kind /\ j.bound = job[w].bound
                 /\ j.todo = job[w].todo /\ j.before = job[w].before /\ j.doomed = job[w].doomed \ {f}
                 /\ p = IF job[w].doomed = {f} THEN "install" ELSE "remove"
<1>0. pc[w] = "remove" /\ files' = files \ {f} /\ f \in job[w].doomed
    BY DEF RemoveFile
<1>1. job[w] \in Jobs
    BY <1>0, UnderHolds DEF TInv, Under
<1>2. PICK j : j = [job[w] EXCEPT !.doomed = @ \ {f}]
    OBVIOUS
<1>3. /\ j \in Jobs /\ j.kind = job[w].kind /\ j.bound = job[w].bound
      /\ j.todo = job[w].todo /\ j.before = job[w].before /\ j.doomed = job[w].doomed \ {f}
    BY <1>1, <1>2 DEF Jobs
<1>4. Goes(w, IF job[w].doomed = {f} THEN "install" ELSE "remove", j)
    BY <1>2 DEF RemoveFile
<1>5. (IF job[w].doomed = {f} THEN "install" ELSE "remove") \in Under
    BY DEF Under
<1> QED BY <1>0, <1>3, <1>4, <1>5

\* The file is in place, and every contract has its facts to save.
LEMMA InstallIs ==
    ASSUME TInv, NEW w \in Writes, Install(w)
    PROVE  /\ pc[w] = "install" /\ files' = files \cup {w}
           /\ \E j \in Jobs :
                 /\ Goes(w, "save", j) /\ j.kind = job[w].kind /\ j.bound = job[w].bound
                 /\ j.todo = Contracts /\ j.before = job[w].before
<1>0. pc[w] = "install" /\ files' = files \cup {w}
    BY DEF Install
<1>1. job[w] \in Jobs
    BY <1>0, UnderHolds DEF TInv, Under
<1>2. PICK j : j = [job[w] EXCEPT !.todo = Contracts]
    OBVIOUS
<1>3. /\ j \in Jobs /\ j.kind = job[w].kind /\ j.bound = job[w].bound
      /\ j.todo = Contracts /\ j.before = job[w].before
    BY <1>1, <1>2 DEF Jobs
<1>4. Goes(w, "save", j)
    BY <1>2 DEF Install
<1> QED BY <1>0, <1>3, <1>4

\* The facts that a write saves for the contract c.
Facts(w, c) == After(job[w].bound[c], job[w].before[c], w)

\* The write w with the contracts T yet to come goes on, or is done.
GoesOn(w, T) ==
    \/ /\ T = {}
       /\ Goes(w, "done", NoJob)
    \/ \E p \in {"save", "keep"}, j \in Jobs :
          /\ Goes(w, p, j) /\ j.kind = job[w].kind /\ j.bound = job[w].bound
          /\ j.todo = T /\ j.before = job[w].before
          /\ p = "keep" => pc[w] = "save" /\ remote /\ j.at \in Contracts \ T /\ j.at \in job[w].todo

\* After a contract's facts the write goes on to the contracts left.
LEMMA SavedIs ==
    ASSUME NEW w \in Writes, NEW i \in Jobs, Saved(w, i), i.kind = job[w].kind, i.bound = job[w].bound,
           i.before = job[w].before
    PROVE  GoesOn(w, i.todo)
<1>1. CASE i.todo = {}
    BY <1>1 DEF Saved, GoesOn
<1>2. CASE i.todo # {}
  <2>1. PICK j : j = [i EXCEPT !.at = None]
      OBVIOUS
  <2>2. j \in Jobs /\ j.kind = i.kind /\ j.bound = i.bound /\ j.todo = i.todo /\ j.before = i.before
      BY <2>1 DEF Jobs
  <2>3. Goes(w, "save", j)
      BY <1>2, <2>1 DEF Saved
  <2> QED BY <2>2, <2>3 DEF GoesOn
<1> QED BY <1>1, <1>2

\* A manifest saved is what the contract knows after the write.
LEMMA SaveIs ==
    ASSUME TInv, NEW w \in Writes, NEW c \in Contracts, SaveFacts(w, c)
    PROVE  /\ pc[w] = "save" /\ c \in job[w].todo /\ manifest' = [manifest EXCEPT ![c] = Facts(w, c)]
           /\ GoesOn(w, job[w].todo \ {c})
<1>0. pc[w] = "save" /\ c \in job[w].todo
    BY DEF SaveFacts, Turn
<1>1. job[w] \in Jobs
    BY <1>0, UnderHolds DEF TInv, Under
<1>2. PICK i : i = [job[w] EXCEPT !.todo = @ \ {c}, !.at = c]
    OBVIOUS
<1>3. /\ i \in Jobs /\ i.kind = job[w].kind /\ i.bound = job[w].bound
      /\ i.todo = job[w].todo \ {c} /\ i.before = job[w].before /\ i.at = c
    BY <1>1, <1>2 DEF Jobs
<1>4. manifest' = [manifest EXCEPT ![c] = After(i.bound[c], i.before[c], w)]
    BY <1>2 DEF SaveFacts
<1>5. GoesOn(w, i.todo)
  <2>1. CASE remote
    <3>1. Goes(w, "keep", i)
        BY <1>2, <2>1 DEF SaveFacts
    <3>2. i.at \in Contracts \ i.todo /\ i.at \in job[w].todo
        BY <1>0, <1>3
    <3> QED BY <1>0, <1>3, <2>1, <3>1, <3>2 DEF GoesOn
  <2>2. CASE ~remote
    <3>1. Saved(w, i)
        BY <1>2, <2>2 DEF SaveFacts
    <3> QED BY <1>3, <3>1, SavedIs
  <2> QED BY <2>1, <2>2
<1> QED BY <1>0, <1>3, <1>4, <1>5 DEF Facts

\* The manifest kept in memory is the same.
LEMMA KeepIs ==
    ASSUME TInv, NEW w \in Writes, KeepFacts(w)
    PROVE  /\ pc[w] = "keep" /\ job[w].at \in Contracts
           /\ cached' = [cached EXCEPT ![job[w].at] = Facts(w, job[w].at)]
           /\ GoesOn(w, job[w].todo)
<1>0. pc[w] = "keep" /\ Saved(w, job[w])
    BY DEF KeepFacts
<1>1. job[w] \in Jobs /\ job[w].at \in Contracts
    BY <1>0, UnderHolds DEF TInv, Under
<1>2. GoesOn(w, job[w].todo)
    BY <1>0, <1>1, SavedIs
<1> QED BY <1>0, <1>1, <1>2 DEF KeepFacts, Facts

\* What a write saves is a manifest, or nothing.
LEMMA FactsType ==
    ASSUME TInv, NEW w \in Writes, NEW c \in Contracts, pc[w] \in Under
    PROVE  Facts(w, c) \in Manifest \cup {None}
<1>1. job[w].bound \in [Contracts -> Comps] /\ job[w].before \in [Contracts -> Known]
    BY UnderHolds DEF TInv
<1>2. job[w].bound[c] \in Comps /\ job[w].before[c] \in Manifest \cup {None, Unknown}
    BY <1>1 DEF Known
<1> QED BY <1>2, AfterType DEF Facts

\* A write that goes on with its contracts is typed.
LEMMA GoesOnType ==
    ASSUME TInv, NEW w \in Writes, NEW T, pc[w] \in Under, GoesOn(w, T), by' = by
    PROVE  WritesInv'
<1>1. WritesInv
    BY DEF TInv
<1>2. CASE Goes(w, "done", NoJob)
    BY <1>1, <1>2, OverGoes
<1>3. ASSUME NEW p \in {"save", "keep"}, NEW j \in Jobs, Goes(w, p, j),
             j.kind = job[w].kind, j.bound = job[w].bound, j.before = job[w].before,
             p = "keep" => j.at \in Contracts
      PROVE  WritesInv'
  <2>1. /\ job[w].kind \in Kinds
        /\ job[w].bound \in [Contracts -> Comps] /\ job[w].before \in [Contracts -> Known]
      BY <1>1, UnderHolds
  <2>2. p \in Under
      BY DEF Under
  <2>3. p \in {"look", "keep"} => j.at \in Contracts
      BY <1>3
  <2> QED BY <1>1, <1>3, <2>1, <2>2, <2>3, UnderGoes
<1> QED BY <1>2, <1>3 DEF GoesOn

\* A publication.
LEMMA PublishType ==
    ASSUME TInv, NEW w \in Writes,
           \/ Look(w) \/ List(w) \/ Install(w) \/ KeepFacts(w)
           \/ \E c \in Contracts : Load(w, c) \/ SaveFacts(w, c)
           \/ \E f \in Writes : RemoveFile(w, f)
    PROVE  TInv'
<1>1. DirInv /\ WritesInv /\ TasksInv
    BY DEF TInv
<1>2. UNCHANGED <<remote, comp, by, task>>
    BY DEF Look, List, Install, KeepFacts, Load, SaveFacts, RemoveFile, dirVars
<1>3. TasksInv'
    BY <1>1, <1>2 DEF TasksInv, Does
<1>4. pc[w] \in Under
    BY DEF Look, List, Install, KeepFacts, Load, SaveFacts, RemoveFile, Under
<1>5. /\ job[w] \in Jobs /\ job[w].kind \in Kinds
      /\ job[w].bound \in [Contracts -> Comps] /\ job[w].before \in [Contracts -> Known]
      /\ pc[w] \in {"look", "keep"} => job[w].at \in Contracts
    BY <1>1, <1>4, UnderHolds
<1>6. CASE Look(w)
  <2>1. PICK p \in Under, j \in Jobs :
                 /\ Goes(w, p, j) /\ j.kind = job[w].kind /\ j.bound = job[w].bound
                 /\ p = IF j.todo = {} THEN "install" ELSE "load"
                 /\ j.before = [job[w].before EXCEPT ![job[w].at] = Before(files)]
      BY <1>6, LookIs
  <2>2. Before(files) \in Known
      BY DEF Before, Known
  <2>3. j.before \in [Contracts -> Known]
      BY <1>5, <2>1, <2>2
  <2>4. WritesInv'
    <3>1. p \notin {"look", "keep"}
        BY <2>1
    <3> QED BY <1>1, <1>2, <1>4, <1>5, <2>1, <2>3, <3>1, UnderGoes
  <2>5. DirInv'
      BY <1>1, <1>6 DEF Look, DirInv, dirVars
  <2> QED BY <1>3, <2>4, <2>5 DEF TInv
<1>7. CASE List(w)
  <2>1. PICK p \in Under, j \in Jobs :
                 /\ Goes(w, p, j) /\ j.kind = job[w].kind /\ j.bound = job[w].bound
                 /\ j.before = job[w].before /\ p = IF files = {} THEN "install" ELSE "remove"
      BY <1>7, ListIs
  <2>2. p \notin {"look", "keep"}
      BY <2>1
  <2>3. WritesInv'
      BY <1>1, <1>2, <1>4, <1>5, <2>1, <2>2, UnderGoes
  <2>4. DirInv'
      BY <1>1, <1>7 DEF List, DirInv, dirVars
  <2> QED BY <1>3, <2>3, <2>4 DEF TInv
<1>8. CASE Install(w)
  <2>1. PICK j \in Jobs :
                 /\ Goes(w, "save", j) /\ j.kind = job[w].kind /\ j.bound = job[w].bound
                 /\ j.before = job[w].before
      BY <1>8, InstallIs
  <2>2. "save" \in Under
      BY DEF Under
  <2>3. WritesInv'
      BY <1>1, <1>2, <1>4, <1>5, <2>1, <2>2, UnderGoes
  <2>4. DirInv'
      BY <1>1, <1>8 DEF Install, DirInv
  <2> QED BY <1>3, <2>3, <2>4 DEF TInv
<1>9. CASE KeepFacts(w)
  <2>1. /\ GoesOn(w, job[w].todo) /\ cached' = [cached EXCEPT ![job[w].at] = Facts(w, job[w].at)]
        /\ job[w].at \in Contracts
      BY <1>9, KeepIs
  <2>2. WritesInv'
      BY <1>2, <1>4, <2>1, GoesOnType
  <2>3. Facts(w, job[w].at) \in Manifest \cup {None}
      BY <1>4, <2>1, FactsType
  <2>4. UNCHANGED <<remote, files, manifest, comp>>
      BY <1>9 DEF KeepFacts
  <2>5. DirInv'
      BY <1>1, <2>1, <2>3, <2>4 DEF DirInv
  <2> QED BY <1>3, <2>2, <2>5 DEF TInv
<1>10. ASSUME NEW c \in Contracts, Load(w, c) PROVE TInv'
  <2>1. PICK p \in Under, j \in Jobs :
                 /\ Goes(w, p, j) /\ j.kind = job[w].kind /\ j.bound = job[w].bound
                 /\ \/ p = "look" /\ j.at = c /\ j.before = job[w].before
                    \/ /\ p = IF j.todo = {} THEN "install" ELSE "load"
                       /\ j.before = [job[w].before EXCEPT ![c] = manifest[c]]
      BY <1>10, LoadIs
  <2>2. manifest[c] \in Known
      BY <1>1 DEF DirInv, Known
  <2>3. j.before \in [Contracts -> Known]
      BY <1>5, <2>1, <2>2
  <2>4. p \in {"look", "keep"} => j.at \in Contracts
      BY <2>1
  <2>5. WritesInv'
      BY <1>1, <1>2, <1>4, <1>5, <2>1, <2>3, <2>4, UnderGoes
  <2>6. DirInv'
      BY <1>1, <1>10 DEF Load, DirInv, dirVars
  <2> QED BY <1>3, <2>5, <2>6 DEF TInv
<1>11. ASSUME NEW c \in Contracts, SaveFacts(w, c) PROVE TInv'
  <2>1. GoesOn(w, job[w].todo \ {c}) /\ manifest' = [manifest EXCEPT ![c] = Facts(w, c)]
      BY <1>11, SaveIs
  <2>2. WritesInv'
      BY <1>2, <1>4, <2>1, GoesOnType
  <2>3. Facts(w, c) \in Manifest \cup {None}
      BY <1>4, FactsType
  <2>4. UNCHANGED <<remote, files, cached, comp>>
      BY <1>11 DEF SaveFacts
  <2>5. DirInv'
      BY <1>1, <2>1, <2>3, <2>4 DEF DirInv
  <2> QED BY <1>3, <2>2, <2>5 DEF TInv
<1>12. ASSUME NEW f \in Writes, RemoveFile(w, f) PROVE TInv'
  <2>1. PICK p \in Under, j \in Jobs :
                 /\ Goes(w, p, j) /\ j.kind = job[w].kind /\ j.bound = job[w].bound
                 /\ j.before = job[w].before /\ p = IF job[w].doomed = {f} THEN "install" ELSE "remove"
      BY <1>12, RemoveIs
  <2>2. p \notin {"look", "keep"}
      BY <2>1
  <2>3. WritesInv'
      BY <1>1, <1>2, <1>4, <1>5, <2>1, <2>2, UnderGoes
  <2>4. DirInv'
      BY <1>1, <1>12 DEF RemoveFile, DirInv
  <2> QED BY <1>3, <2>3, <2>4 DEF TInv
<1> QED BY <1>6, <1>7, <1>8, <1>9, <1>10, <1>11, <1>12

\* A query goes on, a validation is over (Engine::refresh).
LEMMA RecordedDoes ==
    ASSUME NEW t, Does(t), t.stage # "idle"
    PROVE  Does(Recorded(t))
<1>1. CASE t.use = "validate"
    BY <1>1 DEF Recorded, Does, Idle, Tasks, Stages
<1>2. CASE t.use # "validate"
  <2>1. t \in Tasks /\ t.contract \in Contracts
      BY DEF Does
  <2>2. PICK u : u = [t EXCEPT !.stage = "resolve", !.comp = None, !.seen = {}, !.found = None]
      OBVIOUS
  <2>3. u \in Tasks /\ u.stage = "resolve" /\ u.contract = t.contract
      BY <2>1, <2>2 DEF Tasks, Stages
  <2>4. Recorded(t) = u
      BY <1>2, <2>2 DEF Recorded
  <2> QED BY <2>1, <2>3, <2>4 DEF Does
<1> QED BY <1>1, <1>2

\* What a step of a reader makes of its state.
LEMMA ReaderDoes ==
    ASSUME TInv, NEW r \in Readers,
           \/ \E c \in Contracts : Validate(r, c) \/ \E x \in BOOLEAN : Query(r, c, x)
           \/ EnsureManifest(r) \/ LookForFiles(r) \/ Scan(r) \/ Entries(r) \/ Record(r)
           \/ KeepManifest(r) \/ Resolve(r) \/ View(r) \/ Read(r) \/ Leave(r)
    PROVE  \E t : Becomes(r, t) /\ Does(t)
<1> DEFINE t == task[r]
<1>1. Does(t) /\ t \in Tasks
    BY DEF TInv, TasksInv, Does
<1>2. /\ files \in SUBSET Writes /\ comp \in [Contracts -> Comps]
      /\ manifest \in [Contracts -> Manifest \cup {None}]
    BY DEF TInv, DirInv
<1>3. Does(Idle)
    BY DEF Idle, Does, Tasks, Stages
<1> HIDE DEF t
<1>4. ASSUME NEW c \in Contracts, Validate(r, c) PROVE \E u : Becomes(r, u) /\ Does(u)
  <2>1. PICK u : u = [Idle EXCEPT !.stage = "scan", !.use = "validate", !.contract = c]
      OBVIOUS
  <2>2. Does(u)
      BY <2>1 DEF Idle, Does, Tasks, Stages
  <2> QED BY <1>4, <2>1, <2>2 DEF Validate
<1>5. ASSUME NEW c \in Contracts, NEW x \in BOOLEAN, Query(r, c, x) PROVE \E u : Becomes(r, u) /\ Does(u)
  <2>1. PICK u : u = [Idle EXCEPT !.stage = "ensure", !.use = "query", !.contract = c, !.refuse = x]
      OBVIOUS
  <2>2. Does(u)
      BY <2>1 DEF Idle, Does, Tasks, Stages
  <2> QED BY <1>5, <2>1, <2>2 DEF Query
<1>6. CASE EnsureManifest(r)
  <2>1. t.stage = "ensure" /\ t.contract \in Contracts
      BY <1>1, <1>6 DEF EnsureManifest, Does, t
  <2>2. PICK m \in Manifest \cup {None} : m = manifest[t.contract]
      BY <1>2, <2>1
  <2>3. CASE m # None /\ remote
    <3>1. PICK u : u = [t EXCEPT !.stage = "keep", !.found = m]
        OBVIOUS
    <3>2. u \in Tasks /\ u.stage = "keep" /\ u.contract = t.contract
        BY <1>1, <3>1 DEF Tasks, Stages
    <3>3. Becomes(r, u)
        BY <1>6, <2>2, <2>3, <3>1 DEF EnsureManifest, t
    <3> QED BY <2>1, <3>2, <3>3 DEF Does
  <2>4. CASE ~(m # None /\ remote)
    <3>1. PICK st \in {"look", "resolve"} : Becomes(r, [t EXCEPT !.stage = st])
        BY <1>6, <2>2, <2>4 DEF EnsureManifest, t
    <3>2. PICK u : u = [t EXCEPT !.stage = st]
        OBVIOUS
    <3>3. u \in Tasks /\ u.stage = st /\ u.contract = t.contract
        BY <1>1, <3>2 DEF Tasks, Stages
    <3> QED BY <2>1, <3>1, <3>2, <3>3 DEF Does
  <2> QED BY <2>3, <2>4
<1>7. CASE LookForFiles(r)
  <2>1. t.stage = "look" /\ t.contract \in Contracts
      BY <1>1, <1>7 DEF LookForFiles, Does, t
  <2>2. PICK st \in {"resolve", "scan"} : Becomes(r, [t EXCEPT !.stage = st])
      BY <1>7 DEF LookForFiles, t
  <2>3. PICK u : u = [t EXCEPT !.stage = st]
      OBVIOUS
  <2>4. u \in Tasks /\ u.stage = st /\ u.contract = t.contract
      BY <1>1, <2>3 DEF Tasks, Stages
  <2> QED BY <2>1, <2>2, <2>3, <2>4 DEF Does
<1>8. CASE Scan(r)
  <2>1. t.stage = "scan" /\ t.contract \in Contracts
      BY <1>1, <1>8 DEF Scan, Does, t
  <2>2. PICK k \in Comps : k = comp[t.contract]
      BY <1>2, <2>1
  <2>3. PICK u : u = [t EXCEPT !.stage = "entries", !.comp = k, !.seen = files]
      OBVIOUS
  <2>4. u \in Tasks /\ u.stage = "entries" /\ u.contract = t.contract /\ u.comp = k
      BY <1>1, <1>2, <2>3 DEF Tasks, Stages
  <2>5. Becomes(r, u)
      BY <1>8, <2>2, <2>3 DEF Scan, t
  <2> QED BY <2>1, <2>4, <2>5 DEF Does
<1>9. CASE Entries(r)
  <2>1. t.stage = "entries" /\ t.contract \in Contracts /\ t.comp \in Comps
      BY <1>1, <1>9 DEF Entries, Does, t
  <2>2. t.seen \in SUBSET Writes
      BY <1>1 DEF Tasks
  <2>3. PICK m \in Manifest : m = Counted(t.comp, t.seen, files)
      BY <1>2, <2>1, <2>2, CountedType
  <2>4. PICK u : u = [t EXCEPT !.stage = "record", !.found = m]
      OBVIOUS
  <2>5. u \in Tasks /\ u.stage = "record" /\ u.contract = t.contract
      BY <1>1, <2>4 DEF Tasks, Stages
  <2>6. Becomes(r, u)
      BY <1>9, <2>3, <2>4 DEF Entries, t
  <2> QED BY <2>1, <2>5, <2>6 DEF Does
<1>10. CASE Record(r)
  <2>1. t.stage = "record" /\ t.contract \in Contracts
      BY <1>1, <1>10 DEF Record, Does, t
  <2>2. CASE remote
    <3>1. PICK u : u = [t EXCEPT !.stage = "keep"]
        OBVIOUS
    <3>2. u \in Tasks /\ u.stage = "keep" /\ u.contract = t.contract
        BY <1>1, <3>1 DEF Tasks, Stages
    <3>3. Becomes(r, u)
        BY <1>10, <2>2, <3>1 DEF Record, t
    <3> QED BY <2>1, <3>2, <3>3 DEF Does
  <2>3. CASE ~remote
    <3>1. Becomes(r, Recorded(t))
        BY <1>10, <2>3 DEF Record, t
    <3> QED BY <1>1, <2>1, <3>1, RecordedDoes
  <2> QED BY <2>2, <2>3
<1>11. CASE KeepManifest(r)
  <2>1. t.stage = "keep" /\ Becomes(r, Recorded(t))
      BY <1>11 DEF KeepManifest, t
  <2> QED BY <1>1, <2>1, RecordedDoes
<1>12. CASE Resolve(r)
  <2>1. t.stage = "resolve" /\ t.contract \in Contracts
      BY <1>1, <1>12 DEF Resolve, Does, t
  <2>2. CASE Becomes(r, Idle)
      BY <1>3, <2>2
  <2>3. CASE ~Becomes(r, Idle)
    <3>1. PICK x \in BOOLEAN : Becomes(r, [t EXCEPT !.stage = "view", !.refuse = FALSE, !.stored = x])
      <4>1. PICK m : m = IF remote THEN cached[t.contract] ELSE manifest[t.contract]
          OBVIOUS
      <4>2. Becomes(r, [t EXCEPT !.stage = "view", !.refuse = FALSE,
                                 !.stored = FlagsCurrent(m, t.contract, comp[t.contract])])
          BY <1>12, <2>3, <4>1, Zenon DEF Resolve, t
      <4>3. FlagsCurrent(m, t.contract, comp[t.contract]) \in BOOLEAN
          BY Zenon DEF FlagsCurrent
      <4> QED BY <4>2, <4>3
    <3>2. PICK u : u = [t EXCEPT !.stage = "view", !.refuse = FALSE, !.stored = x]
        OBVIOUS
    <3>3. u \in Tasks /\ u.stage = "view" /\ u.contract = t.contract
        BY <1>1, <3>2 DEF Tasks, Stages
    <3> QED BY <2>1, <3>1, <3>2, <3>3 DEF Does
  <2> QED BY <2>2, <2>3
<1>13. CASE View(r)
  <2>1. t.stage = "view" /\ t.contract \in Contracts
      BY <1>1, <1>13 DEF View, Does, t
  <2>2. PICK k \in Comps : k = comp[t.contract]
      BY <1>2, <2>1
  <2>3. PICK u : u = [t EXCEPT !.stage = "read", !.comp = k]
      OBVIOUS
  <2>4. u \in Tasks /\ u.stage = "read" /\ u.contract = t.contract
      BY <1>1, <2>3 DEF Tasks, Stages
  <2>5. Becomes(r, u)
      BY <1>13, <2>2, <2>3 DEF View, t
  <2> QED BY <2>1, <2>4, <2>5 DEF Does
<1>14. CASE Read(r)
  <2>1. t.stage = "read" /\ t.contract \in Contracts
      BY <1>1, <1>14 DEF Read, Does, t
  <2>2. PICK S \in SUBSET Writes : S = {f \in files : Keeps(f, t.comp, t.stored)}
      BY <1>2
  <2>3. PICK u : u = [t EXCEPT !.stage = "answered", !.seen = S]
      OBVIOUS
  <2>4. u \in Tasks /\ u.stage = "answered" /\ u.contract = t.contract
      BY <1>1, <2>3 DEF Tasks, Stages
  <2>5. Becomes(r, u)
      BY <1>14, <2>2, <2>3 DEF Read, t
  <2> QED BY <2>1, <2>4, <2>5 DEF Does
<1>15. CASE Leave(r)
    BY <1>3, <1>15 DEF Leave
<1> QED BY <1>4, <1>5, <1>6, <1>7, <1>8, <1>9, <1>10, <1>11, <1>12, <1>13, <1>14, <1>15

\* A reader keeps the types; what it records it has found.
LEMMA ReaderType ==
    ASSUME TInv, NEW r \in Readers,
           \/ \E c \in Contracts : Validate(r, c) \/ \E x \in BOOLEAN : Query(r, c, x)
           \/ EnsureManifest(r) \/ LookForFiles(r) \/ Scan(r) \/ Entries(r) \/ Record(r)
           \/ KeepManifest(r) \/ Resolve(r) \/ View(r) \/ Read(r) \/ Leave(r)
    PROVE  TInv'
<1>1. PICK t : Becomes(r, t) /\ Does(t)
    BY ReaderDoes
<1>2. TasksInv'
    BY <1>1, OneTask DEF TInv, Becomes
<1>3. UNCHANGED <<remote, files, comp, pc, by, job>>
    BY <1>1 DEF Becomes, writeVars
<1>4. WritesInv'
    BY <1>3 DEF TInv, WritesInv, Holds
<1>5. Does(task[r])
    BY DEF TInv, TasksInv
<1>6. task[r].stage # "idle" => task[r].contract \in Contracts /\ task[r].found \in Manifest \cup {None}
    BY <1>5 DEF Does, Tasks
<1>7. /\ manifest' \in [Contracts -> Manifest \cup {None}]
      /\ cached' \in [Contracts -> Manifest \cup {None}]
  <2>1. manifest \in [Contracts -> Manifest \cup {None}] /\ cached \in [Contracts -> Manifest \cup {None}]
      BY DEF TInv, DirInv
  <2>2. \/ UNCHANGED <<manifest, cached>>
        \/ /\ task[r].stage = "record" /\ cached' = cached
           /\ manifest' = [manifest EXCEPT ![task[r].contract] = task[r].found]
        \/ /\ task[r].stage = "keep" /\ manifest' = manifest
           /\ cached' = [cached EXCEPT ![task[r].contract] = task[r].found]
      BY DEF Validate, Query, EnsureManifest, LookForFiles, Scan, Entries, Record, KeepManifest,
             Resolve, View, Read, Leave
  <2> QED BY <1>6, <2>1, <2>2
<1>8. DirInv'
    BY <1>3, <1>7 DEF TInv, DirInv
<1> QED BY <1>2, <1>4, <1>8 DEF TInv

\* Every step keeps the state typed.
LEMMA TStep == TInv /\ [Next]_vars => TInv'
<1> SUFFICES ASSUME TInv, [Next]_vars PROVE TInv'
    OBVIOUS
<1>1. CASE UNCHANGED vars
    BY <1>1 DEF TInv, DirInv, WritesInv, TasksInv, Holds, Does, vars, dirVars, writeVars
<1>2. ASSUME NEW w \in Writes, NEW c \in Contracts, NEW k \in Kinds, NEW p \in Policies, BeginWrite(w, c, k, p)
      PROVE  TInv'
    BY <1>2, BeginType
<1>3. ASSUME NEW w \in Writes, FinishWrite(w) \/ Look(w) \/ List(w) \/ Install(w) \/ KeepFacts(w) \/ Stop(w)
      PROVE  TInv'
    BY <1>3, FinishType, StopType, PublishType
<1>4. ASSUME NEW w \in Writes, NEW c \in Contracts, Load(w, c) \/ SaveFacts(w, c) PROVE TInv'
    BY <1>4, PublishType
<1>5. ASSUME NEW w \in Writes, NEW f \in Writes, RemoveFile(w, f) PROVE TInv'
    BY <1>5, PublishType
<1>6. ASSUME NEW r \in Readers, NEW c \in Contracts, Validate(r, c) PROVE TInv'
    BY <1>6, ReaderType
<1>7. ASSUME NEW r \in Readers, NEW c \in Contracts, NEW x \in BOOLEAN, Query(r, c, x) PROVE TInv'
    BY <1>7, ReaderType
<1>8. ASSUME NEW r \in Readers,
             \/ EnsureManifest(r) \/ LookForFiles(r) \/ Scan(r) \/ Entries(r) \/ Record(r)
             \/ KeepManifest(r) \/ Resolve(r) \/ View(r) \/ Read(r) \/ Leave(r)
      PROVE  TInv'
    BY <1>8, ReaderType
<1>9. ASSUME NEW c \in Contracts, NEW k \in Comps, Register(c, k) PROVE TInv'
  <2>1. comp' \in [Contracts -> Comps]
      BY <1>9 DEF Register, TInv, DirInv
  <2>2. UNCHANGED <<remote, dirVars, writeVars, task>>
      BY <1>9 DEF Register
  <2> QED BY <2>1, <2>2 DEF TInv, DirInv, WritesInv, TasksInv, Holds, Does, dirVars, writeVars
<1> QED BY <1>1, <1>2, <1>3, <1>4, <1>5, <1>6, <1>7, <1>8, <1>9 DEF Next

\* The state is well typed, whatever overlaps or stops: in particular the rate of nulls
\* that combined_stats computes from two rounded rates is a rate, and a write holds what
\* it has staged exactly as long as it runs (Staged::drop).
THEOREM FileTypes == Spec => []TypeOK
<1>1. Spec => []TInv
    BY TInit, TStep, PTL DEF Spec
<1> QED BY <1>1, TInvType, PTL

(***************************************************************************)
(* Manifests describe their files, when publications and validations do    *)
(* not overlap.  The code serialises neither: the hypothesis is about how  *)
(* the engine is used.                                                     *)
(***************************************************************************)
Alone ==
    /\ \A v, w \in Publishing : v = w
    /\ \A q, r \in Refreshing : q = r
    /\ Publishing = {} \/ Refreshing = {}

SerialSpec == Init /\ [][Next /\ Alone']_vars

\* The writes whose files are, or were, or may be, under the binding.
Placed == {w \in Writes : pc[w] \in {"elsewhere", "save", "keep", "done", "torn"}}

\* The manifest m counts the rows of the files it lists.
Exact(m) == m.files \subseteq Placed /\ m.comp \in Comps /\ m = Counted(m.comp, m.files, m.files)

\* It lists the files that are there, but for those of writes that stopped halfway.
Covers(m) == files \ m.files \subseteq Torn /\ (Torn = {} => m.files = files)

\* What a contract knows, b, is about the files that are there.
Ready(b) ==
    /\ b = None => files = {}
    /\ b \notin {None, Unknown} => Exact(b) /\ Covers(b)

\* It was, before the file of w was put there.
Added(b, w) ==
    /\ b = None => files = {w}
    /\ b \notin {None, Unknown} => /\ Exact(b) /\ w \notin b.files
                                   /\ files \ b.files \subseteq Torn \cup {w}
                                   /\ Torn = {} => files = b.files \cup {w}

\* The contracts whose knowledge w has yet to load.
Pending(w) == IF pc[w] = "load" THEN job[w].todo
              ELSE IF pc[w] = "look" THEN job[w].todo \cup {job[w].at} ELSE {}

\* The manifest of c does.
CoversAt(c) == manifest[c] # None => Covers(manifest[c])

\* How far the write w has come.
Publishes(w) ==
    /\ pc[w] \in {"load", "look", "list"} => \A c \in Contracts : CoversAt(c)
    /\ pc[w] \in {"load", "look", "install"} =>
          \A c \in Contracts \ Pending(w) : Ready(job[w].before[c])
    /\ pc[w] \in {"list", "remove"} => \A c \in Contracts : job[w].before[c] = None
    /\ pc[w] = "remove" => files \subseteq job[w].doomed
    /\ pc[w] \in {"save", "keep"} =>
          /\ \A c \in Contracts : Added(job[w].before[c], w)
          /\ \A c \in Contracts \ job[w].todo : CoversAt(c)

\* How far a validation has come.
Refreshes(t) ==
    /\ t.stage = "entries" => t.seen = files
    /\ t.stage = "record" => Exact(t.found) /\ t.found.files = files

\* The manifest of c counts its files exactly, and misses no file but one being published
\* or left by a write that stopped halfway.
ExactAt(c) ==
    manifest[c] # None => Exact(manifest[c]) /\ files \ manifest[c].files \subseteq Torn \cup Publishing

\* The inductive invariant of the manifests.
ManifestInv ==
    /\ files \subseteq Placed
    /\ \A c \in Contracts : ExactAt(c)
    /\ Publishing = {} => \A c \in Contracts : CoversAt(c)
    /\ \A w \in Publishing : Publishes(w)
    /\ \A r \in Refreshing : Refreshes(task[r])

SInv == TInv /\ Alone /\ ManifestInv

\* Where a write is in Placed.
Places == {"elsewhere", "save", "keep", "done", "torn"}

\* Where a step of one write leaves it.
LEMMA Moves ==
    ASSUME WritesInv, NEW w \in Writes, NEW p \in PCs, NEW j, Goes(w, p, j)
    PROVE  /\ pc'[w] = p /\ job'[w] = j
           /\ \A v \in Writes \ {w} : pc'[v] = pc[v] /\ job'[v] = job[v]
           /\ Publishing' = IF p \in Under THEN Publishing \cup {w} ELSE Publishing \ {w}
           /\ Torn' = IF p = "torn" THEN Torn \cup {w} ELSE Torn \ {w}
           /\ Placed' = IF p \in Places THEN Placed \cup {w} ELSE Placed \ {w}
<1>1. pc \in [Writes -> PCs] /\ job \in [Writes -> Jobs]
    BY DEF WritesInv
<1>2. pc' = [pc EXCEPT ![w] = p] /\ job' = [job EXCEPT ![w] = j]
    BY DEF Goes
<1>3. pc'[w] = p /\ job'[w] = j
    BY <1>1, <1>2
<1>4. \A v \in Writes \ {w} : pc'[v] = pc[v] /\ job'[v] = job[v]
    BY <1>1, <1>2
<1>5. Publishing' = IF p \in Under THEN Publishing \cup {w} ELSE Publishing \ {w}
    BY <1>3, <1>4 DEF Publishing, Under
<1>6. Torn' = IF p = "torn" THEN Torn \cup {w} ELSE Torn \ {w}
    BY <1>3, <1>4 DEF Torn
<1>7. Placed' = IF p \in Places THEN Placed \cup {w} ELSE Placed \ {w}
    BY <1>3, <1>4 DEF Placed, Places
<1> QED BY <1>3, <1>4, <1>5, <1>6, <1>7

\* A write that publishes is the only one.
LEMMA Only ==
    ASSUME Alone, NEW w \in Writes, pc[w] \in Under
    PROVE  Publishing = {w} /\ Refreshing = {}
<1>1. w \in Publishing
    BY DEF Publishing, Under
<1> QED BY <1>1 DEF Alone

\* What is known of files stays true while they stay.
LEMMA Stays ==
    ASSUME files' = files, Torn' = Torn, Placed \subseteq Placed'
    PROVE  /\ \A m : Exact(m) => Exact(m)'
           /\ \A m : Covers(m) => Covers(m)'
           /\ \A m : Ready(m) => Ready(m)'
           /\ \A m, w : Added(m, w) => Added(m, w)'
<1>1. ASSUME NEW m, Exact(m) PROVE Exact(m)'
    BY <1>1 DEF Exact
<1>2. ASSUME NEW m, Covers(m) PROVE Covers(m)'
    BY <1>2 DEF Covers
<1>3. ASSUME NEW m, Ready(m) PROVE Ready(m)'
    BY <1>1, <1>2, <1>3 DEF Ready
<1>4. ASSUME NEW m, NEW w, Added(m, w) PROVE Added(m, w)'
    BY <1>1, <1>4 DEF Added
<1> QED BY <1>1, <1>2, <1>3, <1>4

\* A step that touches neither the directory nor a publication.
LEMMA Aside ==
    ASSUME ManifestInv, files' = files, manifest' = manifest, Torn' = Torn, Placed' = Placed,
           Publishing' = Publishing, \A v \in Publishing : pc'[v] = pc[v] /\ job'[v] = job[v],
           \A r \in Refreshing' : Refreshes(task[r])'
    PROVE  ManifestInv'
<1>1. /\ \A m : Exact(m) => Exact(m)'
      /\ \A m : Covers(m) => Covers(m)'
      /\ \A m : Ready(m) => Ready(m)'
      /\ \A m, w : Added(m, w) => Added(m, w)'
    BY Stays
<1>2. \A c \in Contracts : (ExactAt(c) => ExactAt(c)') /\ (CoversAt(c) => CoversAt(c)')
    BY <1>1 DEF ExactAt, CoversAt
<1>3. ASSUME NEW w \in Publishing PROVE Publishes(w)'
  <2>1. Publishes(w) /\ pc'[w] = pc[w] /\ job'[w] = job[w]
      BY DEF ManifestInv
  <2>2. Pending(w)' = Pending(w)
      BY <2>1 DEF Pending
  <2> QED BY <1>1, <1>2, <2>1, <2>2 DEF Publishes
<1>4. (\A c \in Contracts : ExactAt(c)') /\ (Publishing' = {} => \A c \in Contracts : CoversAt(c)')
    BY <1>2 DEF ManifestInv
<1>5. files' \subseteq Placed'
    BY DEF ManifestInv
<1> QED BY <1>3, <1>4, <1>5 DEF ManifestInv

\* The validations under way stay as they are when nothing of theirs changes.
LEMMA RefreshStays ==
    ASSUME ManifestInv, files' = files, Placed \subseteq Placed', task' = task
    PROVE  \A r \in Refreshing' : Refreshes(task[r])'
<1> SUFFICES ASSUME NEW r \in Refreshing' PROVE Refreshes(task[r])'
    OBVIOUS
<1>1. r \in Refreshing /\ Refreshes(task[r])
    BY DEF Refreshing, ManifestInv
<1>2. \A m : Exact(m) => Exact(m)'
    BY DEF Exact
<1> QED BY <1>1, <1>2 DEF Refreshes

\* No manifest, and nothing under way.
LEMMA SInit == Init => SInv
<1> SUFFICES ASSUME Init PROVE SInv
    OBVIOUS
<1>1. TInv
    BY TInit
<1>2. Publishing = {}
    BY DEF Init, Publishing
<1>3. Refreshing = {}
    BY DEF Init, Refreshing, Idle
<1>4. files \subseteq Placed
    BY DEF Init, Placed
<1>5. \A c \in Contracts : manifest[c] = None
    BY DEF Init
<1>6. ManifestInv
    BY <1>2, <1>3, <1>4, <1>5 DEF ManifestInv, ExactAt, CoversAt
<1> QED BY <1>1, <1>2, <1>3, <1>6 DEF SInv, Alone

\* A write begins, is refused, or begins to publish.
LEMMA BeginManifests ==
    ASSUME SInv, Alone', NEW w \in Writes,
           \/ \E c \in Contracts, k \in Kinds, p \in Policies : BeginWrite(w, c, k, p)
           \/ FinishWrite(w)
    PROVE  ManifestInv'
<1>1. WritesInv /\ ManifestInv /\ Alone
    BY DEF SInv, TInv
<1>2. files' = files /\ manifest' = manifest /\ task' = task
    BY DEF BeginWrite, FinishWrite, dirVars
<1>3. pc[w] \in {"idle", "writing"}
    BY DEF BeginWrite, FinishWrite
<1>4. w \notin Publishing /\ w \notin Torn /\ w \notin Placed
    BY <1>3 DEF Publishing, Torn, Placed
<1>5. CASE \E p \in {"writing", "refused"} : \E j : Goes(w, p, j)
  <2>1. PICK p \in {"writing", "refused"} : \E j : Goes(w, p, j)
      BY <1>5
  <2>2. p \in PCs /\ p \notin Under /\ p \notin Places /\ p # "torn"
      BY DEF PCs, Under, Places
  <2>3. /\ Publishing' = Publishing /\ Torn' = Torn /\ Placed' = Placed
        /\ \A v \in Writes \ {w} : pc'[v] = pc[v] /\ job'[v] = job[v]
    <3>1. /\ Publishing' = Publishing \ {w} /\ Torn' = Torn \ {w} /\ Placed' = Placed \ {w}
          /\ \A v \in Writes \ {w} : pc'[v] = pc[v] /\ job'[v] = job[v]
        BY <1>1, <2>1, <2>2, Moves
    <3> QED BY <1>4, <3>1, Zenon
  <2>4. \A v \in Publishing : pc'[v] = pc[v] /\ job'[v] = job[v]
      BY <1>4, <2>3 DEF Publishing
  <2>5. \A r \in Refreshing' : Refreshes(task[r])'
      BY <1>1, <1>2, <2>3, RefreshStays
  <2> QED BY <1>1, <1>2, <2>3, <2>4, <2>5, Aside
<1>6. CASE FinishWrite(w) /\ ~Goes(w, "refused", NoJob)
  <2>1. PICK p, j : /\ p = IF job[w].kind = "overwrite" THEN "list" ELSE "load"
                    /\ j = [job[w] EXCEPT !.bound = Bound(w), !.before = [c \in Contracts |-> None],
                                          !.todo = Contracts]
                    /\ Goes(w, p, j)
      BY <1>6 DEF FinishWrite
  <2>2. p \in PCs /\ p \in Under /\ p \notin Places /\ p \in {"load", "list"}
      BY <2>1 DEF PCs, Under, Places
  <2>3. /\ Publishing' = Publishing \cup {w} /\ Torn' = Torn /\ Placed' = Placed
        /\ pc'[w] = p /\ job'[w] = j
      BY <1>1, <1>4, <2>1, <2>2, Moves
  <2>4. Publishing = {} /\ Publishing' = {w}
      BY <1>4, <2>3 DEF Alone
  <2>5. Refreshing' = {}
      BY <2>4 DEF Alone
  <2>6. job[w] \in Jobs
      BY <1>1 DEF WritesInv
  <2>7. j.before = [c \in Contracts |-> None] /\ j.todo = Contracts
      BY <2>1, <2>6 DEF Jobs
  <2>8. /\ \A m : Exact(m) => Exact(m)'
        /\ \A m : Covers(m) => Covers(m)'
      BY <1>2, <2>3, Stays
  <2>9. \A c \in Contracts : CoversAt(c)'
      BY <1>1, <1>2, <2>4, <2>8 DEF ManifestInv, CoversAt
  <2>10. \A c \in Contracts : ExactAt(c)'
      BY <1>1, <1>2, <2>3, <2>8 DEF ManifestInv, ExactAt
  <2>11. Publishes(w)'
    <3>1. p = "load" => Contracts \ Pending(w)' = {}
        BY <2>3, <2>7 DEF Pending
    <3>2. \A c \in Contracts : job'[w].before[c] = None
        BY <2>3, <2>7
    <3> QED BY <2>2, <2>3, <2>9, <3>1, <3>2 DEF Publishes
  <2>12. files' \subseteq Placed'
      BY <1>1, <1>2, <2>3 DEF ManifestInv
  <2> QED BY <2>4, <2>5, <2>10, <2>11, <2>12 DEF ManifestInv
<1>7. \/ \E p \in {"writing", "refused"} : \E j : Goes(w, p, j)
      \/ FinishWrite(w) /\ ~Goes(w, "refused", NoJob)
    BY DEF BeginWrite
<1> QED BY <1>5, <1>6, <1>7

\* A write stops: its file may be there, and what it had removed may be listed.
LEMMA StopManifests ==
    ASSUME SInv, NEW w \in Writes, Stop(w)
    PROVE  ManifestInv'
<1>1. WritesInv /\ ManifestInv /\ Alone
    BY DEF SInv, TInv
<1>2. files' = files /\ manifest' = manifest /\ task' = task
    BY DEF Stop, dirVars
<1>3. CASE w \notin Publishing
  <2>1. pc[w] = "writing" /\ Goes(w, "stopped", NoJob)
      BY <1>3 DEF Stop
  <2>2. w \notin Torn /\ w \notin Placed /\ "stopped" \in PCs /\ "stopped" \notin Under /\ "stopped" \notin Places
      BY <2>1 DEF Torn, Placed, PCs, Under, Places
  <2>3. /\ Publishing' = Publishing /\ Torn' = Torn /\ Placed' = Placed
        /\ \A v \in Writes \ {w} : pc'[v] = pc[v] /\ job'[v] = job[v]
    <3>1. /\ Publishing' = Publishing \ {w} /\ Torn' = Torn \ {w} /\ Placed' = Placed \ {w}
          /\ \A v \in Writes \ {w} : pc'[v] = pc[v] /\ job'[v] = job[v]
        BY <1>1, <2>1, <2>2, Moves
    <3> QED BY <1>3, <2>2, <3>1, Zenon
  <2>4. \A v \in Publishing : pc'[v] = pc[v] /\ job'[v] = job[v]
      BY <1>3, <2>3 DEF Publishing
  <2>5. \A r \in Refreshing' : Refreshes(task[r])'
      BY <1>1, <1>2, <2>3, RefreshStays
  <2> QED BY <1>1, <1>2, <2>3, <2>4, <2>5, Aside
<1>4. CASE w \in Publishing
  <2>1. Goes(w, "torn", NoJob) /\ pc[w] \in Under
      BY <1>4 DEF Stop, Publishing, Under
  <2>2. Publishing = {w} /\ Refreshing = {}
      BY <1>1, <2>1, Only
  <2>3. "torn" \in PCs /\ "torn" \notin Under /\ "torn" \in Places
      BY DEF PCs, Under, Places
  <2>4. Publishing' = {} /\ Torn' = Torn \cup {w} /\ Placed' = Placed \cup {w}
      BY <1>1, <2>1, <2>2, <2>3, Moves
  <2>5. Refreshing' = {}
      BY <1>2, <2>2 DEF Refreshing
  <2>6. \A m : Exact(m) => Exact(m)'
      BY <2>4 DEF Exact
  <2>7. ASSUME NEW c \in Contracts PROVE ExactAt(c)' /\ CoversAt(c)'
    <3>1. ExactAt(c)
        BY <1>1 DEF ManifestInv
    <3> QED BY <1>2, <2>2, <2>4, <2>6, <3>1 DEF ExactAt, CoversAt, Covers
  <2>8. files' \subseteq Placed'
      BY <1>1, <1>2, <2>4 DEF ManifestInv
  <2> QED BY <2>4, <2>5, <2>7, <2>8 DEF ManifestInv
<1> QED BY <1>3, <1>4

\* A publication goes on before its file is in place.
LEMMA Onward ==
    ASSUME SInv, NEW w \in Writes, pc[w] \in Under, pc[w] \notin Places, NEW p \in Under, p \notin Places,
           NEW j, Goes(w, p, j), task' = task
    PROVE  /\ Publishing = {w} /\ Publishing' = {w} /\ Refreshing' = {}
           /\ Torn' = Torn /\ Placed' = Placed /\ w \notin Placed
           /\ pc'[w] = p /\ job'[w] = j /\ Publishes(w)
<1>1. WritesInv /\ ManifestInv /\ Alone
    BY DEF SInv, TInv
<1>2. Publishing = {w} /\ Refreshing = {}
    BY <1>1, Only
<1>3. w \notin Torn /\ w \notin Placed /\ p \in PCs /\ p # "torn"
    BY DEF Torn, Placed, Under, Places, PCs
<1>4. /\ Publishing' = {w} /\ Torn' = Torn /\ Placed' = Placed /\ pc'[w] = p /\ job'[w] = j
  <2>1. /\ Publishing' = Publishing \cup {w} /\ Torn' = Torn \ {w} /\ Placed' = Placed \ {w}
        /\ pc'[w] = p /\ job'[w] = j
      BY <1>1, <1>3, Moves
  <2> QED BY <1>2, <1>3, <2>1
<1>5. Refreshing' = {}
    BY <1>2 DEF Refreshing
<1> QED BY <1>1, <1>2, <1>3, <1>4, <1>5 DEF ManifestInv

\* A contract's knowledge is loaded, or the files are listed.
LEMMA LoadManifests ==
    ASSUME SInv, NEW w \in Writes, Look(w) \/ List(w) \/ \E c \in Contracts : Load(w, c)
    PROVE  ManifestInv'
<1>1. TInv /\ ManifestInv /\ files' = files /\ manifest' = manifest /\ task' = task
    BY DEF SInv, Look, List, Load, dirVars
<1>2. SUFFICES ASSUME NEW p \in Under, NEW j, Goes(w, p, j), Publishing = {w}, Publishing' = {w},
                      Refreshing' = {}, Torn' = Torn, Placed' = Placed, w \notin Placed,
                      pc'[w] = p, job'[w] = j, Publishes(w)
               PROVE  Publishes(w)'
  <2>1. pc[w] \in Under /\ pc[w] \notin Places
      BY DEF Look, List, Load, Under, Places
  <2>2. PICK p \in Under : p \notin Places /\ \E j : Goes(w, p, j)
    <3>1. CASE Look(w)
        BY <1>1, <3>1, LookIs DEF Places
    <3>2. CASE List(w)
        BY <1>1, <3>2, ListIs DEF Places
    <3>3. ASSUME NEW c \in Contracts, Load(w, c) PROVE \E q \in Under : q \notin Places /\ \E j : Goes(w, q, j)
        BY <1>1, <3>3, LoadIs DEF Places
    <3> QED BY <3>1, <3>2, <3>3
  <2>3. PICK j : Goes(w, p, j)
      BY <2>2
  <2>4. /\ Publishing = {w} /\ Publishing' = {w} /\ Refreshing' = {}
        /\ Torn' = Torn /\ Placed' = Placed /\ w \notin Placed
        /\ pc'[w] = p /\ job'[w] = j /\ Publishes(w)
      BY <1>1, <2>1, <2>2, <2>3, Onward
  <2>5. Publishes(w)'
      BY <1>2, <2>3, <2>4
  <2>6. \A m : Exact(m) => Exact(m)'
      BY <1>1, <2>4, Stays
  <2>7. \A c \in Contracts : ExactAt(c)'
      BY <1>1, <2>4, <2>6 DEF ManifestInv, ExactAt
  <2>8. files' \subseteq Placed'
      BY <1>1, <2>4 DEF ManifestInv
  <2> QED BY <2>4, <2>5, <2>7, <2>8 DEF ManifestInv
<1>3. /\ \A m : Exact(m) => Exact(m)'
      /\ \A m : Covers(m) => Covers(m)'
      /\ \A m : Ready(m) => Ready(m)'
    BY <1>1, <1>2, Stays
<1>4. pc[w] \in {"load", "look", "list"} /\ pc[w] \in Under
    BY DEF Look, List, Load, Under
<1>5. \A c \in Contracts : CoversAt(c)
    BY <1>2, <1>4 DEF Publishes
<1>6. \A c \in Contracts : CoversAt(c)'
    BY <1>1, <1>3, <1>5 DEF CoversAt
<1>7. /\ job[w].before \in [Contracts -> Known]
      /\ pc[w] = "look" => job[w].at \in Contracts
    BY <1>1, <1>4, UnderHolds DEF TInv
<1>8. CASE Look(w)
  <2>1. PICK q \in Under, i \in Jobs :
              /\ Goes(w, q, i) /\ i.todo = job[w].todo
              /\ q = IF i.todo = {} THEN "install" ELSE "load"
              /\ i.before = [job[w].before EXCEPT ![job[w].at] = Before(files)]
      BY <1>1, <1>8, LookIs
  <2>2. pc[w] = "look" /\ job[w].at \in Contracts
      BY <1>7, <1>8 DEF Look
  <2>3. pc'[w] = q /\ job'[w] = i
    <3>1. q \in PCs
        BY DEF PCs, Under
    <3> QED BY <1>1, <2>1, <3>1, Moves DEF TInv
  <2>4. ASSUME NEW d \in Contracts \ job[w].todo PROVE Ready(i.before[d])'
    <3>1. CASE d = job[w].at
      <4>1. i.before[d] = Before(files)
          BY <1>7, <2>1, <2>2, <3>1
      <4>2. Ready(Before(files))
          BY OptionAssumption DEF Ready, Before
      <4>3. PICK b : b = Before(files)
          OBVIOUS
      <4> QED BY <1>3, <4>1, <4>2, <4>3
    <3>2. CASE d # job[w].at
      <4>1. i.before[d] = job[w].before[d]
          BY <1>7, <2>1, <2>2, <3>2
      <4>2. d \in Contracts \ Pending(w)
          BY <2>2, <3>2 DEF Pending
      <4>3. Ready(job[w].before[d])
          BY <1>2, <2>2, <4>2 DEF Publishes
      <4> QED BY <1>3, <4>1, <4>3
    <3> QED BY <3>1, <3>2
  <2>5. Contracts \ Pending(w)' \subseteq Contracts \ job[w].todo
      BY <2>1, <2>3 DEF Pending
  <2>6. q \in {"install", "load"}
      BY <2>1
  <2>7. \A d \in Contracts \ Pending(w)' : Ready(job[w].before[d])'
      BY <2>3, <2>4, <2>5
  <2> QED BY <1>6, <2>3, <2>6, <2>7 DEF Publishes
<1>9. CASE List(w)
  <2>1. PICK q \in Under, i \in Jobs :
              /\ Goes(w, q, i) /\ i.before = job[w].before /\ i.doomed = files
              /\ q = IF files = {} THEN "install" ELSE "remove"
      BY <1>1, <1>9, ListIs
  <2>2. pc'[w] = q /\ job'[w] = i
    <3>1. q \in PCs
        BY DEF PCs, Under
    <3> QED BY <1>1, <2>1, <3>1, Moves DEF TInv
  <2>3. \A c \in Contracts : job[w].before[c] = None
      BY <1>2, <1>9 DEF List, Publishes
  <2>4. q = "install" => \A c \in Contracts : Ready(job[w].before[c])'
    <3>1. ASSUME q = "install" PROVE Ready(None)
        BY <2>1, <3>1 DEF Ready
    <3> QED BY <1>3, <2>1, <2>2, <2>3, <3>1
  <2>5. q \in {"install", "remove"}
      BY <2>1
  <2>6. files' \subseteq job'[w].doomed /\ \A c \in Contracts : job'[w].before[c] = None
      BY <1>1, <2>1, <2>2, <2>3
  <2> QED BY <2>2, <2>4, <2>5, <2>6 DEF Publishes
<1>10. ASSUME NEW c \in Contracts, Load(w, c) PROVE Publishes(w)'
  <2>1. PICK q \in Under, i \in Jobs :
                 /\ Goes(w, q, i) /\ i.todo = job[w].todo \ {c}
                 /\ \/ q = "look" /\ i.at = c /\ i.before = job[w].before
                    \/ /\ q = IF i.todo = {} THEN "install" ELSE "load"
                       /\ manifest[c] # None /\ i.before = [job[w].before EXCEPT ![c] = manifest[c]]
      BY <1>1, <1>10, LoadIs
  <2>2. pc'[w] = q /\ job'[w] = i
    <3>1. q \in PCs
        BY DEF PCs, Under
    <3> QED BY <1>1, <2>1, <3>1, Moves DEF TInv
  <2>3. pc[w] = "load"
      BY <1>10 DEF Load
  <2>4. \A d \in Contracts \ job[w].todo : Ready(job[w].before[d])
      BY <1>2, <2>3 DEF Publishes, Pending
  <2>5. q # "look" => Ready(manifest[c])
    <3>1. manifest[c] # None => Exact(manifest[c]) /\ Covers(manifest[c])
        BY <1>1, <1>5 DEF ManifestInv, ExactAt, CoversAt
    <3> QED BY <2>1, <3>1 DEF Ready
  <2>6. ASSUME NEW d \in Contracts \ Pending(w)' PROVE Ready(i.before[d])'
    <3>1. CASE q = "look"
      <4>1. d \in Contracts \ job[w].todo /\ i.before = job[w].before
          BY <2>1, <2>2, <3>1 DEF Pending
      <4> QED BY <1>3, <2>4, <4>1
    <3>2. CASE q # "look" /\ d = c
      <4>1. i.before[d] = manifest[c]
          BY <1>7, <2>1, <3>2
      <4>2. PICK b : b = manifest[c]
          OBVIOUS
      <4> QED BY <1>3, <2>5, <3>2, <4>1, <4>2
    <3>3. CASE q # "look" /\ d # c
      <4>1. i.before[d] = job[w].before[d] /\ d \in Contracts \ job[w].todo
          BY <1>7, <2>1, <2>2, <3>3 DEF Pending
      <4> QED BY <1>3, <2>4, <4>1
    <3> QED BY <3>1, <3>2, <3>3
  <2>7. q \in {"install", "load", "look"}
      BY <2>1
  <2>8. \A d \in Contracts \ Pending(w)' : Ready(job[w].before[d])'
      BY <2>2, <2>6
  <2> QED BY <1>6, <2>2, <2>7, <2>8 DEF Publishes
<1> QED BY <1>8, <1>9, <1>10

\* An overwrite removes a file.
LEMMA RemoveManifests ==
    ASSUME SInv, NEW w \in Writes, NEW f \in Writes, RemoveFile(w, f)
    PROVE  ManifestInv'
<1>1. TInv /\ ManifestInv /\ manifest' = manifest /\ task' = task
    BY DEF SInv, RemoveFile
<1>2. /\ pc[w] = "remove" /\ files' = files \ {f}
      /\ \E p \in Under, j \in Jobs :
            /\ Goes(w, p, j) /\ j.before = job[w].before /\ j.doomed = job[w].doomed \ {f}
            /\ p = IF job[w].doomed = {f} THEN "install" ELSE "remove"
    BY <1>1, RemoveIs
<1>3. PICK p \in Under, j \in Jobs :
            /\ Goes(w, p, j) /\ j.before = job[w].before /\ j.doomed = job[w].doomed \ {f}
            /\ p = IF job[w].doomed = {f} THEN "install" ELSE "remove"
    BY <1>2
<1>4. p \in {"install", "remove"}
    BY <1>3
<1>5. pc[w] \in Under /\ pc[w] \notin Places /\ p \notin Places
    BY <1>2, <1>4 DEF Under, Places
<1>6. /\ Publishing = {w} /\ Publishing' = {w} /\ Refreshing' = {}
      /\ Torn' = Torn /\ Placed' = Placed /\ pc'[w] = p /\ job'[w] = j /\ Publishes(w)
    BY <1>1, <1>3, <1>5, Onward
<1>7. files \subseteq job[w].doomed /\ \A c \in Contracts : job[w].before[c] = None
    BY <1>2, <1>6 DEF Publishes
<1>8. Publishes(w)'
  <2>1. files' \subseteq job'[w].doomed /\ \A c \in Contracts : job'[w].before[c] = None
      BY <1>2, <1>3, <1>6, <1>7
  <2>2. p = "install" => files' = {}
      BY <1>2, <1>3, <1>7
  <2>3. ASSUME p = "install", NEW c \in Contracts PROVE Ready(job[w].before[c])'
      BY <2>1, <2>2, <2>3 DEF Ready
  <2> QED BY <1>4, <1>6, <2>1, <2>3 DEF Publishes
<1>9. \A c \in Contracts : ExactAt(c)'
  <2>1. \A m : Exact(m) => Exact(m)'
      BY <1>6 DEF Exact
  <2> QED BY <1>1, <1>2, <1>6, <2>1 DEF ManifestInv, ExactAt
<1>10. files' \subseteq Placed'
    BY <1>1, <1>2, <1>6 DEF ManifestInv
<1> QED BY <1>6, <1>8, <1>9, <1>10 DEF ManifestInv

\* The file is put into place.
LEMMA InstallManifests ==
    ASSUME SInv, NEW w \in Writes, Install(w)
    PROVE  ManifestInv'
<1>1. TInv /\ WritesInv /\ Alone /\ ManifestInv /\ manifest' = manifest /\ task' = task
    BY DEF SInv, TInv, Install
<1>2. PICK j \in Jobs : Goes(w, "save", j) /\ j.todo = Contracts /\ j.before = job[w].before
    BY <1>1, InstallIs
<1>3. pc[w] = "install" /\ files' = files \cup {w} /\ pc[w] \in Under
    BY DEF Install, Under
<1>4. Publishing = {w} /\ Refreshing = {}
    BY <1>1, <1>3, Only
<1>5. w \notin Torn /\ w \notin Placed /\ "save" \in PCs /\ "save" \in Under /\ "save" \in Places
    BY <1>3 DEF Torn, Placed, PCs, Under, Places
<1>6. /\ Publishing' = {w} /\ Torn' = Torn /\ Placed' = Placed \cup {w} /\ pc'[w] = "save" /\ job'[w] = j
  <2>1. /\ Publishing' = Publishing \cup {w} /\ Torn' = Torn \ {w} /\ Placed' = Placed \cup {w}
        /\ pc'[w] = "save" /\ job'[w] = j
      BY <1>1, <1>2, <1>5, Moves
  <2> QED BY <1>4, <1>5, <2>1
<1>7. Refreshing' = {}
    BY <1>1, <1>4 DEF Refreshing
<1>8. \A m : Exact(m) => Exact(m)'
    BY <1>6 DEF Exact
<1>9. ASSUME NEW c \in Contracts PROVE Added(job[w].before[c], w)'
  <2>1. Ready(job[w].before[c])
      BY <1>1, <1>3, <1>4 DEF ManifestInv, Publishes, Pending
  <2>2. PICK b : b = job[w].before[c]
      OBVIOUS
  <2>3. Added(b, w)'
    <3>1. b = None => files' = {w}
        BY <1>3, <2>1, <2>2 DEF Ready
    <3>2. ASSUME b \notin {None, Unknown}
          PROVE  /\ Exact(b)' /\ w \notin b.files
                 /\ files' \ b.files \subseteq Torn' \cup {w}
                 /\ Torn' = {} => files' = b.files \cup {w}
      <4>1. Exact(b) /\ Covers(b)
          BY <2>1, <2>2, <3>2 DEF Ready
      <4>2. Exact(b)' /\ w \notin b.files
          BY <1>5, <1>8, <4>1 DEF Exact
      <4> QED BY <1>3, <1>6, <4>1, <4>2 DEF Covers
    <3> QED BY <3>1, <3>2 DEF Added
  <2>4. job'[w].before[c] = b
      BY <1>2, <1>6, <2>2
  <2> QED BY <2>3, <2>4
<1>10. Publishes(w)'
  <2>1. Contracts \ job'[w].todo = {}
      BY <1>2, <1>6
  <2> QED BY <1>6, <1>9, <2>1 DEF Publishes
<1>11. \A c \in Contracts : ExactAt(c)'
    BY <1>1, <1>3, <1>4, <1>6, <1>8 DEF ManifestInv, ExactAt
<1>12. files' \subseteq Placed'
    BY <1>1, <1>3, <1>6 DEF ManifestInv
<1> QED BY <1>6, <1>7, <1>10, <1>11, <1>12 DEF ManifestInv

\* What a write makes of what a contract knew is exact, and covers the files.
LEMMA AfterCovers ==
    ASSUME NEW k \in Comps, NEW w \in Placed, NEW b, Added(b, w), files \subseteq Placed,
           After(k, b, w) # None
    PROVE  Exact(After(k, b, w)) /\ Covers(After(k, b, w))
<1>1. Placed \subseteq Writes /\ w \in Writes
    BY DEF Placed
<1>2. ASSUME NEW F \in SUBSET Placed, NEW m, m = Counted(k, F, F), files \ F \subseteq Torn,
             Torn = {} => F = files
      PROVE  Exact(m) /\ Covers(m)
  <2>1. m.comp = k /\ m.files = F
      BY <1>2 DEF Counted
  <2> QED BY <1>2, <2>1 DEF Exact, Covers
<1>3. CASE b = None
  <2>1. After(k, b, w) = Counted(k, {w}, {w})
      BY <1>3 DEF After
  <2>2. files = {w}
      BY <1>3 DEF Added
  <2>3. {w} \in SUBSET Placed /\ files \ {w} \subseteq Torn
      BY <2>2
  <2> QED BY <1>2, <2>1, <2>2, <2>3
<1>4. CASE b # None
  <2>1. b # Unknown /\ b.comp = k /\ After(k, b, w) = Combined(b, Counted(k, {w}, {w}))
      BY <1>4 DEF After
  <2>2. /\ Exact(b) /\ w \notin b.files /\ files \ b.files \subseteq Torn \cup {w}
        /\ Torn = {} => files = b.files \cup {w}
      BY <1>4, <2>1 DEF Added
  <2>3. PICK F : F = b.files
      OBVIOUS
  <2>4. F \in SUBSET Placed /\ F \in SUBSET Writes /\ b = Counted(k, F, F)
      BY <1>1, <2>1, <2>2, <2>3 DEF Exact
  <2>5. After(k, b, w) = Counted(k, F \cup {w}, F \cup {w})
      BY <1>1, <2>1, <2>2, <2>3, <2>4, CombinedIs
  <2>6. /\ F \cup {w} \in SUBSET Placed /\ files \ (F \cup {w}) \subseteq Torn
        /\ Torn = {} => F \cup {w} = files
      BY <2>2, <2>3, <2>4
  <2> QED BY <1>2, <2>5, <2>6
<1> QED BY <1>3, <1>4

\* A write that saves its facts goes on to the next contract, or is done.
LEMMA GoneOn ==
    ASSUME SInv, NEW w \in Writes, pc[w] \in {"save", "keep"}, NEW T, GoesOn(w, T), task' = task
    PROVE  /\ Publishing = {w} /\ Refreshing' = {} /\ Torn' = Torn /\ Placed' = Placed /\ w \in Placed
           /\ Publishes(w)
           /\ \/ Publishing' = {} /\ T = {}
              \/ /\ Publishing' = {w} /\ pc'[w] \in {"save", "keep"}
                 /\ job'[w].todo = T /\ job'[w].before = job[w].before
<1>1. WritesInv /\ ManifestInv /\ Alone
    BY DEF SInv, TInv
<1>2. Publishing = {w} /\ Refreshing = {}
    BY <1>1, Only DEF Under
<1>3. Refreshing' = {}
    BY <1>2 DEF Refreshing
<1>4. w \notin Torn /\ w \in Placed
    BY DEF Torn, Placed
<1>5. CASE T = {} /\ Goes(w, "done", NoJob)
  <2>1. "done" \in PCs /\ "done" \notin Under /\ "done" \in Places
      BY DEF PCs, Under, Places
  <2>2. Publishing' = {} /\ Torn' = Torn /\ Placed' = Placed
    <3>1. Publishing' = Publishing \ {w} /\ Torn' = Torn \ {w} /\ Placed' = Placed \cup {w}
        BY <1>1, <1>5, <2>1, Moves
    <3> QED BY <1>2, <1>4, <3>1
  <2> QED BY <1>1, <1>2, <1>3, <1>4, <1>5, <2>2 DEF ManifestInv
<1>6. ASSUME NEW p \in {"save", "keep"}, NEW j \in Jobs, Goes(w, p, j), j.todo = T, j.before = job[w].before
      PROVE  /\ Torn' = Torn /\ Placed' = Placed /\ Publishing' = {w} /\ pc'[w] \in {"save", "keep"}
             /\ job'[w].todo = T /\ job'[w].before = job[w].before
  <2>1. p \in PCs /\ p \in Under /\ p \in Places /\ p # "torn"
      BY DEF PCs, Under, Places
  <2>2. Publishing' = {w} /\ Torn' = Torn /\ Placed' = Placed /\ pc'[w] = p /\ job'[w] = j
    <3>1. /\ Publishing' = Publishing \cup {w} /\ Torn' = Torn \ {w} /\ Placed' = Placed \cup {w}
          /\ pc'[w] = p /\ job'[w] = j
        BY <1>1, <1>6, <2>1, Moves
    <3> QED BY <1>2, <1>4, <3>1
  <2> QED BY <1>6, <2>2
<1> QED BY <1>1, <1>2, <1>3, <1>4, <1>5, <1>6 DEF GoesOn, ManifestInv

\* The manifests after it.
LEMMA KeepsOn ==
    ASSUME SInv, NEW w \in Writes, pc[w] \in {"save", "keep"}, NEW T, GoesOn(w, T), task' = task,
           files' = files,
           \A d \in Contracts : manifest'[d] # None =>
                Exact(manifest'[d]) /\ files \ manifest'[d].files \subseteq Torn \cup {w},
           \A d \in Contracts \ T : manifest'[d] # None => Covers(manifest'[d])
    PROVE  ManifestInv'
<1>1. /\ Publishing = {w} /\ Refreshing' = {} /\ Torn' = Torn /\ Placed' = Placed /\ w \in Placed
      /\ Publishes(w)
      /\ \/ Publishing' = {} /\ T = {}
         \/ /\ Publishing' = {w} /\ pc'[w] \in {"save", "keep"}
            /\ job'[w].todo = T /\ job'[w].before = job[w].before
    BY GoneOn
<1>2. /\ \A m : Exact(m) => Exact(m)'
      /\ \A m : Covers(m) => Covers(m)'
      /\ \A m, v : Added(m, v) => Added(m, v)'
    BY <1>1, Stays
<1>3. \A d \in Contracts \ T : CoversAt(d)'
  <2> SUFFICES ASSUME NEW d \in Contracts \ T, manifest'[d] # None PROVE Covers(manifest[d])'
      BY DEF CoversAt
  <2>1. PICK m : m = manifest'[d]
      OBVIOUS
  <2>2. Covers(m)
      BY <2>1
  <2> QED BY <1>2, <2>1, <2>2
<1>4. ASSUME NEW d \in Contracts PROVE ExactAt(d)'
  <2> SUFFICES ASSUME manifest'[d] # None
               PROVE  Exact(manifest[d])' /\ files' \ manifest'[d].files \subseteq Torn' \cup Publishing'
      BY DEF ExactAt
  <2>1. PICK m : m = manifest'[d]
      OBVIOUS
  <2>2. Exact(m) /\ files \ m.files \subseteq Torn \cup {w}
      BY <2>1
  <2>3. Exact(m)'
      BY <1>2, <2>2
  <2>4. CASE Publishing' = {w}
      BY <1>1, <2>1, <2>2, <2>3, <2>4
  <2>5. CASE T = {}
    <3>1. Covers(m)
        BY <2>1, <2>5
    <3> QED BY <1>1, <2>1, <2>3, <3>1 DEF Covers
  <2> QED BY <1>1, <2>4, <2>5
<1>5. ASSUME Publishing' = {w} PROVE Publishes(w)'
  <2>1. /\ pc'[w] \in {"save", "keep"} /\ job'[w].todo = T /\ job'[w].before = job[w].before
      BY <1>1, <1>5
  <2>2. \A d \in Contracts : Added(job[w].before[d], w)
      BY <1>1 DEF Publishes
  <2>3. PICK b : b = job[w].before
      OBVIOUS
  <2>4. \A d \in Contracts : Added(b[d], w)'
      BY <1>2, <2>2, <2>3
  <2>5. \A d \in Contracts : Added(job[w].before[d], w)'
      BY <2>1, <2>3, <2>4
  <2> QED BY <1>3, <2>1, <2>5 DEF Publishes
<1>6. Publishing' = {} => \A d \in Contracts : CoversAt(d)'
    BY <1>1, <1>3
<1>7. files' \subseteq Placed'
    BY <1>1 DEF SInv, ManifestInv
<1> QED BY <1>1, <1>4, <1>5, <1>6, <1>7 DEF ManifestInv

\* A contract's manifest is saved, or kept.
LEMMA SaveManifests ==
    ASSUME SInv, NEW w \in Writes, KeepFacts(w) \/ \E c \in Contracts : SaveFacts(w, c)
    PROVE  ManifestInv'
<1>1. TInv /\ ManifestInv /\ files' = files /\ task' = task
    BY DEF SInv, KeepFacts, SaveFacts
<1>2. pc[w] \in {"save", "keep"} /\ pc[w] \in Under
    BY DEF KeepFacts, SaveFacts, Under
<1>3. Publishing = {w} /\ w \in Placed /\ files \subseteq Placed
    BY <1>1, <1>2, Only DEF SInv, Placed, ManifestInv
<1>4. /\ \A c \in Contracts : Added(job[w].before[c], w)
      /\ \A c \in Contracts \ job[w].todo : CoversAt(c)
      /\ \A c \in Contracts : ExactAt(c)
    BY <1>1, <1>2, <1>3 DEF ManifestInv, Publishes
<1>5. CASE KeepFacts(w)
  <2>1. GoesOn(w, job[w].todo) /\ manifest' = manifest
      BY <1>1, <1>5, KeepIs DEF KeepFacts
  <2>2. \A d \in Contracts : manifest'[d] # None =>
                Exact(manifest'[d]) /\ files \ manifest'[d].files \subseteq Torn \cup {w}
      BY <1>3, <1>4, <2>1 DEF ExactAt
  <2>3. \A d \in Contracts \ job[w].todo : manifest'[d] # None => Covers(manifest'[d])
      BY <1>4, <2>1 DEF CoversAt
  <2> QED BY <1>1, <1>2, <2>1, <2>2, <2>3, KeepsOn
<1>6. ASSUME NEW c \in Contracts, SaveFacts(w, c) PROVE ManifestInv'
  <2>1. /\ GoesOn(w, job[w].todo \ {c}) /\ manifest' = [manifest EXCEPT ![c] = Facts(w, c)]
      BY <1>1, <1>6, SaveIs
  <2>2. manifest'[c] = Facts(w, c) /\ \A d \in Contracts \ {c} : manifest'[d] = manifest[d]
      BY <1>1, <2>1 DEF TInv, DirInv
  <2>3. job[w].bound[c] \in Comps
      BY <1>1, <1>2, UnderHolds DEF TInv
  <2>4. Facts(w, c) # None => Exact(Facts(w, c)) /\ Covers(Facts(w, c))
      BY <1>3, <1>4, <2>3, AfterCovers DEF Facts
  <2>5. ASSUME NEW d \in Contracts, manifest'[d] # None
        PROVE  Exact(manifest'[d]) /\ files \ manifest'[d].files \subseteq Torn \cup {w}
    <3>1. CASE d = c
        BY <2>2, <2>4, <2>5, <3>1 DEF Covers
    <3>2. CASE d # c
        BY <1>3, <1>4, <2>2, <2>5, <3>2 DEF ExactAt
    <3> QED BY <3>1, <3>2
  <2>6. ASSUME NEW d \in Contracts \ (job[w].todo \ {c}), manifest'[d] # None PROVE Covers(manifest'[d])
    <3>1. CASE d = c
        BY <2>2, <2>4, <2>6, <3>1
    <3>2. CASE d # c
        BY <1>4, <2>2, <2>6, <3>2 DEF CoversAt
    <3> QED BY <3>1, <3>2
  <2> QED BY <1>1, <1>2, <2>1, <2>5, <2>6, KeepsOn
<1> QED BY <1>5, <1>6

\* A reader's step: what a validation has found is exact, since nothing else is
\* published before it is recorded.
LEMMA ReaderManifests ==
    ASSUME SInv, Alone', NEW r \in Readers,
           \/ \E c \in Contracts : Validate(r, c) \/ \E x \in BOOLEAN : Query(r, c, x)
           \/ EnsureManifest(r) \/ LookForFiles(r) \/ Scan(r) \/ Entries(r) \/ Record(r)
           \/ KeepManifest(r) \/ Resolve(r) \/ View(r) \/ Read(r) \/ Leave(r)
    PROVE  ManifestInv'
<1>1. TInv /\ ManifestInv /\ Alone /\ task \in [Readers -> Tasks] /\ Does(task[r])
    BY DEF SInv, TInv, TasksInv
<1>2. PICK t : Becomes(r, t) /\ Does(t)
    BY <1>1, ReaderDoes
<1>3. UNCHANGED <<files, comp, pc, by, job>> /\ task' = [task EXCEPT ![r] = t]
    BY <1>2 DEF Becomes, writeVars
<1>4. Publishing' = Publishing /\ Torn' = Torn /\ Placed' = Placed
    BY <1>3 DEF Publishing, Torn, Placed
<1>5. task'[r] = t /\ \A q \in Readers \ {r} : task'[q] = task[q]
    BY <1>1, <1>3
<1>6. \A m : Exact(m) => Exact(m)'
    BY <1>4 DEF Exact
<1>7. Refreshes(task[r])'
  <2>1. CASE Scan(r)
    <3>1. t = [task[r] EXCEPT !.stage = "entries", !.comp = comp[task[r].contract], !.seen = files]
      <4>1. task' = [task EXCEPT ![r] = [task[r] EXCEPT !.stage = "entries",
                                             !.comp = comp[task[r].contract], !.seen = files]]
          BY <2>1 DEF Scan, Becomes
      <4> QED BY <1>1, <1>5, <4>1
    <3>2. t.stage = "entries" /\ t.seen = files
        BY <1>1, <3>1 DEF Tasks
    <3> QED BY <1>3, <1>5, <3>2 DEF Refreshes
  <2>2. CASE Entries(r)
    <3>1. task[r].stage = "entries"
        BY <2>2 DEF Entries
    <3>2. task[r].seen = files
        BY <1>1, <3>1 DEF ManifestInv, Refreshing, Refreshes
    <3>3. PICK m : m = Counted(task[r].comp, files, files)
        OBVIOUS
    <3>4. t = [task[r] EXCEPT !.stage = "record", !.found = m]
      <4>1. task' = [task EXCEPT ![r] = [task[r] EXCEPT !.stage = "record", !.found = m]]
          BY <2>2, <3>2, <3>3 DEF Entries, Becomes
      <4> QED BY <1>1, <1>5, <4>1
    <3>5. t.stage = "record" /\ t.found = m
        BY <1>1, <3>4 DEF Tasks
    <3>6. task[r].comp \in Comps
        BY <1>1, <3>1 DEF Does
    <3>7. m.files = files /\ m.comp = task[r].comp
        BY <3>3 DEF Counted
    <3>8. Exact(m)
        BY <1>1, <3>3, <3>6, <3>7 DEF Exact, ManifestInv
    <3> QED BY <1>3, <1>5, <1>6, <3>5, <3>7, <3>8 DEF Refreshes
  <2>3. CASE ~Scan(r) /\ ~Entries(r)
    <3>1. t.stage \notin {"entries", "record"}
      <4>0. Idle.stage = "idle"
          BY DEF Idle
      <4>1. ASSUME NEW c \in Contracts, Validate(r, c) PROVE t.stage \notin {"entries", "record"}
        <5>1. task'[r] = [Idle EXCEPT !.stage = "scan", !.use = "validate", !.contract = c]
            BY <1>1, <4>1 DEF Validate, Becomes
        <5> QED BY <1>5, <5>1 DEF Idle
      <4>2. ASSUME NEW c \in Contracts, NEW x \in BOOLEAN, Query(r, c, x) PROVE t.stage \notin {"entries", "record"}
        <5>1. task'[r] = [Idle EXCEPT !.stage = "ensure", !.use = "query", !.contract = c, !.refuse = x]
            BY <1>1, <4>2 DEF Query, Becomes
        <5> QED BY <1>5, <5>1 DEF Idle
      <4>3. ASSUME Becomes(r, Idle) PROVE t.stage \notin {"entries", "record"}
          BY <1>1, <1>5, <4>0, <4>3 DEF Becomes
      <4>4. ASSUME Becomes(r, Recorded(task[r])) PROVE t.stage \notin {"entries", "record"}
        <5>1. task'[r] = Recorded(task[r])
            BY <1>1, <4>4 DEF Becomes
        <5> QED BY <1>1, <1>5, <4>0, <5>1 DEF Recorded, Tasks
      <4>5. PICK u : u = task[r] /\ u \in Tasks
          BY <1>1
      <4>6. CASE EnsureManifest(r) \/ LookForFiles(r) \/ Resolve(r) \/ View(r) \/ Read(r) \/ Leave(r)
        <5>1. CASE EnsureManifest(r)
          <6>1. PICK m : m = manifest[task[r].contract]
              OBVIOUS
          <6>2. \/ Becomes(r, [task[r] EXCEPT !.stage = "look"])
                \/ Becomes(r, [task[r] EXCEPT !.stage = "keep", !.found = m])
                \/ Becomes(r, [task[r] EXCEPT !.stage = "resolve"])
              BY <5>1, <6>1 DEF EnsureManifest
          <6>3. \/ t = [u EXCEPT !.stage = "look"] \/ t = [u EXCEPT !.stage = "keep", !.found = m]
                \/ t = [u EXCEPT !.stage = "resolve"]
              BY <1>1, <1>5, <4>5, <6>2 DEF Becomes
          <6> QED BY <4>5, <6>3 DEF Tasks
        <5>2. CASE LookForFiles(r)
          <6>1. t = [u EXCEPT !.stage = IF files = {} THEN "resolve" ELSE "scan"]
              BY <1>1, <1>5, <4>5, <5>2 DEF LookForFiles, Becomes
          <6> QED BY <4>5, <6>1 DEF Tasks
        <5>3. CASE Resolve(r)
          <6>1. \/ Becomes(r, Idle)
                \/ \E x : Becomes(r, [task[r] EXCEPT !.stage = "view", !.refuse = FALSE, !.stored = x])
              BY <5>3 DEF Resolve
          <6>2. ASSUME NEW x, Becomes(r, [task[r] EXCEPT !.stage = "view", !.refuse = FALSE, !.stored = x])
                PROVE  t.stage \notin {"entries", "record"}
            <7>1. t = [u EXCEPT !.stage = "view", !.refuse = FALSE, !.stored = x]
                BY <1>1, <1>5, <4>5, <6>2 DEF Becomes
            <7> QED BY <4>5, <7>1 DEF Tasks
          <6> QED BY <4>3, <6>1, <6>2
        <5>4. CASE View(r)
          <6>1. t = [u EXCEPT !.stage = "read", !.comp = comp[u.contract]]
              BY <1>1, <1>5, <4>5, <5>4 DEF View, Becomes
          <6> QED BY <4>5, <6>1 DEF Tasks
        <5>5. CASE Read(r)
          <6>1. t = [u EXCEPT !.stage = "answered",
                              !.seen = {f \in files : Keeps(f, u.comp, u.stored)}]
              BY <1>1, <1>5, <4>5, <5>5 DEF Read, Becomes
          <6>2. PICK S : t = [u EXCEPT !.stage = "answered", !.seen = S]
              BY <6>1
          <6> QED BY <4>5, <6>2 DEF Tasks
        <5>6. CASE Leave(r)
            BY <4>3, <5>6 DEF Leave
        <5> QED BY <4>6, <5>1, <5>2, <5>3, <5>4, <5>5, <5>6
      <4>7. CASE Record(r)
        <5>1. \/ Becomes(r, Recorded(task[r])) \/ Becomes(r, [task[r] EXCEPT !.stage = "keep"])
            BY <4>7 DEF Record
        <5> QED BY <1>1, <1>5, <4>4, <5>1 DEF Becomes, Tasks
      <4>8. CASE KeepManifest(r)
          BY <4>4, <4>8 DEF KeepManifest
      <4> QED BY <2>3, <4>1, <4>2, <4>6, <4>7, <4>8
    <3> QED BY <1>5, <3>1 DEF Refreshes
  <2> QED BY <2>1, <2>2, <2>3
<1>8. ASSUME NEW q \in Refreshing' PROVE Refreshes(task[q])'
  <2>1. CASE q = r
      BY <1>7, <2>1
  <2>2. CASE q # r
    <3>1. q \in Readers /\ task'[q] = task[q] /\ q \in Refreshing
        BY <1>5, <1>8, <2>2 DEF Refreshing
    <3>2. Refreshes(task[q])
        BY <1>1, <3>1 DEF ManifestInv
    <3> QED BY <1>3, <1>6, <3>1, <3>2 DEF Refreshes
  <2> QED BY <2>1, <2>2
<1>9. CASE ~Record(r)
  <2>1. manifest' = manifest
      BY <1>9 DEF Validate, Query, EnsureManifest, LookForFiles, Scan, Entries, KeepManifest,
                  Resolve, View, Read, Leave
  <2> QED BY <1>1, <1>3, <1>4, <1>8, <2>1, Aside
<1>10. CASE Record(r)
  <2>1. task[r].stage = "record" /\ manifest' = [manifest EXCEPT ![task[r].contract] = task[r].found]
      BY <1>10 DEF Record
  <2>2. r \in Refreshing /\ task[r].contract \in Contracts
      BY <1>1, <2>1 DEF Refreshing, Does
  <2>3. Publishing = {} /\ Publishing' = {}
      BY <1>1, <1>4, <2>2 DEF Alone
  <2>4. Exact(task[r].found) /\ task[r].found.files = files
      BY <1>1, <2>1, <2>2 DEF ManifestInv, Refreshes
  <2>5. ASSUME NEW c \in Contracts PROVE ExactAt(c)' /\ CoversAt(c)'
    <3>1. CASE c = task[r].contract
      <4>1. PICK m : m = task[r].found
          OBVIOUS
      <4>2. manifest'[c] = m
          BY <1>1, <2>1, <3>1, <4>1 DEF TInv, DirInv
      <4>3. Exact(m)' /\ m.files = files'
          BY <1>3, <1>6, <2>4, <4>1
      <4> QED BY <4>2, <4>3 DEF ExactAt, CoversAt, Covers
    <3>2. CASE c # task[r].contract
      <4>1. manifest'[c] = manifest[c]
          BY <1>1, <2>1, <2>2, <3>2 DEF TInv, DirInv
      <4>2. ExactAt(c) /\ CoversAt(c)
          BY <1>1, <2>3 DEF ManifestInv
      <4> QED BY <1>3, <1>4, <1>6, <4>1, <4>2 DEF ExactAt, CoversAt, Covers
    <3> QED BY <3>1, <3>2
  <2>6. files' \subseteq Placed'
      BY <1>1, <1>3, <1>4 DEF ManifestInv
  <2> QED BY <1>8, <2>3, <2>5, <2>6 DEF ManifestInv
<1> QED BY <1>9, <1>10

\* Every step that leaves at most one publication or validation under way keeps it.
LEMMA SStep == SInv /\ [Next /\ Alone']_vars => SInv'
<1> SUFFICES ASSUME SInv, [Next /\ Alone']_vars PROVE SInv'
    OBVIOUS
<1>1. TInv /\ Alone /\ ManifestInv
    BY DEF SInv
<1>2. TInv'
    BY <1>1, TStep
<1>3. CASE UNCHANGED vars
  <2>1. UNCHANGED <<files, manifest, pc, job, task>>
      BY <1>3 DEF vars, dirVars, writeVars
  <2>2. Publishing' = Publishing /\ Torn' = Torn /\ Placed' = Placed /\ Refreshing' = Refreshing
      BY <2>1 DEF Publishing, Torn, Placed, Refreshing
  <2>3. \A r \in Refreshing' : Refreshes(task[r])'
      BY <1>1, <2>1, <2>2, RefreshStays
  <2>4. ManifestInv'
      BY <1>1, <2>1, <2>2, <2>3, Aside
  <2>5. Alone'
      BY <1>1, <2>2 DEF Alone
  <2> QED BY <1>2, <2>4, <2>5 DEF SInv
<1>4. CASE Next /\ Alone'
  <2> SUFFICES ManifestInv'
      BY <1>2, <1>4 DEF SInv
  <2>1. ASSUME NEW w \in Writes, NEW c \in Contracts, NEW k \in Kinds, NEW p \in Policies, BeginWrite(w, c, k, p)
        PROVE  ManifestInv'
      BY <1>4, <2>1, BeginManifests
  <2>2. ASSUME NEW w \in Writes, FinishWrite(w) PROVE ManifestInv'
      BY <1>4, <2>2, BeginManifests
  <2>3. ASSUME NEW w \in Writes, Look(w) \/ List(w) PROVE ManifestInv'
      BY <2>3, LoadManifests
  <2>4. ASSUME NEW w \in Writes, Install(w) PROVE ManifestInv'
      BY <2>4, InstallManifests
  <2>5. ASSUME NEW w \in Writes, KeepFacts(w) PROVE ManifestInv'
      BY <2>5, SaveManifests
  <2>6. ASSUME NEW w \in Writes, Stop(w) PROVE ManifestInv'
      BY <2>6, StopManifests
  <2>7. ASSUME NEW w \in Writes, NEW c \in Contracts, Load(w, c) PROVE ManifestInv'
      BY <2>7, LoadManifests
  <2>8. ASSUME NEW w \in Writes, NEW c \in Contracts, SaveFacts(w, c) PROVE ManifestInv'
      BY <2>8, SaveManifests
  <2>9. ASSUME NEW w \in Writes, NEW f \in Writes, RemoveFile(w, f) PROVE ManifestInv'
      BY <2>9, RemoveManifests
  <2>10. ASSUME NEW r \in Readers, NEW c \in Contracts, Validate(r, c) PROVE ManifestInv'
      BY <1>4, <2>10, ReaderManifests
  <2>11. ASSUME NEW r \in Readers, NEW c \in Contracts, NEW x \in BOOLEAN, Query(r, c, x) PROVE ManifestInv'
      BY <1>4, <2>11, ReaderManifests
  <2>12. ASSUME NEW r \in Readers,
                \/ EnsureManifest(r) \/ LookForFiles(r) \/ Scan(r) \/ Entries(r) \/ Record(r)
                \/ KeepManifest(r) \/ Resolve(r) \/ View(r) \/ Read(r) \/ Leave(r)
         PROVE  ManifestInv'
      BY <1>4, <2>12, ReaderManifests
  <2>13. ASSUME NEW c \in Contracts, NEW k \in Comps, Register(c, k) PROVE ManifestInv'
    <3>1. UNCHANGED <<files, manifest, pc, job, task>>
        BY <2>13 DEF Register, dirVars, writeVars
    <3>2. Publishing' = Publishing /\ Torn' = Torn /\ Placed' = Placed
        BY <3>1 DEF Publishing, Torn, Placed
    <3>3. \A r \in Refreshing' : Refreshes(task[r])'
        BY <1>1, <3>1, <3>2, RefreshStays
    <3> QED BY <1>1, <3>1, <3>2, <3>3, Aside
  <2> QED BY <1>4, <2>1, <2>2, <2>3, <2>4, <2>5, <2>6, <2>7, <2>8, <2>9, <2>10, <2>11, <2>12, <2>13 DEF Next
<1> QED BY <1>3, <1>4

\* When publications and validations do not overlap, a manifest counts the rows, the
\* rows that break a rule and the nulls of the files it lists exactly, however many
\* appends it was computed through (facts::after_write, combined_stats), and misses
\* files of writes that stopped halfway only (publish_write).
THEOREM ManifestsHold == SerialSpec => []ManifestsDescribeFiles
<1>1. SInv => ManifestsDescribeFiles
  <2> SUFFICES ASSUME SInv, Publishing = {}, NEW c \in Contracts, manifest[c] # None
               PROVE  /\ manifest[c] = Counted(manifest[c].comp, manifest[c].files, manifest[c].files)
                      /\ files \ manifest[c].files \subseteq Torn
                      /\ Torn = {} => manifest[c].files = files
      BY DEF ManifestsDescribeFiles
  <2> QED BY DEF SInv, ManifestInv, ExactAt, CoversAt, Exact, Covers
<1>2. SerialSpec => []SInv
    BY SInit, SStep, PTL DEF SerialSpec
<1> QED BY <1>1, <1>2, PTL

(***************************************************************************)
(* Answers keep the contract, when besides hashes tell rules apart, what   *)
(* runs at once is under rules that agree, and contracts are registered    *)
(* again only between queries and validations.  (The run file_answers, and *)
(* README.md, show what happens otherwise.)                                *)
(***************************************************************************)
Calm == comp' # comp => \A r \in Readers : task[r].stage = "idle"

\* Such executions.
CalmSpec == Init /\ [][Next /\ Alone' /\ Agreed' /\ Calm]_vars

\* The files written under rules that c does not agree with: those whose flags do not
\* stand for its rules.
Old(c) == {f \in files : by[f] # None /\ ~Agree(by[f].comp, comp[c])}

\* The manifest m lists the old files of c.
OldIn(c, m) == m # None => Old(c) \subseteq m.files

\* What the manifest that a query resolves by must list, and what follows when it says
\* that the flags are current.
Answers(t) ==
    /\ t.stage = "keep" => OldIn(t.contract, t.found)
    /\ t.stage = "resolve" /\ remote => OldIn(t.contract, cached[t.contract])
    /\ t.stage \in {"view", "read"} /\ t.stored => Old(t.contract) = {}
    /\ t.stage = "read" => t.comp = comp[t.contract]
    /\ t.stage = "answered" => t.seen \cap Breaks[t.comp] = {}

\* The inductive invariant of the answers.
AnswerInv == Agreed /\ (Torn = {} => \A r \in Readers : Answers(task[r]))

\* The manifest lists every old file of a contract that is queried: the one it may miss
\* is being published.
LEMMA OldListed ==
    ASSUME SInv, Agreed, Torn = {}, NEW c \in Contracts,
           NEW r \in Readers, task[r].stage # "idle", task[r].contract = c
    PROVE  OldIn(c, manifest[c])
<1> SUFFICES ASSUME manifest[c] # None, NEW f \in Old(c) PROVE f \in manifest[c].files
    BY DEF OldIn
<1>1. f \in files /\ ~Agree(by[f].comp, comp[c])
    BY DEF Old
<1>2. f \in Writes
    BY <1>1 DEF SInv, TInv, DirInv
<1>3. files \ manifest[c].files \subseteq Torn \cup Publishing
    BY DEF SInv, ManifestInv, ExactAt
<1>4. f \notin Publishing
    BY <1>1, <1>2 DEF Agreed, Publishing, Over
<1> QED BY <1>1, <1>3, <1>4

\* A step that changes none of these leaves a reader's answer as good as it was.
LEMMA AnswersStay ==
    ASSUME NEW t, Answers(t), remote' = remote, comp' = comp, Old(t.contract)' \subseteq Old(t.contract),
           t.stage = "resolve" /\ remote /\ cached'[t.contract] # cached[t.contract] =>
                OldIn(t.contract, cached[t.contract])'
    PROVE  Answers(t)'
<1>1. \A m : OldIn(t.contract, m) => OldIn(t.contract, m)'
    BY DEF OldIn
<1>2. t.stage = "resolve" /\ remote => OldIn(t.contract, cached[t.contract])'
  <2> SUFFICES ASSUME t.stage = "resolve", remote, cached'[t.contract] = cached[t.contract]
               PROVE  OldIn(t.contract, cached[t.contract])'
      OBVIOUS
  <2>1. OldIn(t.contract, cached[t.contract])
      BY DEF Answers
  <2> QED BY <2>1 DEF OldIn
<1> QED BY <1>1, <1>2 DEF Answers

\* What a write's step does to the old files of a contract that is queried: none is added.
LEMMA OldShrinks ==
    ASSUME Agreed, comp' = comp, task' = task, NEW r \in Readers, task[r].stage # "idle",
           \A f \in files' : by'[f] = by[f],
           \A f \in files' \ files : f \in Writes /\ pc[f] \notin Over
    PROVE  Old(task[r].contract)' \subseteq Old(task[r].contract)
<1> SUFFICES ASSUME NEW f \in Old(task[r].contract)' PROVE f \in Old(task[r].contract)
    OBVIOUS
<1>1. f \in files' /\ by[f] # None /\ ~Agree(by[f].comp, comp[task[r].contract])
    BY DEF Old
<1>2. f \in files
    BY <1>1 DEF Agreed
<1> QED BY <1>1, <1>2 DEF Old

\* No query runs at first.
LEMMA AInit == Init => AnswerInv
<1> SUFFICES ASSUME Init PROVE AnswerInv
    OBVIOUS
<1>1. Agreed
    BY DEF Init, Agreed, Idle
<1>2. \A r \in Readers : Answers(task[r])
    BY DEF Init, Answers, Idle
<1> QED BY <1>1, <1>2 DEF AnswerInv

\* The readers after a write's step.
LEMMA ReadersStay ==
    ASSUME SInv, AnswerInv, remote' = remote, comp' = comp, task' = task, Agreed',
           \A r \in Readers : task[r].stage # "idle" =>
                Old(task[r].contract)' \subseteq Old(task[r].contract),
           Torn \subseteq Torn',
           \A c \in Contracts : Torn = {} /\ cached'[c] # cached[c] => OldIn(c, cached[c])'
    PROVE  AnswerInv'
<1> SUFFICES ASSUME Torn' = {}, NEW r \in Readers PROVE Answers(task[r])'
    BY DEF AnswerInv
<1>1. Torn = {}
    OBVIOUS
<1>2. PICK t : t = task[r]
    OBVIOUS
<1>3. Answers(t)
    BY <1>1, <1>2 DEF AnswerInv
<1>4. Does(t)
    BY <1>2 DEF SInv, TInv, TasksInv
<1>5. t.stage = "resolve" => t.contract \in Contracts
    BY <1>4 DEF Does
<1>6. CASE t.stage # "idle"
  <2>1. Old(t.contract)' \subseteq Old(t.contract)
      BY <1>2, <1>6
  <2>2. Answers(t)'
      BY <1>1, <1>3, <1>5, <2>1, AnswersStay
  <2> QED BY <1>2, <2>2
<1>7. CASE t.stage = "idle"
  <2>1. Answers(t)'
      BY <1>7 DEF Answers
  <2> QED BY <1>2, <2>1
<1> QED BY <1>6, <1>7

\* A write's step.
LEMMA WriteAnswers ==
    ASSUME SInv, AnswerInv, Agreed', NEW w \in Writes,
           \/ \E c \in Contracts, k \in Kinds, p \in Policies : BeginWrite(w, c, k, p)
           \/ FinishWrite(w) \/ Look(w) \/ List(w) \/ Install(w) \/ KeepFacts(w) \/ Stop(w)
           \/ \E c \in Contracts : Load(w, c) \/ SaveFacts(w, c)
           \/ \E f \in Writes : RemoveFile(w, f)
    PROVE  AnswerInv'
<1>1. TInv /\ WritesInv /\ Agreed /\ files \subseteq Placed /\ files \subseteq Writes
    BY DEF SInv, TInv, DirInv, ManifestInv, AnswerInv
<1>2. remote' = remote /\ comp' = comp /\ task' = task
    BY DEF BeginWrite, FinishWrite, Look, List, Install, KeepFacts, Stop, Load, SaveFacts, RemoveFile, dirVars
<1>3. \E p : pc' = [pc EXCEPT ![w] = p]
    BY DEF BeginWrite, FinishWrite, Look, List, Install, KeepFacts, Stop, Load, SaveFacts, RemoveFile,
           Loaded, Saved, Goes
<1>4. \A v \in Writes \ {w} : pc'[v] = pc[v]
    BY <1>1, <1>3 DEF WritesInv
<1>5. pc[w] \in {"idle", "writing"} \cup Under
    BY DEF BeginWrite, FinishWrite, Look, List, Install, KeepFacts, Stop, Publishing, Load, SaveFacts,
           RemoveFile, Under
<1>6. Torn \subseteq Torn'
    BY <1>4, <1>5 DEF Torn, Under
<1>7. CASE \E c \in Contracts, k \in Kinds, p \in Policies : BeginWrite(w, c, k, p)
  <2>1. PICK c \in Contracts : /\ pc[w] = "idle" /\ files' = files /\ cached' = cached
                               /\ by' = [by EXCEPT ![w] = [contract |-> c, comp |-> comp[c]]]
      BY <1>7 DEF BeginWrite, dirVars
  <2>2. by'[w] = [contract |-> c, comp |-> comp[c]] /\ \A v \in Writes \ {w} : by'[v] = by[v]
      BY <1>1, <2>1 DEF WritesInv
  <2>4. w \notin files
      BY <1>1, <2>1 DEF Placed
  <2>5. ASSUME NEW r \in Readers, task[r].stage # "idle"
        PROVE  Old(task[r].contract)' \subseteq Old(task[r].contract)
      BY <1>1, <1>2, <2>1, <2>2, <2>4, <2>5, OldShrinks
  <2> QED BY <1>2, <1>6, <2>1, <2>5, ReadersStay
<1>8. CASE ~\E c \in Contracts, k \in Kinds, p \in Policies : BeginWrite(w, c, k, p)
  <2>1. by' = by
      BY <1>8 DEF FinishWrite, Look, List, Install, KeepFacts, Stop, Load, SaveFacts, RemoveFile
  <2>2. pc[w] \notin Over
    <3>1. pc[w] # "idle"
        BY <1>8 DEF FinishWrite, Look, List, Install, KeepFacts, Stop, Publishing, Load, SaveFacts, RemoveFile
    <3> QED BY <1>5, <3>1 DEF Over, Under
  <2>4. files' \subseteq files \cup {w}
      BY <1>8 DEF FinishWrite, Look, List, Install, KeepFacts, Stop, Load, SaveFacts, RemoveFile, dirVars
  <2>5. ASSUME NEW r \in Readers, task[r].stage # "idle"
        PROVE  Old(task[r].contract)' \subseteq Old(task[r].contract)
      BY <1>1, <1>2, <2>1, <2>2, <2>4, <2>5, OldShrinks
  <2>6. ASSUME NEW c \in Contracts, Torn = {}, cached'[c] # cached[c] PROVE OldIn(c, cached[c])'
    <3>1. KeepFacts(w)
      <4>1. cached' # cached
          BY <2>6
      <4> QED BY <1>8, <4>1 DEF FinishWrite, Look, List, Install, Stop, Load, SaveFacts, RemoveFile, dirVars
    <3>2. /\ pc[w] = "keep" /\ job[w].at \in Contracts
          /\ cached' = [cached EXCEPT ![job[w].at] = Facts(w, job[w].at)]
        BY <1>1, <3>1, KeepIs
    <3>3. cached'[c] = Facts(w, c) /\ c = job[w].at
        BY <1>1, <2>6, <3>2 DEF TInv, DirInv
    <3>4. Publishing = {w} /\ w \in Placed /\ pc[w] \in Under
        BY <3>2, Only DEF SInv, Placed, Under
    <3>5. Added(job[w].before[c], w)
        BY <3>2, <3>4 DEF SInv, ManifestInv, Publishes
    <3>6. job[w].bound[c] \in Comps
        BY <1>1, <3>4, UnderHolds
    <3>7. Facts(w, c) # None => Covers(Facts(w, c))
        BY <1>1, <3>4, <3>5, <3>6, AfterCovers DEF Facts
    <3>8. Facts(w, c) # None => files \subseteq Facts(w, c).files
        BY <2>6, <3>7 DEF Covers
    <3>9. Old(c)' \subseteq files
        BY <3>1 DEF KeepFacts, Old
    <3> QED BY <3>3, <3>8, <3>9 DEF OldIn
  <2> QED BY <1>2, <1>6, <2>5, <2>6, ReadersStay
<1> QED BY <1>7, <1>8

\* What a reader's step makes of its state, for its answer.
LEMMA ReaderAnswers ==
    ASSUME HashesTell, SInv, AnswerInv, Agreed', NEW r \in Readers,
           \/ \E c \in Contracts : Validate(r, c) \/ \E x \in BOOLEAN : Query(r, c, x)
           \/ EnsureManifest(r) \/ LookForFiles(r) \/ Scan(r) \/ Entries(r) \/ Record(r)
           \/ KeepManifest(r) \/ Resolve(r) \/ View(r) \/ Read(r) \/ Leave(r)
    PROVE  AnswerInv'
<1>1. TInv /\ Agreed /\ task \in [Readers -> Tasks] /\ Does(task[r])
    BY DEF SInv, TInv, TasksInv, AnswerInv
<1>2. PICK t : Becomes(r, t) /\ Does(t)
    BY <1>1, ReaderDoes
<1>3. UNCHANGED <<remote, files, comp, pc, by, job>> /\ task' = [task EXCEPT ![r] = t]
    BY <1>2 DEF Becomes, writeVars
<1>4. Torn' = Torn
    BY <1>3 DEF Torn
<1>5. task'[r] = t /\ \A q \in Readers \ {r} : task'[q] = task[q]
    BY <1>1, <1>3
<1>6. \A c : Old(c)' = Old(c)
    BY <1>3 DEF Old
<1> SUFFICES ASSUME Torn = {} PROVE \A q \in Readers : Answers(task[q])'
    BY <1>4 DEF AnswerInv
<1>7. PICK u : u = task[r]
    OBVIOUS
<1>8. Answers(u) /\ u \in Tasks /\ (u.stage # "idle" => u.contract \in Contracts)
    BY <1>1, <1>7 DEF AnswerInv, Does
<1>9. ASSUME NEW q \in Readers \ {r} PROVE Answers(task[q])'
  <2>1. PICK v : v = task[q] /\ v = task'[q]
      BY <1>5
  <2>2. Answers(v) /\ Does(v)
      BY <2>1 DEF AnswerInv, SInv, TInv, TasksInv
  <2>3. v.stage = "resolve" /\ remote /\ cached'[v.contract] # cached[v.contract] =>
                OldIn(v.contract, cached[v.contract])'
    <3> SUFFICES ASSUME v.stage = "resolve", cached'[v.contract] # cached[v.contract]
                 PROVE  OldIn(v.contract, cached[v.contract])'
        OBVIOUS
    <3>1. KeepManifest(r)
      <4>1. cached' # cached
          OBVIOUS
      <4> QED BY <4>1 DEF Validate, Query, EnsureManifest, LookForFiles, Scan, Entries, Record,
                          Resolve, View, Read, Leave
    <3>2. u.stage = "keep" /\ cached' = [cached EXCEPT ![u.contract] = u.found]
        BY <1>7, <3>1 DEF KeepManifest
    <3>3. v.contract \in Contracts /\ u.contract \in Contracts
        BY <1>1, <1>7, <2>2, <3>2 DEF Does
    <3>4. v.contract = u.contract /\ cached'[v.contract] = u.found
        BY <1>1, <3>2, <3>3 DEF TInv, DirInv
    <3>5. OldIn(u.contract, u.found)
        BY <1>8, <3>2 DEF Answers
    <3> QED BY <1>6, <3>4, <3>5 DEF OldIn
  <2>4. Answers(v)'
      BY <1>3, <1>6, <2>2, <2>3, AnswersStay
  <2> QED BY <2>1, <2>4
<1>10. Answers(t)'
  <2>1. ASSUME t.stage \in {"idle", "ensure", "look", "scan", "entries", "record"} PROVE Answers(t)'
      BY <2>1 DEF Answers
  <2>2. ASSUME t = Idle PROVE Answers(t)'
      BY <2>1, <2>2 DEF Idle
  <2>3. ASSUME NEW c \in Contracts, Validate(r, c) PROVE Answers(t)'
    <3>1. task'[r] = [Idle EXCEPT !.stage = "scan", !.use = "validate", !.contract = c]
        BY <1>1, <2>3 DEF Validate, Becomes
    <3>2. t.stage = "scan"
        BY <1>5, <3>1 DEF Idle
    <3> QED BY <2>1, <3>2
  <2>4. ASSUME NEW c \in Contracts, NEW x \in BOOLEAN, Query(r, c, x) PROVE Answers(t)'
    <3>1. task'[r] = [Idle EXCEPT !.stage = "ensure", !.use = "query", !.contract = c, !.refuse = x]
        BY <1>1, <2>4 DEF Query, Becomes
    <3>2. t.stage = "ensure"
        BY <1>5, <3>1 DEF Idle
    <3> QED BY <2>1, <3>2
  <2>5. CASE EnsureManifest(r)
    <3>1. PICK m : m = manifest[u.contract]
        OBVIOUS
    <3>2. \/ t = [u EXCEPT !.stage = "look"]
          \/ t = [u EXCEPT !.stage = "keep", !.found = m]
          \/ ~remote /\ t = [u EXCEPT !.stage = "resolve"]
        BY <1>1, <1>5, <1>7, <2>5, <3>1 DEF EnsureManifest, Becomes
    <3>3. u.contract \in Contracts
        BY <1>7, <1>8, <2>5 DEF EnsureManifest
    <3>4. OldIn(u.contract, m)
      <4>1. u.stage # "idle"
          BY <1>7, <2>5 DEF EnsureManifest
      <4> QED BY <1>1, <1>7, <3>1, <3>3, <4>1, OldListed
    <3>5. CASE t = [u EXCEPT !.stage = "look"]
      <4>1. t.stage = "look"
          BY <1>8, <3>5 DEF Tasks
      <4> QED BY <2>1, <4>1
    <3>6. CASE t = [u EXCEPT !.stage = "keep", !.found = m]
      <4>1. t.stage = "keep" /\ t.contract = u.contract /\ t.found = m
          BY <1>8, <3>6 DEF Tasks
      <4>2. OldIn(t.contract, t.found)'
          BY <1>6, <3>4, <4>1 DEF OldIn
      <4> QED BY <4>1, <4>2 DEF Answers
    <3>7. CASE ~remote /\ t = [u EXCEPT !.stage = "resolve"]
      <4>1. t.stage = "resolve"
          BY <1>8, <3>7 DEF Tasks
      <4> QED BY <1>3, <3>7, <4>1 DEF Answers
    <3> QED BY <3>2, <3>5, <3>6, <3>7
  <2>6. CASE LookForFiles(r)
    <3>1. t = [u EXCEPT !.stage = IF files = {} THEN "resolve" ELSE "scan"]
        BY <1>1, <1>5, <1>7, <2>6 DEF LookForFiles, Becomes
    <3>2. t.stage = IF files = {} THEN "resolve" ELSE "scan"
        BY <1>8, <3>1 DEF Tasks
    <3>3. CASE files = {}
      <4>1. Old(t.contract)' = {}
          BY <1>3, <3>3 DEF Old
      <4>2. OldIn(t.contract, cached[t.contract])'
          BY <4>1 DEF OldIn
      <4> QED BY <3>2, <3>3, <4>2 DEF Answers
    <3>4. CASE files # {}
        BY <2>1, <3>2, <3>4
    <3> QED BY <3>3, <3>4
  <2>7. CASE Scan(r)
    <3>1. t = [u EXCEPT !.stage = "entries", !.comp = comp[u.contract], !.seen = files]
        BY <1>1, <1>5, <1>7, <2>7 DEF Scan, Becomes
    <3>2. t.stage = "entries"
        BY <1>8, <3>1 DEF Tasks
    <3> QED BY <2>1, <3>2
  <2>8. CASE Entries(r)
    <3>1. PICK m : t = [u EXCEPT !.stage = "record", !.found = m]
        BY <1>1, <1>5, <1>7, <2>8 DEF Entries, Becomes
    <3>2. t.stage = "record"
        BY <1>8, <3>1 DEF Tasks
    <3> QED BY <2>1, <3>2
  <2>9. ASSUME t = Recorded(u), remote => OldIn(u.contract, cached[u.contract])' PROVE Answers(t)'
    <3>1. CASE t = Idle
        BY <2>2, <3>1
    <3>2. CASE t # Idle
      <4>1. t = [u EXCEPT !.stage = "resolve", !.comp = None, !.seen = {}, !.found = None]
          BY <2>9, <3>2 DEF Recorded
      <4>2. t.stage = "resolve" /\ t.contract = u.contract
          BY <1>8, <4>1 DEF Tasks
      <4> QED BY <1>3, <2>9, <4>2 DEF Answers
    <3> QED BY <3>1, <3>2
  <2>10. CASE Record(r)
    <3>1. u.stage = "record" /\ r \in Refreshing
        BY <1>7, <2>10 DEF Record, Refreshing
    <3>2. CASE remote
      <4>1. t = [u EXCEPT !.stage = "keep"]
          BY <1>1, <1>5, <1>7, <2>10, <3>2 DEF Record, Becomes
      <4>2. t.stage = "keep" /\ t.contract = u.contract /\ t.found = u.found
          BY <1>8, <4>1 DEF Tasks
      <4>3. u.found.files = files
          BY <1>7, <3>1 DEF SInv, ManifestInv, Refreshes
      <4>4. OldIn(t.contract, t.found)'
          BY <1>3, <4>2, <4>3 DEF OldIn, Old
      <4> QED BY <4>2, <4>4 DEF Answers
    <3>3. CASE ~remote
      <4>1. t = Recorded(u)
          BY <1>1, <1>5, <1>7, <2>10, <3>3 DEF Record, Becomes
      <4> QED BY <2>9, <3>3, <4>1
    <3> QED BY <3>2, <3>3
  <2>11. CASE KeepManifest(r)
    <3>1. u.stage = "keep" /\ cached' = [cached EXCEPT ![u.contract] = u.found] /\ t = Recorded(u)
        BY <1>1, <1>5, <1>7, <2>11 DEF KeepManifest, Becomes
    <3>2. cached'[u.contract] = u.found
        BY <1>1, <1>8, <3>1 DEF TInv, DirInv
    <3>3. OldIn(u.contract, u.found)
        BY <1>8, <3>1 DEF Answers
    <3>4. OldIn(u.contract, cached[u.contract])'
        BY <1>6, <3>2, <3>3 DEF OldIn
    <3> QED BY <2>9, <3>1, <3>4
  <2>12. CASE Resolve(r)
    <3>1. u.stage = "resolve" /\ u.contract \in Contracts
        BY <1>7, <1>8, <2>12 DEF Resolve
    <3>2. PICK m : m = IF remote THEN cached[u.contract] ELSE manifest[u.contract]
        OBVIOUS
    <3>3. PICK x : x = FlagsCurrent(m, u.contract, comp[u.contract])
        OBVIOUS
    <3>4. t = Idle \/ (m # None /\ t = [u EXCEPT !.stage = "view", !.refuse = FALSE, !.stored = x])
        BY <1>1, <1>5, <1>7, <2>12, <3>2, <3>3 DEF Resolve, Becomes
    <3>5. ASSUME m # None, t = [u EXCEPT !.stage = "view", !.refuse = FALSE, !.stored = x] PROVE Answers(t)'
      <4>1. t.stage = "view" /\ t.contract = u.contract /\ t.stored = x
          BY <1>8, <3>5 DEF Tasks
      <4>2. OldIn(u.contract, m)
        <5>1. CASE remote
            BY <1>8, <3>1, <3>2, <5>1 DEF Answers
        <5>2. CASE ~remote
            BY <1>1, <1>7, <3>1, <3>2, <5>2, OldListed
        <5> QED BY <5>1, <5>2
      <4>3. FlagsCurrent(m, u.contract, comp[u.contract]) => Old(u.contract) = {}
        <5> SUFFICES ASSUME FlagsCurrent(m, u.contract, comp[u.contract]), NEW f \in Old(u.contract)
                     PROVE  FALSE
            OBVIOUS
        <5>1. f \in m.files /\ f \in files /\ by[f] # None /\ ~Agree(by[f].comp, comp[u.contract])
            BY <3>5, <4>2 DEF OldIn, Old
        <5>2. Hash[by[f].contract][by[f].comp] = Hash[u.contract][comp[u.contract]]
            BY <5>1 DEF FlagsCurrent, Stamped
        <5>3. by[f].contract \in Contracts /\ by[f].comp \in Comps /\ comp[u.contract] \in Comps
            BY <1>1, <3>1, <5>1 DEF TInv, DirInv, WritesInv, Stamps
        <5> QED BY <3>1, <5>1, <5>2, <5>3 DEF HashesTell
      <4>4. t.stored => Old(t.contract)' = {}
          BY <1>6, <3>3, <4>1, <4>3
      <4> QED BY <4>1, <4>4 DEF Answers
    <3> QED BY <2>2, <3>4, <3>5
  <2>13. CASE View(r)
    <3>1. u.stage = "view" /\ t = [u EXCEPT !.stage = "read", !.comp = comp[u.contract]]
        BY <1>1, <1>5, <1>7, <2>13 DEF View, Becomes
    <3>2. t.stage = "read" /\ t.contract = u.contract /\ t.comp = comp[u.contract] /\ t.stored = u.stored
        BY <1>8, <3>1 DEF Tasks
    <3>3. u.stored => Old(u.contract) = {}
        BY <1>8, <3>1 DEF Answers
    <3> QED BY <1>3, <1>6, <3>2, <3>3 DEF Answers
  <2>14. CASE Read(r)
    <3>1. /\ u.stage = "read"
          /\ t = [u EXCEPT !.stage = "answered",
                           !.seen = {f \in files : Keeps(f, u.comp, u.stored)}]
        BY <1>1, <1>5, <1>7, <2>14 DEF Read, Becomes
    <3>2. PICK S : S = {f \in files : Keeps(f, u.comp, u.stored)}
        OBVIOUS
    <3>3. t.stage = "answered" /\ t.comp = u.comp /\ t.seen = S
        BY <1>8, <3>1, <3>2 DEF Tasks
    <3>4. u.comp = comp[u.contract] /\ (u.stored => Old(u.contract) = {})
        BY <1>8, <3>1 DEF Answers
    <3>5. u.comp \in Comps
        BY <1>1, <1>8, <3>1, <3>4 DEF TInv, DirInv
    <3>6. ASSUME NEW f \in S PROVE f \notin Breaks[u.comp]
      <4>1. f \in files /\ Keeps(f, u.comp, u.stored)
          BY <3>2
      <4>2. CASE u.stored
        <5>1. ASSUME NEW i \in DOMAIN Rules[u.comp] PROVE f \notin Rules[u.comp][i]
          <6>1. by[f] # None /\ i \in DOMAIN Rules[by[f].comp] /\ f \notin Rules[by[f].comp][i]
              BY <4>1, <4>2 DEF Keeps
          <6>2. Agree(by[f].comp, u.comp)
              BY <3>4, <4>1, <4>2, <6>1 DEF Old
          <6> QED BY <6>1, <6>2 DEF Agree
        <5> QED BY <3>5, <5>1 DEF Breaks
      <4>3. CASE ~u.stored
          BY <4>1, <4>3 DEF Keeps
      <4> QED BY <4>2, <4>3
    <3> QED BY <3>3, <3>6 DEF Answers
  <2>15. CASE Leave(r)
    <3>1. t = Idle
        BY <1>1, <1>5, <2>15 DEF Leave, Becomes
    <3> QED BY <2>2, <3>1
  <2> QED BY <2>3, <2>4, <2>5, <2>6, <2>7, <2>8, <2>10, <2>11, <2>12, <2>13, <2>14, <2>15
<1> QED BY <1>5, <1>9, <1>10

\* Every step of such a specification keeps it.
LEMMA AStep ==
    ASSUME HashesTell, SInv, AnswerInv, [Next /\ Alone' /\ Agreed' /\ Calm]_vars
    PROVE  AnswerInv'
<1>1. CASE UNCHANGED vars
    BY <1>1 DEF vars, dirVars, writeVars, AnswerInv, Agreed, Torn, Answers, OldIn, Old
<1>2. CASE Next /\ Agreed' /\ Calm
  <2>1. ASSUME NEW c \in Contracts, NEW k \in Comps, Register(c, k) PROVE AnswerInv'
    <3>1. comp[c] # k /\ comp' = [comp EXCEPT ![c] = k] /\ pc' = pc /\ task' = task
        BY <2>1 DEF Register, writeVars
    <3>2. comp' # comp
        BY <3>1 DEF SInv, TInv, DirInv
    <3>3. \A r \in Readers : task[r].stage = "idle"
        BY <1>2, <3>2 DEF Calm
    <3>5. \A r \in Readers : Answers(task[r])'
        BY <3>1, <3>3 DEF Answers
    <3> QED BY <1>2, <3>5 DEF AnswerInv
  <2>2. ASSUME NEW w \in Writes, NEW c \in Contracts, NEW k \in Kinds, NEW p \in Policies, BeginWrite(w, c, k, p)
        PROVE  AnswerInv'
      BY <1>2, <2>2, WriteAnswers
  <2>3. ASSUME NEW w \in Writes,
               FinishWrite(w) \/ Look(w) \/ List(w) \/ Install(w) \/ KeepFacts(w) \/ Stop(w)
        PROVE  AnswerInv'
      BY <1>2, <2>3, WriteAnswers
  <2>4. ASSUME NEW w \in Writes, NEW c \in Contracts, Load(w, c) \/ SaveFacts(w, c) PROVE AnswerInv'
      BY <1>2, <2>4, WriteAnswers
  <2>5. ASSUME NEW w \in Writes, NEW f \in Writes, RemoveFile(w, f) PROVE AnswerInv'
      BY <1>2, <2>5, WriteAnswers
  <2>6. ASSUME NEW r \in Readers, NEW c \in Contracts, Validate(r, c) PROVE AnswerInv'
      BY <1>2, <2>6, ReaderAnswers
  <2>7. ASSUME NEW r \in Readers, NEW c \in Contracts, NEW x \in BOOLEAN, Query(r, c, x) PROVE AnswerInv'
      BY <1>2, <2>7, ReaderAnswers
  <2>8. ASSUME NEW r \in Readers,
               \/ EnsureManifest(r) \/ LookForFiles(r) \/ Scan(r) \/ Entries(r) \/ Record(r)
               \/ KeepManifest(r) \/ Resolve(r) \/ View(r) \/ Read(r) \/ Leave(r)
        PROVE  AnswerInv'
      BY <1>2, <2>8, ReaderAnswers
  <2> QED BY <1>2, <2>1, <2>2, <2>3, <2>4, <2>5, <2>6, <2>7, <2>8 DEF Next
<1> QED BY <1>1, <1>2

\* When besides the hash of a contract's document tells its rules apart (no function was
\* changed under it), a write and a query that run at once are under rules that agree, and
\* contracts are registered again only between queries, a read never returns a row that
\* breaks its contract (violation.rs), whether its rules are evaluated or the flags in the
\* files stand for them (Manifest::flags_current), whichever contract each file was written
\* under, and whatever was published between that decision and the read.
THEOREM AnswersHold == HashesTell => (CalmSpec => []AnswersKeepTheContract)
<1> SUFFICES ASSUME HashesTell PROVE CalmSpec => []AnswersKeepTheContract
    OBVIOUS
<1>1. AnswerInv => AnswersKeepTheContract
    BY DEF AnswerInv, Answers, AnswersKeepTheContract
<1>2. SInv /\ [Next /\ Alone' /\ Agreed' /\ Calm]_vars => SInv'
    BY SStep
<1>3. SInv /\ AnswerInv /\ [Next /\ Alone' /\ Agreed' /\ Calm]_vars => AnswerInv'
    BY AStep
<1>4. CalmSpec => [](SInv /\ AnswerInv)
    BY SInit, AInit, <1>2, <1>3, PTL DEF CalmSpec
<1> QED BY <1>1, <1>4, PTL
=============================================================================

--------------------------- MODULE DeliveryProofs ---------------------------
(***************************************************************************)
(* Delivery for any number of queries, keys, rows and entries: what is     *)
(* below its threshold is withheld, however it comes, what leaves is what  *)
(* was signed, and the cache keeps its bounds and its times.               *)
(***************************************************************************)
EXTENDS Delivery, FiniteSums

Jobs == [at : Stages, mode : Modes \cup {"none"}, key : Keys \cup {None}, total : Nat, held : Nat,
         out : Nat, age : Nat, sig : Envelopes \cup {None}]

\* A result of n rows under the threshold of key k.
Withheld(n, k) == IF n < K[k] THEN 0 ELSE n

\* Entries that were put by End: withheld already, and no younger than they are.
Entries == {e \in [key : Keys, rows : Nat, total : Nat, bytes : Nat, age : 0 .. (Ttl + 1), old : 0 .. (Ttl + 1)] :
               e.rows = Withheld(e.total, e.key) /\ e.old = e.age}

(***************************************************************************)
(* Sequences of entries: what they weigh, and some of them.                *)
(***************************************************************************)
\* The weights of the beginnings of s.
Sums(s, n, W) == W = [i \in 0 .. n |-> IF i = 0 THEN 0 ELSE W[i - 1] + s[i].bytes]

\* There are such weights, for a sequence of any length.
LEMMA SumsExist ==
    ASSUME NEW s, NEW m \in Nat
    PROVE  \E W : Sums(s, m, W)
<1> DEFINE S == {n \in Nat : \E W : Sums(s, n, W)}
<1>1. 0 \in S
  <2>1. Sums(s, 0, [i \in 0 .. 0 |-> 0])
      BY DEF Sums
  <2> QED BY <2>1
<1>2. ASSUME NEW n \in Nat, n \in S PROVE n + 1 \in S
  <2>1. PICK W : Sums(s, n, W)
      BY <1>2
  <2> DEFINE V == [i \in 0 .. (n + 1) |-> IF i <= n THEN W[i] ELSE W[n] + s[n + 1].bytes]
  <2>2. ASSUME NEW i \in 0 .. (n + 1)
        PROVE  V[i] = IF i = 0 THEN 0 ELSE V[i - 1] + s[i].bytes
    <3>1. CASE i <= n
      <4>1. W[i] = IF i = 0 THEN 0 ELSE W[i - 1] + s[i].bytes
          BY <2>1, <3>1 DEF Sums
      <4> QED BY <3>1, <4>1
    <3>2. CASE i = n + 1
        BY <3>2
    <3> QED BY <3>1, <3>2
  <2>3. V = [i \in 0 .. (n + 1) |-> IF i = 0 THEN 0 ELSE V[i - 1] + s[i].bytes]
      BY <2>2
  <2>4. Sums(s, n + 1, V)
      BY <2>3 DEF Sums
  <2> QED BY <2>4
<1>3. Nat \subseteq S
  <2> HIDE DEF S
  <2> QED BY <1>1, <1>2, SetInduction
<1> QED BY <1>3

\* Inner::total_bytes of a sequence of entries is the last of them.
LEMMA WeightSums ==
    ASSUME NEW s \in Seq(Entries)
    PROVE  \E W : Sums(s, Len(s), W) /\ Weight(s) = W[Len(s)]
<1>1. \E W : Sums(s, Len(s), W)
    BY SumsExist
<1> DEFINE W == CHOOSE W : Sums(s, Len(s), W)
<1>2. Sums(s, Len(s), W)
    BY <1>1
<1>3. Weight(s) = W[Len(s)]
    BY DEF Weight, Sums
<1> QED BY <1>2, <1>3

\* The first n entries of s and t have the same bytes.
Alike(s, t, n) == \A i \in 1 .. n : s[i].bytes = t[i].bytes

\* The weights of a beginning are those of the whole, as far as it goes.
LEMMA SameSums ==
    ASSUME NEW s, NEW t, NEW n \in Nat, NEW m \in Nat, n <= m, NEW W, NEW V, Sums(s, n, W), Sums(t, m, V),
           Alike(s, t, n)
    PROVE  \A i \in 0 .. n : W[i] = V[i]
<1> DEFINE S == {i \in Nat : i <= n => W[i] = V[i]}
<1>1. 0 \in S
    BY DEF Sums
<1>2. ASSUME NEW i \in Nat, i \in S PROVE i + 1 \in S
  <2> SUFFICES ASSUME i + 1 <= n PROVE W[i + 1] = V[i + 1]
      OBVIOUS
  <2>1. W[i] = V[i] /\ s[i + 1].bytes = t[i + 1].bytes
      BY <1>2 DEF Alike
  <2>2. W[i + 1] = W[i] + s[i + 1].bytes
      BY DEF Sums
  <2>3. V[i + 1] = V[i] + t[i + 1].bytes
      BY DEF Sums
  <2> QED BY <2>1, <2>2, <2>3
<1>3. Nat \subseteq S
  <2> HIDE DEF S
  <2> QED BY <1>1, <1>2, SetInduction
<1> QED BY <1>3

\* Entries weigh what they weigh wherever they are older.
LEMMA WeightSame ==
    ASSUME NEW s \in Seq(Entries), NEW t \in Seq(Entries), Len(s) = Len(t), Alike(s, t, Len(s))
    PROVE  Weight(s) = Weight(t)
<1>1. PICK W : Sums(s, Len(s), W) /\ Weight(s) = W[Len(s)]
    BY WeightSums
<1>2. PICK V : Sums(t, Len(t), V) /\ Weight(t) = V[Len(t)]
    BY WeightSums
<1>3. \A i \in 0 .. Len(s) : W[i] = V[i]
  <2>1. Len(s) \in Nat /\ Len(t) \in Nat /\ Len(s) <= Len(t)
      OBVIOUS
  <2> QED BY <1>1, <1>2, <2>1, SameSums
<1> QED BY <1>1, <1>2, <1>3

\* An entry put at the end adds its bytes (QueryCache::put).
LEMMA WeightAppend ==
    /\ Weight(<<>>) = 0
    /\ \A s \in Seq(Entries), e \in Entries : Weight(Append(s, e)) = Weight(s) + e.bytes
<1>1. Weight(<<>>) = 0
  <2>1. <<>> \in Seq(Entries)
      OBVIOUS
  <2>2. PICK W : Sums(<<>>, Len(<<>>), W) /\ Weight(<<>>) = W[Len(<<>>)]
      BY <2>1, WeightSums
  <2> QED BY <2>2 DEF Sums
<1>2. ASSUME NEW s \in Seq(Entries), NEW e \in Entries
      PROVE  Weight(Append(s, e)) = Weight(s) + e.bytes
  <2>0. Append(s, e) \in Seq(Entries)
      OBVIOUS
  <2>1. PICK t \in Seq(Entries) : t = Append(s, e)
      BY <2>0
  <2>2. Len(t) = Len(s) + 1 /\ t[Len(s) + 1] = e /\ \A i \in 1 .. Len(s) : s[i] = t[i]
      BY <2>1
  <2>3. PICK W : Sums(s, Len(s), W) /\ Weight(s) = W[Len(s)]
      BY WeightSums
  <2>4. PICK V : Sums(t, Len(t), V) /\ Weight(t) = V[Len(t)]
      BY WeightSums
  <2>5. \A i \in 0 .. Len(s) : W[i] = V[i]
    <3>1. Len(s) \in Nat /\ Len(t) \in Nat /\ Len(s) <= Len(t)
        BY <2>2
    <3>2. Alike(s, t, Len(s))
        BY <2>2 DEF Alike
    <3> QED BY <2>3, <2>4, <3>1, <3>2, SameSums
  <2>6. V[Len(s) + 1] = V[Len(s)] + t[Len(s) + 1].bytes
      BY <2>2, <2>4 DEF Sums
  <2> QED BY <2>1, <2>2, <2>3, <2>4, <2>5, <2>6
<1> QED BY <1>1, <1>2

\* A set with the empty sequence in it, and each of its sequences made longer by one, has
\* them all.
LEMMA SeqInduction ==
    ASSUME NEW E, NEW T, <<>> \in T, \A s \in Seq(E), e \in E : s \in T => Append(s, e) \in T
    PROVE  Seq(E) \subseteq T
<1> DEFINE S == {n \in Nat : \A s \in Seq(E) : Len(s) = n => s \in T}
<1>1. 0 \in S
  <2>1. \A s \in Seq(E) : Len(s) = 0 => s = <<>>
      OBVIOUS
  <2> QED BY <2>1
<1>2. ASSUME NEW n \in Nat, n \in S PROVE n + 1 \in S
  <2> SUFFICES ASSUME NEW s \in Seq(E), Len(s) = n + 1 PROVE s \in T
      OBVIOUS
  <2>1. PICK t \in Seq(E), e \in E : s = Append(t, e) /\ Len(t) = n
    <3> DEFINE t == [i \in 1 .. n |-> s[i]]
               e == s[n + 1]
    <3>1. t \in Seq(E) /\ e \in E /\ Len(t) = n
        OBVIOUS
    <3>2. s = Append(t, e)
        OBVIOUS
    <3> QED BY <3>1, <3>2
  <2> QED BY <1>2, <2>1
<1>3. Nat \subseteq S
  <2> HIDE DEF S
  <2> QED BY <1>1, <1>2, SetInduction
<1> QED BY <1>3

\* Bytes are counted from 0.
LEMMA WeightNat == \A s \in Seq(Entries) : Weight(s) \in Nat
<1> DEFINE T == {s \in Seq(Entries) : Weight(s) \in Nat}
<1>1. <<>> \in T
    BY WeightAppend
<1>2. ASSUME NEW s \in Seq(Entries), NEW e \in Entries, s \in T PROVE Append(s, e) \in T
  <2>1. Weight(Append(s, e)) = Weight(s) + e.bytes /\ e.bytes \in Nat
      BY WeightAppend DEF Entries
  <2> QED BY <1>2, <2>1
<1>3. Seq(Entries) \subseteq T
  <2> HIDE DEF T
  <2> QED BY <1>1, <1>2, SeqInduction
<1> QED BY <1>3

\* What is popped and what is left weigh together what was there.
LEMMA WeightCat ==
    ASSUME NEW s \in Seq(Entries)
    PROVE  \A t \in Seq(Entries) : Weight(s \o t) = Weight(s) + Weight(t)
<1> DEFINE T == {t \in Seq(Entries) : Weight(s \o t) = Weight(s) + Weight(t)}
<1>1. <<>> \in T
  <2>1. s \o <<>> = s
      OBVIOUS
  <2>2. Weight(s) \in Nat /\ Weight(<<>>) = 0
      BY WeightNat, WeightAppend
  <2> QED BY <2>1, <2>2
<1>2. ASSUME NEW t \in Seq(Entries), NEW e \in Entries, t \in T PROVE Append(t, e) \in T
  <2>1. s \o Append(t, e) = Append(s \o t, e) /\ s \o t \in Seq(Entries) /\ Append(t, e) \in Seq(Entries)
      OBVIOUS
  <2>2. Weight(Append(s \o t, e)) = Weight(s \o t) + e.bytes /\ Weight(Append(t, e)) = Weight(t) + e.bytes
      BY <2>1, WeightAppend
  <2>3. Weight(s) \in Nat /\ Weight(t) \in Nat /\ e.bytes \in Nat
      BY WeightNat DEF Entries
  <2>4. Weight(s \o t) = Weight(s) + Weight(t)
      BY <1>2
  <2>5. Weight(s \o Append(t, e)) = Weight(s) + Weight(Append(t, e))
      BY <2>1, <2>2, <2>3, <2>4
  <2> QED BY <2>1, <2>5
<1>3. Seq(Entries) \subseteq T
  <2> HIDE DEF T
  <2> QED BY <1>1, <1>2, SeqInduction
<1> QED BY <1>3

\* The entries of the beginnings of s with a key in S.
Picks(s, S, n, T) == T = [i \in 0 .. n |-> IF i = 0 THEN <<>>
                                           ELSE IF s[i].key \in S THEN Append(T[i - 1], s[i]) ELSE T[i - 1]]

\* There are such entries, for a sequence of any length.
LEMMA PicksExist ==
    ASSUME NEW s, NEW S, NEW m \in Nat
    PROVE  \E T : Picks(s, S, m, T)
<1> DEFINE Z == {n \in Nat : \E T : Picks(s, S, n, T)}
           Longer(i, r) == IF s[i].key \in S THEN Append(r, s[i]) ELSE r
<1>1. 0 \in Z
  <2>1. Picks(s, S, 0, [i \in 0 .. 0 |-> <<>>])
      BY DEF Picks
  <2> QED BY <2>1
<1>2. ASSUME NEW n \in Nat, n \in Z PROVE n + 1 \in Z
  <2>1. PICK W : Picks(s, S, n, W)
      BY <1>2
  <2>2. W = [i \in 0 .. n |-> IF i = 0 THEN <<>> ELSE Longer(i, W[i - 1])]
      BY <2>1 DEF Picks
  <2> HIDE DEF Longer
  <2> DEFINE V == [i \in 0 .. (n + 1) |-> IF i <= n THEN W[i] ELSE Longer(n + 1, W[n])]
  <2>3. ASSUME NEW i \in 0 .. (n + 1)
        PROVE  V[i] = IF i = 0 THEN <<>> ELSE Longer(i, V[i - 1])
    <3>1. CASE i <= n
      <4>1. W[i] = IF i = 0 THEN <<>> ELSE Longer(i, W[i - 1])
          BY <2>2, <3>1
      <4> QED BY <3>1, <4>1
    <3>2. CASE i = n + 1
        BY <3>2
    <3> QED BY <3>1, <3>2
  <2>4. V = [i \in 0 .. (n + 1) |-> IF i = 0 THEN <<>> ELSE Longer(i, V[i - 1])]
      BY <2>3
  <2> HIDE DEF V
  <2>5. Picks(s, S, n + 1, V)
      BY <2>4 DEF Picks, Longer
  <2> QED BY <2>5
<1>3. Nat \subseteq Z
  <2> HIDE DEF Z
  <2> QED BY <1>1, <1>2, SetInduction
<1> QED BY <1>3

\* Those is the last of them.
LEMMA ThosePicks ==
    ASSUME NEW s \in Seq(Entries), NEW S
    PROVE  \E T : Picks(s, S, Len(s), T) /\ Those(s, S) = T[Len(s)]
<1>1. \E T : Picks(s, S, Len(s), T)
  <2>1. Len(s) \in Nat
      OBVIOUS
  <2> QED BY <2>1, PicksExist
<1> DEFINE T == CHOOSE T : Picks(s, S, Len(s), T)
<1>2. Picks(s, S, Len(s), T)
    BY <1>1
<1>3. Those(s, S) = T[Len(s)]
    BY DEF Those, Picks
<1> QED BY <1>2, <1>3

\* The picks of a beginning are those of the whole, as far as it goes.
LEMMA SamePicks ==
    ASSUME NEW s, NEW t, NEW S, NEW n \in Nat, NEW m \in Nat, n <= m, NEW W, NEW V,
           Picks(s, S, n, W), Picks(t, S, m, V), \A i \in 1 .. n : s[i] = t[i]
    PROVE  \A i \in 0 .. n : W[i] = V[i]
<1> DEFINE Z == {i \in Nat : i <= n => W[i] = V[i]}
           Longer(e, r) == IF e.key \in S THEN Append(r, e) ELSE r
<1>1. 0 \in Z
    BY DEF Picks
<1>2. ASSUME NEW i \in Nat, i \in Z PROVE i + 1 \in Z
  <2> SUFFICES ASSUME i + 1 <= n PROVE W[i + 1] = V[i + 1]
      OBVIOUS
  <2>1. W[i] = V[i] /\ s[i + 1] = t[i + 1]
      BY <1>2
  <2>2. W = [j \in 0 .. n |-> IF j = 0 THEN <<>> ELSE Longer(s[j], W[j - 1])]
      BY DEF Picks
  <2>3. V = [j \in 0 .. m |-> IF j = 0 THEN <<>> ELSE Longer(t[j], V[j - 1])]
      BY DEF Picks
  <2> HIDE DEF Longer
  <2>4. W[i + 1] = Longer(s[i + 1], W[i])
      BY <2>2
  <2>5. V[i + 1] = Longer(t[i + 1], V[i])
      BY <2>3
  <2> QED BY <2>1, <2>4, <2>5
<1>3. Nat \subseteq Z
  <2> HIDE DEF Z
  <2> QED BY <1>1, <1>2, SetInduction
<1> QED BY <1>3

\* What an entry put at the end adds to those with a key in S.
LEMMA ThoseAppend ==
    ASSUME NEW S
    PROVE  /\ Those(<<>>, S) = <<>>
           /\ \A s \in Seq(Entries), e \in Entries :
                 Those(Append(s, e), S) = IF e.key \in S THEN Append(Those(s, S), e) ELSE Those(s, S)
<1>1. Those(<<>>, S) = <<>>
  <2>1. <<>> \in Seq(Entries)
      OBVIOUS
  <2>2. PICK W : Picks(<<>>, S, Len(<<>>), W) /\ Those(<<>>, S) = W[Len(<<>>)]
      BY <2>1, ThosePicks
  <2> QED BY <2>2 DEF Picks
<1>2. ASSUME NEW s \in Seq(Entries), NEW e \in Entries
      PROVE  Those(Append(s, e), S) = IF e.key \in S THEN Append(Those(s, S), e) ELSE Those(s, S)
  <2>0. Append(s, e) \in Seq(Entries)
      OBVIOUS
  <2>1. PICK t \in Seq(Entries) : t = Append(s, e)
      BY <2>0
  <2>2. Len(t) = Len(s) + 1 /\ t[Len(s) + 1] = e /\ \A i \in 1 .. Len(s) : s[i] = t[i]
      BY <2>1
  <2>3. PICK W : Picks(s, S, Len(s), W) /\ Those(s, S) = W[Len(s)]
      BY ThosePicks
  <2>4. PICK V : Picks(t, S, Len(t), V) /\ Those(t, S) = V[Len(t)]
      BY ThosePicks
  <2>5. \A i \in 0 .. Len(s) : W[i] = V[i]
    <3>1. Len(s) \in Nat /\ Len(t) \in Nat /\ Len(s) <= Len(t)
        BY <2>2
    <3> QED BY <2>2, <2>3, <2>4, <3>1, SamePicks
  <2>6. V[Len(s) + 1] = IF e.key \in S THEN Append(V[Len(s)], e) ELSE V[Len(s)]
    <3> DEFINE Longer(f, r) == IF f.key \in S THEN Append(r, f) ELSE r
    <3>1. V = [j \in 0 .. Len(t) |-> IF j = 0 THEN <<>> ELSE Longer(t[j], V[j - 1])]
        BY <2>4 DEF Picks
    <3>2. V[Len(s) + 1] = Longer(e, V[Len(s)])
      <4> HIDE DEF Longer
      <4>1. Len(s) + 1 \in 0 .. Len(t) /\ Len(s) + 1 # 0 /\ (Len(s) + 1) - 1 = Len(s)
          BY <2>2
      <4> QED BY <2>2, <3>1, <4>1
    <3> QED BY <3>2
  <2>7. V[Len(s)] = Those(s, S)
      BY <2>3, <2>5
  <2> QED BY <2>1, <2>2, <2>4, <2>6, <2>7
<1> QED BY <1>1, <1>2

\* They are entries of s with a key in S.
From(t, s, S) == \A i \in 1 .. Len(t) : t[i].key \in S /\ \E j \in 1 .. Len(s) : t[i] = s[j]

\* What QueryCache::invalidate_contract keeps or drops was in the cache.
LEMMA ThoseType ==
    ASSUME NEW S
    PROVE  \A s \in Seq(Entries) : Those(s, S) \in Seq(Entries) /\ From(Those(s, S), s, S)
<1> DEFINE T == {s \in Seq(Entries) : Those(s, S) \in Seq(Entries) /\ From(Those(s, S), s, S)}
<1>1. <<>> \in T
  <2>1. Those(<<>>, S) = <<>>
      BY ThoseAppend
  <2>2. <<>> \in Seq(Entries)
      OBVIOUS
  <2>3. From(<<>>, <<>>, S)
      BY DEF From
  <2> QED BY <2>1, <2>2, <2>3
<1>2. ASSUME NEW s \in Seq(Entries), NEW e \in Entries, s \in T PROVE Append(s, e) \in T
  <2>1. PICK t \in Seq(Entries) : t = Those(s, S) /\ From(t, s, S)
      BY <1>2
  <2>2. PICK u \in Seq(Entries) : u = Append(s, e)
    <3>1. Append(s, e) \in Seq(Entries)
        OBVIOUS
    <3> QED BY <3>1
  <2>3. Len(u) = Len(s) + 1 /\ u[Len(s) + 1] = e /\ \A i \in 1 .. Len(s) : u[i] = s[i]
      BY <2>2
  <2>4. From(t, u, S)
      BY <2>1, <2>3 DEF From
  <2>5. CASE e.key \in S
    <3>1. Those(u, S) = Append(t, e)
        BY <2>1, <2>2, <2>5, ThoseAppend
    <3>2. PICK v \in Seq(Entries) : v = Append(t, e)
      <4>1. Append(t, e) \in Seq(Entries)
          OBVIOUS
      <4> QED BY <4>1
    <3>3. Len(v) = Len(t) + 1 /\ v[Len(t) + 1] = e /\ \A i \in 1 .. Len(t) : v[i] = t[i]
        BY <3>2
    <3>4. ASSUME NEW i \in 1 .. Len(v) PROVE v[i].key \in S /\ \E j \in 1 .. Len(u) : v[i] = u[j]
      <4>1. CASE i \in 1 .. Len(t)
          BY <2>4, <3>3, <4>1 DEF From
      <4>2. CASE i = Len(t) + 1
        <5>1. Len(s) + 1 \in 1 .. Len(u) /\ v[i] = u[Len(s) + 1]
            BY <2>3, <3>3, <4>2
        <5> QED BY <2>5, <3>3, <4>2, <5>1
      <4> QED BY <3>3, <4>1, <4>2
    <3>5. From(v, u, S)
        BY <3>4 DEF From
    <3>6. Those(u, S) = v
        BY <3>1, <3>2
    <3> QED BY <2>2, <3>5, <3>6
  <2>6. CASE e.key \notin S
    <3>1. Those(u, S) = t
        BY <2>1, <2>2, <2>6, ThoseAppend
    <3> QED BY <2>2, <2>4, <3>1
  <2> QED BY <2>5, <2>6
<1>3. Seq(Entries) \subseteq T
  <2> HIDE DEF T
  <2> QED BY <1>1, <1>2, SeqInduction
<1> QED BY <1>3

\* Those with a key in S and those without are all, in number and in bytes.
LEMMA ThoseSplit ==
    ASSUME NEW S
    PROVE  \A s \in Seq(Entries) :
               /\ Weight(Those(s, S)) + Weight(Those(s, Keys \ S)) = Weight(s)
               /\ Len(Those(s, S)) + Len(Those(s, Keys \ S)) = Len(s)
<1> DEFINE P(s) == /\ Weight(Those(s, S)) + Weight(Those(s, Keys \ S)) = Weight(s)
                   /\ Len(Those(s, S)) + Len(Those(s, Keys \ S)) = Len(s)
           T == {s \in Seq(Entries) : P(s)}
<1>1. <<>> \in T
    BY ThoseAppend, WeightAppend
<1>2. ASSUME NEW s \in Seq(Entries), NEW e \in Entries, s \in T PROVE Append(s, e) \in T
  <2>1. PICK t \in Seq(Entries), u \in Seq(Entries) : t = Those(s, S) /\ u = Those(s, Keys \ S)
      BY ThoseType
  <2>2. Append(s, e) \in Seq(Entries) /\ Append(t, e) \in Seq(Entries) /\ Append(u, e) \in Seq(Entries)
        /\ Len(Append(s, e)) = Len(s) + 1 /\ Len(Append(t, e)) = Len(t) + 1 /\ Len(Append(u, e)) = Len(u) + 1
      OBVIOUS
  <2>3. Weight(Append(s, e)) = Weight(s) + e.bytes /\ Weight(Append(t, e)) = Weight(t) + e.bytes
        /\ Weight(Append(u, e)) = Weight(u) + e.bytes
      BY WeightAppend
  <2>4. Weight(s) \in Nat /\ Weight(t) \in Nat /\ Weight(u) \in Nat /\ e.bytes \in Nat /\ e.key \in Keys
      BY WeightNat DEF Entries
  <2>5. Weight(t) + Weight(u) = Weight(s) /\ Len(t) + Len(u) = Len(s)
      BY <1>2, <2>1
  <2>6. CASE e.key \in S
    <3>1. Those(Append(s, e), S) = Append(t, e) /\ Those(Append(s, e), Keys \ S) = u
      <4>1. e.key \notin Keys \ S
          BY <2>6
      <4> QED BY <2>1, <2>6, <4>1, ThoseAppend
    <3>2. Weight(Append(t, e)) + Weight(u) = Weight(Append(s, e)) /\ Len(Append(t, e)) + Len(u) = Len(Append(s, e))
        BY <2>2, <2>3, <2>4, <2>5
    <3>3. P(Append(s, e))
        BY <3>1, <3>2
    <3> QED BY <2>2, <3>3
  <2>7. CASE e.key \notin S
    <3>1. Those(Append(s, e), S) = t /\ Those(Append(s, e), Keys \ S) = Append(u, e)
      <4>1. e.key \in Keys \ S
          BY <2>4, <2>7
      <4> QED BY <2>1, <2>7, <4>1, ThoseAppend
    <3>2. Weight(t) + Weight(Append(u, e)) = Weight(Append(s, e)) /\ Len(t) + Len(Append(u, e)) = Len(Append(s, e))
      <4>1. Weight(t) + Weight(Append(u, e)) = Weight(Append(s, e))
          BY <2>3, <2>4, <2>5
      <4>2. Len(t) \in Nat /\ Len(u) \in Nat /\ Len(s) \in Nat
          OBVIOUS
      <4>3. Len(t) + Len(Append(u, e)) = Len(Append(s, e))
          BY <2>2, <2>5, <4>2
      <4> QED BY <4>1, <4>3
    <3>3. P(Append(s, e))
        BY <3>1, <3>2
    <3> QED BY <2>2, <3>3
  <2> QED BY <2>6, <2>7
<1>3. Seq(Entries) \subseteq T
  <2> HIDE DEF T
  <2> QED BY <1>1, <1>2, SeqInduction
<1> QED BY <1>3

\* No key twice.
Distinct(s) == \A i, j \in 1 .. Len(s) : s[i].key = s[j].key => i = j

\* Dropping entries (QueryCache::invalidate_contract, get) gives no key twice.
LEMMA ThoseDistinct ==
    ASSUME NEW S
    PROVE  \A s \in Seq(Entries) : Distinct(s) => Distinct(Those(s, S))
<1> DEFINE T == {s \in Seq(Entries) : Distinct(s) => Distinct(Those(s, S))}
<1>1. <<>> \in T
    BY ThoseAppend DEF Distinct
<1>2. ASSUME NEW s \in Seq(Entries), NEW e \in Entries, s \in T PROVE Append(s, e) \in T
  <2>1. PICK t \in Seq(Entries) : t = Those(s, S) /\ From(t, s, S)
      BY ThoseType
  <2>2. PICK u \in Seq(Entries) : u = Append(s, e)
    <3>1. Append(s, e) \in Seq(Entries)
        OBVIOUS
    <3> QED BY <3>1
  <2>3. Len(u) = Len(s) + 1 /\ u[Len(s) + 1] = e /\ \A i \in 1 .. Len(s) : u[i] = s[i]
      BY <2>2
  <2> SUFFICES ASSUME Distinct(u) PROVE Distinct(Those(u, S))
      BY <2>2
  <2>4. Distinct(t)
    <3>1. Distinct(s)
        BY <2>3 DEF Distinct
    <3> QED BY <1>2, <2>1, <3>1
  <2>5. \A i \in 1 .. Len(t) : t[i].key # e.key
    <3> SUFFICES ASSUME NEW i \in 1 .. Len(t), t[i].key = e.key PROVE FALSE
        OBVIOUS
    <3>1. PICK j \in 1 .. Len(s) : t[i] = s[j]
        BY <2>1 DEF From
    <3>2. j \in 1 .. Len(u) /\ Len(u) \in 1 .. Len(u) /\ u[j].key = u[Len(u)].key /\ j # Len(u)
        BY <2>3, <3>1
    <3> QED BY <3>2 DEF Distinct
  <2>6. CASE e.key \in S
    <3>1. Those(u, S) = Append(t, e)
        BY <2>1, <2>2, <2>6, ThoseAppend
    <3>2. PICK v \in Seq(Entries) : v = Append(t, e)
      <4>1. Append(t, e) \in Seq(Entries)
          OBVIOUS
      <4> QED BY <4>1
    <3>3. Len(v) = Len(t) + 1 /\ v[Len(t) + 1] = e /\ \A i \in 1 .. Len(t) : v[i] = t[i]
        BY <3>2
    <3>4. Distinct(v)
        BY <2>4, <2>5, <3>3, SMTT(30) DEF Distinct
    <3> QED BY <3>1, <3>2, <3>4
  <2>7. CASE e.key \notin S
    <3>1. Those(u, S) = t
        BY <2>1, <2>2, <2>7, ThoseAppend
    <3> QED BY <2>4, <3>1
  <2> QED BY <2>6, <2>7
<1>3. Seq(Entries) \subseteq T
  <2> HIDE DEF T
  <2> QED BY <1>1, <1>2, SeqInduction
<1> QED BY <1>3

\* The one entry of a key.
LEMMA ThoseOne ==
    ASSUME NEW k
    PROVE  \A s \in Seq(Entries) : \A i \in 1 .. Len(s) :
               Distinct(s) /\ s[i].key = k => Those(s, {k}) = <<s[i]>>
<1> DEFINE P(s) == \A i \in 1 .. Len(s) : Distinct(s) /\ s[i].key = k => Those(s, {k}) = <<s[i]>>
           T == {s \in Seq(Entries) : P(s)}
<1>1. <<>> \in T
    OBVIOUS
<1>2. ASSUME NEW s \in Seq(Entries), NEW e \in Entries, s \in T PROVE Append(s, e) \in T
  <2>1. PICK t \in Seq(Entries) : t = Those(s, {k}) /\ From(t, s, {k})
      BY ThoseType
  <2>2. PICK u \in Seq(Entries) : u = Append(s, e)
    <3>1. Append(s, e) \in Seq(Entries)
        OBVIOUS
    <3> QED BY <3>1
  <2>3. Len(u) = Len(s) + 1 /\ u[Len(s) + 1] = e /\ \A i \in 1 .. Len(s) : u[i] = s[i]
      BY <2>2
  <2>4. ASSUME NEW i \in 1 .. Len(u), Distinct(u), u[i].key = k
        PROVE  Those(u, {k}) = <<u[i]>>
    <3>1. CASE i \in 1 .. Len(s)
      <4>1. Distinct(s) /\ s[i].key = k
          BY <2>3, <2>4, <3>1 DEF Distinct
      <4>2. t = <<s[i]>>
          BY <1>2, <2>1, <3>1, <4>1
      <4>3. e.key # k
        <5>1. Len(u) \in 1 .. Len(u) /\ i # Len(u) /\ u[Len(u)] = e
            BY <2>3, <3>1
        <5> QED BY <2>4, <5>1 DEF Distinct
      <4>4. Those(u, {k}) = t
          BY <2>1, <2>2, <4>3, ThoseAppend
      <4> QED BY <2>3, <3>1, <4>2, <4>4
    <3>2. CASE i = Len(s) + 1
      <4>1. e.key = k /\ u[i] = e
          BY <2>3, <2>4, <3>2
      <4>2. t = <<>>
        <5>1. ASSUME Len(t) # 0 PROVE FALSE
          <6>1. 1 \in 1 .. Len(t)
              BY <5>1
          <6>2. PICK j \in 1 .. Len(s) : t[1].key = k /\ t[1] = s[j]
              BY <2>1, <6>1 DEF From
          <6>3. j \in 1 .. Len(u) /\ u[j].key = u[i].key /\ j # i
              BY <2>3, <3>2, <4>1, <6>2
          <6> QED BY <2>4, <6>3 DEF Distinct
        <5> QED BY <5>1
      <4>3. Those(u, {k}) = Append(<<>>, e)
        <5>1. Those(u, {k}) = Append(t, e)
            BY <2>1, <2>2, <4>1, ThoseAppend
        <5> QED BY <4>2, <5>1
      <4> QED BY <4>1, <4>3
    <3> QED BY <2>3, <3>1, <3>2
  <2>5. P(u)
      BY <2>4
  <2> QED BY <2>2, <2>5
<1>3. Seq(Entries) \subseteq T
  <2> HIDE DEF T
  <2> QED BY <1>1, <1>2, SeqInduction
<1> QED BY <1>3

(***************************************************************************)
(* The cache keeps its bounds.                                             *)
(***************************************************************************)
CacheInv ==
    /\ lru \in Seq(Entries)
    /\ bytes = Weight(lru) /\ bytes <= MaxBytes
    /\ Len(lru) <= MaxEntries
    /\ Distinct(lru)

\* A sequence of entries is its first p and the rest.
First(s, p) == SubSeq(s, 1, p)
Rest(s, p) == SubSeq(s, p + 1, Len(s))

\* The length of two sequences, one after the other.
LEMMA Joined ==
    ASSUME NEW E, NEW a \in Seq(E), NEW b \in Seq(E)
    PROVE  Len(a \o b) = Len(a) + Len(b)
OBVIOUS

\* QueryCache::put pops the first entries: their bytes and those of the rest are all there were.
LEMMA Cut ==
    ASSUME NEW s \in Seq(Entries), NEW p \in 0 .. Len(s)
    PROVE  /\ First(s, p) \in Seq(Entries) /\ Rest(s, p) \in Seq(Entries)
           /\ Weight(s) = Weight(First(s, p)) + Weight(Rest(s, p))
           /\ Len(Rest(s, p)) = Len(s) - p
           /\ Distinct(s) => Distinct(Rest(s, p))
<1>0. PICK a, b : a = SubSeq(s, 1, p) /\ b = SubSeq(s, p + 1, Len(s))
    OBVIOUS
<1>1. a \in Seq(Entries) /\ Len(a) = p /\ \A i \in 1 .. p : a[i] = s[i]
    BY <1>0
<1>2. b \in Seq(Entries) /\ Len(b) = Len(s) - p /\ \A i \in 1 .. (Len(s) - p) : b[i] = s[p + i]
    BY <1>0
<1>3. s = a \o b
  <2>1. PICK c \in Seq(Entries) : c = a \o b
    <3>1. a \o b \in Seq(Entries)
        BY <1>1, <1>2
    <3> QED BY <3>1
  <2>2. Len(c) = Len(s)
    <3>1. Len(c) = Len(a) + Len(b)
        BY <1>1, <1>2, <2>1, Joined
    <3> QED BY <1>1, <1>2, <3>1
  <2>3. ASSUME NEW i \in 1 .. Len(s) PROVE c[i] = s[i]
    <3>1. CASE i <= p
        BY <1>1, <1>2, <2>1, <3>1
    <3>2. CASE i > p
      <4>1. i - p \in 1 .. (Len(s) - p) /\ p + (i - p) = i
          BY <3>2
      <4>2. b[i - p] = s[i]
          BY <1>2, <4>1
      <4>3. c[i] = b[i - Len(a)]
          BY <1>1, <1>2, <2>1, <3>2
      <4> QED BY <1>1, <4>2, <4>3
    <3> QED BY <3>1, <3>2
  <2>4. s = [i \in 1 .. Len(s) |-> s[i]] /\ c = [i \in 1 .. Len(c) |-> c[i]]
      OBVIOUS
  <2>5. s = c
      BY <2>2, <2>3, <2>4
  <2> QED BY <2>1, <2>5
<1>4. Weight(s) = Weight(a) + Weight(b)
    BY <1>1, <1>2, <1>3, WeightCat
<1>5. ASSUME Distinct(s) PROVE Distinct(b)
  <2> SUFFICES ASSUME NEW i \in 1 .. Len(b), NEW j \in 1 .. Len(b), b[i].key = b[j].key PROVE i = j
      BY DEF Distinct
  <2>1. p + i \in 1 .. Len(s) /\ p + j \in 1 .. Len(s) /\ s[p + i].key = s[p + j].key
      BY <1>2
  <2>2. p + i = p + j
      BY <1>5, <2>1 DEF Distinct
  <2> QED BY <1>2, <2>2
<1>6. First(s, p) = a /\ Rest(s, p) = b
    BY <1>0 DEF First, Rest
<1> QED BY <1>1, <1>2, <1>4, <1>5, <1>6

\* What is left when the least recently used entry goes.
LEMMA TailLess ==
    ASSUME NEW s \in Seq(Entries), Len(s) > 0
    PROVE  /\ Tail(s) \in Seq(Entries) /\ Len(Tail(s)) = Len(s) - 1
           /\ Weight(Tail(s)) <= Weight(s)
           /\ \A i \in 1 .. Len(Tail(s)) : Tail(s)[i] = s[i + 1]
           /\ Distinct(s) => Distinct(Tail(s))
<1>1. 1 \in 0 .. Len(s) /\ Tail(s) = Rest(s, 1)
    BY DEF Rest
<1>2. PICK a : a = First(s, 1)
    OBVIOUS
<1>3. a \in Seq(Entries) /\ Tail(s) \in Seq(Entries) /\ Weight(s) = Weight(a) + Weight(Tail(s))
      /\ Len(Tail(s)) = Len(s) - 1 /\ (Distinct(s) => Distinct(Tail(s)))
    BY <1>1, <1>2, Cut
<1>4. Weight(a) \in Nat /\ Weight(Tail(s)) \in Nat
    BY <1>3, WeightNat
<1>5. \A i \in 1 .. Len(Tail(s)) : Tail(s)[i] = s[i + 1]
    OBVIOUS
<1>6. Weight(Tail(s)) <= Weight(s)
    BY <1>3, <1>4
<1> QED BY <1>3, <1>5, <1>6

\* An entry of a new key comes last.
LEMMA AppendDistinct ==
    ASSUME NEW s \in Seq(Entries), NEW e \in Entries, Distinct(s), \A i \in 1 .. Len(s) : s[i].key # e.key
    PROVE  Distinct(Append(s, e))
<1>1. PICK u : u = Append(s, e)
    OBVIOUS
<1>2. Len(s) \in Nat /\ Len(u) = Len(s) + 1 /\ u[Len(s) + 1] = e /\ \A i \in 1 .. Len(s) : u[i] = s[i]
    BY <1>1
<1>3. Distinct(u)
    BY <1>2 DEF Distinct
<1> QED BY <1>1, <1>3

\* QueryCache::put pops until the answer fits, or there is nothing left to pop.
LEMMA PoppedFits ==
    ASSUME CacheInv, NEW n \in Nat
    PROVE  /\ Popped(n) \in 0 .. Len(lru)
           /\ bytes - Weight(SubSeq(lru, 1, Popped(n))) + n <= MaxBytes \/ Popped(n) = Len(lru)
<1> DEFINE Left(i) == bytes - Weight(SubSeq(lru, 1, i)) + n
           S == {i \in 0 .. Len(lru) : Left(i) <= MaxBytes \/ i = Len(lru)}
<1>1. lru \in Seq(Entries) /\ Len(lru) \in Nat /\ bytes \in Nat
    BY WeightNat DEF CacheInv
<1>2. ASSUME NEW i \in 0 .. Len(lru) PROVE Left(i) \in Int
  <2>1. SubSeq(lru, 1, i) \in Seq(Entries)
      BY <1>1
  <2>2. Weight(SubSeq(lru, 1, i)) \in Nat
      BY <2>1, WeightNat
  <2> QED BY <1>1, <2>2
<1>3. Popped(n) = CHOOSE i \in 0 .. Len(lru) : /\ Left(i) <= MaxBytes \/ i = Len(lru)
                                               /\ \A j \in 0 .. (i - 1) : Left(j) > MaxBytes
    BY DEF Popped
<1> HIDE DEF Left
<1>4. PICK x \in S : \A y \in S : x <= y
  <2>1. S \subseteq Nat /\ Len(lru) \in S
      BY <1>1
  <2> HIDE DEF S
  <2> QED BY <2>1, Least
<1>5. ASSUME NEW j \in 0 .. (x - 1) PROVE Left(j) > MaxBytes
  <2>1. j \in 0 .. Len(lru) /\ ~(x <= j)
      BY <1>1
  <2>2. ~(Left(j) <= MaxBytes)
      BY <1>4, <2>1
  <2> QED BY <1>2, <2>1, <2>2, SizesAssumption
<1>6. x \in 0 .. Len(lru) /\ (Left(x) <= MaxBytes \/ x = Len(lru))
    OBVIOUS
<1>7. Popped(n) \in 0 .. Len(lru) /\ (Left(Popped(n)) <= MaxBytes \/ Popped(n) = Len(lru))
    BY <1>3, <1>5, <1>6
<1> QED BY <1>7 DEF Left

\* What QueryCache::put leaves: at most as many entries, and bytes, as there may be.
LEMMA PutKeeps ==
    ASSUME CacheInv, NEW k \in Keys, NEW total \in Nat, NEW rows, rows = Withheld(total, k), Put(k, rows, total)
    PROVE  CacheInv'
<1>1. rows \in Nat
    BY KAssumption DEF Withheld
<1>2. CASE rows > MaxBytes
    BY <1>2 DEF Put, CacheInv, cacheVars
<1>3. CASE ~(rows > MaxBytes)
  <2>1. PICK p \in 0 .. Len(lru) : p = Popped(rows) /\ (bytes - Weight(SubSeq(lru, 1, p)) + rows <= MaxBytes \/ p = Len(lru))
      BY <1>1, PoppedFits
  <2>0. PICK pre, left : pre = First(lru, p) /\ left = Rest(lru, p)
      OBVIOUS
  <2>2. pre = SubSeq(lru, 1, p) /\ left = SubSeq(lru, p + 1, Len(lru))
      BY <2>0 DEF First, Rest
  <2>3. pre \in Seq(Entries) /\ left \in Seq(Entries) /\ Weight(lru) = Weight(pre) + Weight(left)
        /\ Len(left) = Len(lru) - p /\ Distinct(left)
    <3>1. lru \in Seq(Entries) /\ Distinct(lru)
        BY DEF CacheInv
    <3> QED BY <2>0, <3>1, Cut
  <2>4. PICK same \in Seq(Entries) : same = Those(left, Keys \ {k}) /\ From(same, left, Keys \ {k})
      BY <2>3, ThoseType
  <2>5. Distinct(same)
      BY <2>3, <2>4, ThoseDistinct
  <2>6. Weight(same) <= Weight(left) /\ Len(same) <= Len(left)
    <3>1. PICK rest \in Seq(Entries) : rest = Those(left, {k})
        BY <2>3, ThoseType
    <3>2. Weight(rest) + Weight(same) = Weight(left) /\ Len(rest) + Len(same) = Len(left)
        BY <2>3, <2>4, <3>1, ThoseSplit
    <3>3. Weight(rest) \in Nat /\ Weight(same) \in Nat /\ Len(rest) \in Nat /\ Len(same) \in Nat
        BY WeightNat
    <3> QED BY <3>2, <3>3
  <2>7. PICK kept : kept = IF Len(same) = MaxEntries THEN Tail(same) ELSE same
      OBVIOUS
  <2>8. /\ kept \in Seq(Entries) /\ Weight(kept) <= Weight(same) /\ Len(kept) < MaxEntries /\ Distinct(kept)
        /\ \A i \in 1 .. Len(kept) : kept[i].key # k
    <3>1. Len(lru) \in Nat /\ Len(same) \in Nat /\ Len(same) <= MaxEntries
      <4>1. Len(lru) \in Nat /\ Len(lru) <= MaxEntries
          BY DEF CacheInv
      <4>2. Len(same) \in Nat /\ Len(left) \in Nat
          BY <2>3
      <4> QED BY <2>3, <2>6, <4>1, <4>2, SizesAssumption
    <3>2. Weight(same) \in Nat
        BY WeightNat
    <3>3. \A i \in 1 .. Len(same) : same[i].key # k
        BY <2>4 DEF From
    <3>4. CASE Len(same) = MaxEntries
      <4>1. Len(same) > 0
          BY <3>4, SizesAssumption
      <4>2. /\ kept \in Seq(Entries) /\ Len(kept) = Len(same) - 1 /\ Weight(kept) <= Weight(same)
            /\ \A i \in 1 .. Len(kept) : kept[i] = same[i + 1]
            /\ Distinct(kept)
          BY <2>5, <2>7, <3>4, <4>1, TailLess
      <4>3. ASSUME NEW i \in 1 .. Len(kept) PROVE kept[i].key # k
        <5>1. i + 1 \in 1 .. Len(same) /\ kept[i] = same[i + 1]
            BY <3>1, <4>2
        <5> QED BY <3>3, <5>1
      <4> QED BY <3>1, <3>4, <4>2, <4>3
    <3>5. CASE Len(same) # MaxEntries
      <4>1. kept = same /\ Weight(same) <= Weight(same) /\ Len(same) < MaxEntries
          BY <2>7, <3>1, <3>2, <3>5, SizesAssumption
      <4> QED BY <2>5, <3>3, <4>1
    <3> QED BY <3>4, <3>5
  <2>9. PICK e : e = [key |-> k, rows |-> rows, total |-> total, bytes |-> rows, age |-> 0, old |-> 0]
      OBVIOUS
  <2>10. e \in Entries /\ e.key = k /\ e.bytes = rows
      BY <1>1, <2>9, SizesAssumption DEF Entries
  <2>11. lru' = Append(kept, e) /\ bytes' = bytes - Weight(pre) - (Weight(left) - Weight(kept)) + rows
      BY <1>3, <2>1, <2>2, <2>4, <2>7, <2>9 DEF Put
  <2>12. Append(kept, e) \in Seq(Entries) /\ Len(Append(kept, e)) = Len(kept) + 1
      BY <2>8, <2>10
  <2>13. Weight(Append(kept, e)) = Weight(kept) + rows
      BY <2>8, <2>10, WeightAppend
  <2>14. Weight(pre) \in Nat /\ Weight(left) \in Nat /\ Weight(kept) \in Nat /\ Weight(same) \in Nat
      BY <2>3, <2>4, <2>8, WeightNat
  <2>15. bytes = Weight(pre) + Weight(left)
      BY <2>3 DEF CacheInv
  <2>16. bytes' = Weight(lru')
      BY <1>1, <2>11, <2>13, <2>14, <2>15, SMTT(30)
  <2>17. bytes' <= MaxBytes
    <3>1. Weight(left) + rows <= MaxBytes
      <4>1. CASE bytes - Weight(SubSeq(lru, 1, p)) + rows <= MaxBytes
          BY <1>1, <2>2, <2>14, <2>15, <4>1, SizesAssumption
      <4>2. CASE p = Len(lru)
        <5>1. Len(left) = 0
            BY <2>3, <4>2
        <5>2. left = <<>>
            BY <2>3, <5>1
        <5>3. Weight(left) = 0
            BY <5>2, WeightAppend
        <5> QED BY <1>1, <1>3, <5>3, SizesAssumption
      <4> QED BY <2>1, <4>1, <4>2
    <3>2. bytes' = Weight(kept) + rows
        BY <1>1, <2>11, <2>14, <2>15, SMTT(30)
    <3>3. Weight(kept) <= Weight(same) /\ Weight(same) <= Weight(left)
        BY <2>6, <2>8
    <3> QED BY <1>1, <2>14, <3>1, <3>2, <3>3, SizesAssumption
  <2>18. Distinct(Append(kept, e))
      BY <2>8, <2>10, AppendDistinct
  <2>19. Len(lru') <= MaxEntries
    <3>1. Len(kept) \in Nat
        BY <2>8
    <3> QED BY <2>8, <2>11, <2>12, <3>1, SizesAssumption
  <2> QED BY <2>11, <2>12, <2>16, <2>17, <2>18, <2>19 DEF CacheInv
<1> QED BY <1>2, <1>3

\* The entry of a key is one of the cache's.
LEMMA EntryOf ==
    ASSUME CacheInv, NEW k, NEW e \in Entry(k)
    PROVE  \E i \in 1 .. Len(lru) : e = lru[i] /\ e.key = k /\ e \in Entries
<1>1. lru \in Seq(Entries) /\ DOMAIN lru = 1 .. Len(lru)
    BY DEF CacheInv
<1>2. PICK i \in 1 .. Len(lru) : e = lru[i] /\ lru[i].key = k
    BY <1>1 DEF Entry
<1> QED BY <1>1, <1>2

\* Some keys' entries go, and their bytes with them.
LEMMA WithoutKeeps ==
    ASSUME CacheInv, NEW S, lru' = Without(S), bytes' = bytes - Weight(Those(lru, S))
    PROVE  CacheInv'
<1>1. lru \in Seq(Entries) /\ Distinct(lru) /\ bytes = Weight(lru) /\ bytes <= MaxBytes /\ Len(lru) <= MaxEntries
    BY DEF CacheInv
<1>2. PICK go \in Seq(Entries), stay \in Seq(Entries) : go = Those(lru, S) /\ stay = Those(lru, Keys \ S)
    BY <1>1, ThoseType
<1>3. Distinct(stay)
    BY <1>1, <1>2, ThoseDistinct
<1>4. Weight(go) + Weight(stay) = Weight(lru) /\ Len(go) + Len(stay) = Len(lru)
    BY <1>1, <1>2, ThoseSplit
<1>5. Weight(go) \in Nat /\ Weight(stay) \in Nat /\ Len(go) \in Nat /\ Len(stay) \in Nat
    BY WeightNat
<1>6. lru' = stay /\ bytes' = bytes - Weight(go)
    BY <1>2 DEF Without
<1>7. bytes' = Weight(stay) /\ bytes' <= MaxBytes
    BY <1>1, <1>4, <1>5, <1>6, SizesAssumption
<1>8. Len(stay) <= MaxEntries
    BY <1>1, <1>4, <1>5, SizesAssumption
<1> QED BY <1>3, <1>6, <1>7, <1>8 DEF CacheInv

\* QueryCache::get drops an entry or makes it the most recently used.
LEMMA GetKeeps ==
    ASSUME CacheInv, NEW k \in Keys, Get(k)
    PROVE  CacheInv'
<1>1. PICK live : live = {e \in Entry(k) : e.age <= Ttl}
    OBVIOUS
<1>2. CASE live = {}
  <2>1. lru' = Without({k}) /\ bytes' = bytes - Weight(Those(lru, {k}))
      BY <1>1, <1>2 DEF Get
  <2> QED BY <2>1, WithoutKeeps
<1>3. CASE live # {}
  <2>1. PICK e \in live : e = CHOOSE x \in live : TRUE
      BY <1>3
  <2>2. PICK i \in 1 .. Len(lru) : e = lru[i] /\ e.key = k /\ e \in Entries
      BY <1>1, EntryOf
  <2>3. lru \in Seq(Entries) /\ Distinct(lru) /\ bytes = Weight(lru) /\ bytes <= MaxBytes /\ Len(lru) <= MaxEntries
      BY DEF CacheInv
  <2>4. PICK rest \in Seq(Entries) : rest = Those(lru, Keys \ {k}) /\ From(rest, lru, Keys \ {k})
      BY <2>3, ThoseType
  <2>5. lru' = Append(rest, e) /\ bytes' = bytes
      BY <1>1, <1>3, <2>1, <2>4 DEF Get, Without
  <2>6. Those(lru, {k}) = <<e>>
      BY <2>2, <2>3, ThoseOne
  <2>7. Weight(<<e>>) = e.bytes /\ Len(<<e>>) = 1
    <3>1. <<e>> = Append(<<>>, e) /\ <<>> \in Seq(Entries)
        OBVIOUS
    <3>2. Weight(Append(<<>>, e)) = 0 + e.bytes /\ e.bytes \in Nat
        BY <2>2, <3>1, WeightAppend DEF Entries
    <3> QED BY <3>1, <3>2
  <2>8. e.bytes + Weight(rest) = Weight(lru) /\ 1 + Len(rest) = Len(lru)
    <3>1. PICK one \in Seq(Entries) : one = Those(lru, {k})
        BY <2>3, ThoseType
    <3>2. Weight(one) + Weight(rest) = Weight(lru) /\ Len(one) + Len(rest) = Len(lru)
        BY <2>3, <2>4, <3>1, ThoseSplit
    <3>3. Weight(one) = e.bytes /\ Len(one) = 1
        BY <2>6, <2>7, <3>1
    <3> QED BY <3>2, <3>3
  <2>9. Weight(rest) \in Nat /\ e.bytes \in Nat /\ Len(rest) \in Nat
      BY <2>2, WeightNat DEF Entries
  <2>10. Append(rest, e) \in Seq(Entries) /\ Len(Append(rest, e)) = Len(rest) + 1
      BY <2>2
  <2>11. Weight(Append(rest, e)) = Weight(rest) + e.bytes
      BY <2>2, WeightAppend
  <2>12. Weight(Append(rest, e)) = bytes /\ Len(Append(rest, e)) = Len(lru)
      BY <2>3, <2>8, <2>9, <2>10, <2>11
  <2>13. Distinct(Append(rest, e))
    <3>1. Distinct(rest)
        BY <2>3, <2>4, ThoseDistinct
    <3>2. \A n \in 1 .. Len(rest) : rest[n].key # e.key
        BY <2>2, <2>4 DEF From
    <3> QED BY <2>2, <3>1, <3>2, AppendDistinct
  <2> QED BY <2>3, <2>5, <2>10, <2>12, <2>13 DEF CacheInv
<1> QED BY <1>2, <1>3

\* Time passes for every entry, and changes nothing else.
LEMMA TickKeeps ==
    ASSUME CacheInv, Tick
    PROVE  CacheInv'
<1>1. lru \in Seq(Entries) /\ Len(lru) \in Nat /\ DOMAIN lru = 1 .. Len(lru) /\ Distinct(lru)
      /\ bytes = Weight(lru) /\ bytes <= MaxBytes /\ Len(lru) <= MaxEntries
    BY DEF CacheInv
<1> DEFINE Aged(e) == [e EXCEPT !.age = Older(e.age), !.old = Older(e.old)]
<1>2. ASSUME NEW e \in Entries
      PROVE  Aged(e) \in Entries /\ Aged(e).key = e.key /\ Aged(e).bytes = e.bytes
  <2>1. e.age \in 0 .. (Ttl + 1) /\ e.old = e.age
      BY DEF Entries
  <2>2. PICK n \in 0 .. (Ttl + 1) : n = Older(e.age)
      BY <2>1, SizesAssumption DEF Older
  <2>3. Aged(e) = [e EXCEPT !.age = n, !.old = n]
      BY <2>1, <2>2
  <2>4. [e EXCEPT !.age = n, !.old = n] \in Entries
      BY DEF Entries
  <2>5. [e EXCEPT !.age = n, !.old = n].key = e.key /\ [e EXCEPT !.age = n, !.old = n].bytes = e.bytes
      BY DEF Entries
  <2> QED BY <2>3, <2>4, <2>5
<1>3. lru' = [i \in 1 .. Len(lru) |-> Aged(lru[i])] /\ bytes' = bytes
    BY <1>1 DEF Tick
<1> HIDE DEF Aged
<1>4. PICK s : s = [i \in 1 .. Len(lru) |-> Aged(lru[i])]
    OBVIOUS
<1>5. s \in Seq(Entries) /\ Len(s) = Len(lru) /\ \A i \in 1 .. Len(lru) : s[i] = Aged(lru[i])
    BY <1>1, <1>2, <1>4
<1>6. \A i \in 1 .. Len(lru) : s[i].key = lru[i].key /\ s[i].bytes = lru[i].bytes
    BY <1>1, <1>2, <1>5
<1>7. Distinct(s)
    BY <1>1, <1>5, <1>6 DEF Distinct
<1>8. Weight(lru) = Weight(s)
  <2>1. Alike(lru, s, Len(lru))
      BY <1>6 DEF Alike
  <2> QED BY <1>1, <1>5, <2>1, WeightSame
<1> QED BY <1>1, <1>3, <1>4, <1>5, <1>7, <1>8 DEF CacheInv

(***************************************************************************)
(* The queries                                                             *)
(***************************************************************************)
\* Query q, whose job is j, whose connection to the signer is c and who has seen n rows,
\* when s says whether the engine signs.
JobOK(q, s, j, c, n) ==
    /\ j \in Jobs /\ n \in Nat /\ j.age <= Ttl
    /\ j.at = "idle" => n = 0
    /\ j.at # "idle" => j.mode \in Modes /\ j.key \in Keys /\ j.out = Withheld(j.total, j.key)
    /\ j.at = "execute" => j.out + j.held = j.total /\ n = IF j.mode = "plan" THEN j.out ELSE 0
    /\ j.at \in {"signing", "ready", "stream"} => j.mode # "plan"
    /\ j.at \in {"signing", "ready"} => n = 0
    /\ IF j.at = "signing"
       THEN /\ s
            /\ \E a \in {None, Refusal, Envelope(q, j)} : c = [asked |-> Envelope(q, j), answer |-> a]
       ELSE c = None
    /\ j.at \in {"ready", "stream", "over"} => n <= j.out /\ (s /\ j.mode # "plan" => j.sig = Envelope(q, j))

QueriesInv ==
    /\ signer \in BOOLEAN
    /\ job \in [Queries -> Jobs] /\ seen \in [Queries -> Nat] /\ conn \in [Queries -> Connections \cup {None}]
    /\ \A q \in Queries : JobOK(q, signer, job[q], conn[q], seen[q])

Inv == CacheInv /\ QueriesInv

\* A step that concerns one query leaves the others as they are.
LEMMA OneQuery ==
    ASSUME QueriesInv, NEW q \in Queries, NEW j, NEW c, NEW n, JobOK(q, signer, j, c, n),
           signer' = signer, job' = [job EXCEPT ![q] = j], conn' = [conn EXCEPT ![q] = c],
           seen' = [seen EXCEPT ![q] = n]
    PROVE  QueriesInv'
<1>1. j \in Jobs /\ n \in Nat
    BY DEF JobOK
<1>2. c \in Connections \cup {None}
  <2>1. CASE j.at = "signing"
    <3>1. PICK a \in {None, Refusal, Envelope(q, j)} : c = [asked |-> Envelope(q, j), answer |-> a]
        BY <2>1 DEF JobOK
    <3>2. Envelope(q, j) \in Envelopes /\ Refusal \in Envelopes
        BY <1>1 DEF Jobs, Envelope, Envelopes, Refusal
    <3> QED BY <3>1, <3>2 DEF Connections
  <2>2. CASE j.at # "signing"
      BY <2>2 DEF JobOK
  <2> QED BY <2>1, <2>2
<1>3. signer' \in BOOLEAN /\ job' \in [Queries -> Jobs] /\ seen' \in [Queries -> Nat]
      /\ conn' \in [Queries -> Connections \cup {None}]
    BY <1>1, <1>2 DEF QueriesInv
<1>4. ASSUME NEW r \in Queries PROVE JobOK(r, signer', job'[r], conn'[r], seen'[r])
  <2>1. CASE r = q
    <3>1. job'[r] = j /\ conn'[r] = c /\ seen'[r] = n
        BY <2>1 DEF QueriesInv
    <3> QED BY <2>1, <3>1
  <2>2. CASE r # q
    <3>1. job'[r] = job[r] /\ conn'[r] = conn[r] /\ seen'[r] = seen[r]
        BY <2>2 DEF QueriesInv
    <3> QED BY <3>1 DEF QueriesInv
  <2> QED BY <2>1, <2>2
<1> QED BY <1>3, <1>4 DEF QueriesInv

\* A function is itself where one of its values is given anew.
LEMMA Same ==
    ASSUME NEW S, NEW V, NEW f \in [S -> V], NEW x \in S
    PROVE  f = [f EXCEPT ![x] = f[x]]
OBVIOUS

\* A query nobody has asked, or whose call is over (Ends).
LEMMA NoJobOK ==
    ASSUME NEW q \in Queries, NEW s
    PROVE  JobOK(q, s, NoJob, None, 0)
BY SizesAssumption DEF JobOK, NoJob, Jobs, Stages

\* The query that begins to be executed.
LEMMA BeginOK ==
    ASSUME NEW q \in Queries, NEW s, NEW k \in Keys, NEW m \in Modes
    PROVE  JobOK(q, s, [NoJob EXCEPT !.at = "execute", !.mode = m, !.key = k], None, 0)
<1>1. PICK j : j = [NoJob EXCEPT !.at = "execute", !.mode = m, !.key = k]
    OBVIOUS
<1>2. NoJob \in Jobs
    BY DEF NoJob, Jobs, Stages
<1>3. j \in Jobs
    BY <1>1, <1>2 DEF Jobs, Stages
<1>4. NoJob.total = 0 /\ NoJob.out = 0 /\ NoJob.held = 0 /\ NoJob.age = 0
    BY DEF NoJob
<1>5. j.at = "execute" /\ j.mode = m /\ j.key = k /\ j.total = 0 /\ j.out = 0 /\ j.held = 0 /\ j.age = 0
    BY <1>1, <1>2, <1>4 DEF Jobs
<1>6. JobOK(q, s, j, None, 0)
    BY <1>3, <1>5, SizesAssumption, KAssumption DEF JobOK, Withheld
<1> QED BY <1>1, <1>6

\* An answer that is about to be signed, or needs not be.
Unsigned(j) ==
    /\ j \in Jobs /\ j.age <= Ttl /\ j.mode \in Modes \ {"plan"} /\ j.key \in Keys
    /\ j.out = Withheld(j.total, j.key)

\* What Engine::sign leaves of an answer: it waits on its connection, or is ready.
LEMMA SignOK ==
    ASSUME NEW q \in Queries, NEW s \in BOOLEAN, NEW j, Unsigned(j)
    PROVE  JobOK(q, s, [j EXCEPT !.at = IF s THEN "signing" ELSE "ready"],
                 IF s THEN [asked |-> Envelope(q, j), answer |-> None] ELSE None, 0)
<1>1. PICK a \in Stages : a = IF s THEN "signing" ELSE "ready"
    BY DEF Stages
<1>2. PICK r \in Jobs : r = [j EXCEPT !.at = a]
    BY DEF Unsigned, Jobs
<1>3. r.at = a /\ r.mode = j.mode /\ r.key = j.key /\ r.total = j.total /\ r.out = j.out /\ r.age = j.age
    BY <1>2 DEF Unsigned, Jobs
<1>4. Envelope(q, r) = Envelope(q, j)
    BY <1>3 DEF Envelope
<1>5. CASE s
  <2>1. r.at = "signing"
      BY <1>1, <1>3, <1>5
  <2>2. JobOK(q, s, r, [asked |-> Envelope(q, j), answer |-> None], 0)
      BY <1>3, <1>4, <1>5, <2>1 DEF JobOK, Unsigned
  <2> QED BY <1>1, <1>2, <1>5, <2>2
<1>6. CASE ~s
  <2>1. r.at = "ready"
      BY <1>1, <1>3, <1>6
  <2>2. 0 <= r.out /\ r.mode # "plan"
      BY <1>3 DEF Unsigned, Jobs
  <2>3. JobOK(q, s, r, None, 0)
      BY <1>3, <1>6, <2>1, <2>2 DEF JobOK, Unsigned
  <2> QED BY <1>1, <1>2, <1>6, <2>3
<1> QED BY <1>5, <1>6

\* Whatever its size, and wherever it falls about the threshold, a batch leaves out the
\* rows of a result that is large enough and none of one that is not.
LEMMA BatchOK ==
    ASSUME NEW q \in Queries, NEW s, NEW j, NEW c, NEW n, NEW m \in Nat, JobOK(q, s, j, c, n), j.at = "execute",
           NEW free, free = IF Released(j, m) THEN j.held + m ELSE 0
    PROVE  JobOK(q, s, [j EXCEPT !.total = @ + m, !.out = @ + free, !.held = @ + m - free], c,
                 IF j.mode = "plan" THEN n + free ELSE n)
<1>1. j \in Jobs /\ n \in Nat /\ j.age <= Ttl /\ j.mode \in Modes /\ j.key \in Keys
      /\ j.out = Withheld(j.total, j.key) /\ j.out + j.held = j.total /\ c = None
      /\ n = IF j.mode = "plan" THEN j.out ELSE 0
    BY DEF JobOK
<1>2. j.total \in Nat /\ j.out \in Nat /\ j.held \in Nat /\ K[j.key] \in Nat
    BY <1>1, KAssumption DEF Jobs
<1>3. free \in Nat /\ j.held + m - free \in Nat /\ (j.out + free) + (j.held + m - free) = j.total + m
    BY <1>1, <1>2
<1>4. j.out + free = Withheld(j.total + m, j.key)
    BY <1>1, <1>2 DEF Withheld, Released
<1>5. PICK r : r = [j EXCEPT !.total = j.total + m, !.out = j.out + free, !.held = j.held + m - free]
    OBVIOUS
<1>6. r \in Jobs
  <2>1. PICK a \in Nat, b \in Nat, d \in Nat : a = j.total + m /\ b = j.out + free /\ d = j.held + m - free
      BY <1>2, <1>3
  <2>2. r = [j EXCEPT !.total = a, !.out = b, !.held = d]
      BY <1>5, <2>1
  <2> QED BY <1>1, <2>2 DEF Jobs
<1>7. r.at = "execute" /\ r.mode = j.mode /\ r.key = j.key /\ r.age = j.age /\ r.total = j.total + m
      /\ r.out = j.out + free /\ r.held = j.held + m - free
    BY <1>1, <1>5 DEF Jobs
<1>8. PICK i \in Nat : i = IF j.mode = "plan" THEN n + free ELSE n
    BY <1>1, <1>3
<1>9. i = IF r.mode = "plan" THEN r.out ELSE 0
    BY <1>1, <1>7, <1>8
<1>10. JobOK(q, s, r, c, i)
    BY <1>1, <1>3, <1>4, <1>6, <1>7, <1>9 DEF JobOK
<1> QED BY <1>5, <1>8, <1>10

\* Engine::sign of an answer, whether the engine signs or not.
LEMMA SignStep ==
    ASSUME QueriesInv, NEW q \in Queries, NEW j, Unsigned(j), conn[q] = None, seen[q] = 0, Sign(q, j), seen' = seen
    PROVE  QueriesInv'
<1>1. PICK c : c = IF signer THEN [asked |-> Envelope(q, j), answer |-> None] ELSE None
    OBVIOUS
<1>2. PICK r : r = [j EXCEPT !.at = IF signer THEN "signing" ELSE "ready"]
    OBVIOUS
<1>3. JobOK(q, signer, r, c, 0)
  <2>1. signer \in BOOLEAN
      BY DEF QueriesInv
  <2> QED BY <1>1, <1>2, <2>1, SignOK
<1>4. signer' = signer /\ job' = [job EXCEPT ![q] = r]
    BY <1>2 DEF Sign, Becomes
<1>5. conn' = [conn EXCEPT ![q] = c]
  <2>1. conn \in [Queries -> Connections \cup {None}]
      BY DEF QueriesInv
  <2>2. conn = [conn EXCEPT ![q] = None]
      BY <2>1
  <2> QED BY <1>1, <2>2 DEF Sign
<1>6. seen' = [seen EXCEPT ![q] = 0]
    BY DEF QueriesInv
<1> QED BY <1>3, <1>4, <1>5, <1>6, OneQuery

\* Engine::run before the plan is executed, and QueryCache::get.
LEMMA AskStep ==
    ASSUME Inv, NEW q \in Queries, NEW k \in Keys, NEW m \in Modes, Ask(q, k, m)
    PROVE  Inv'
<1>1. CacheInv /\ QueriesInv
    BY DEF Inv
<1>2. CacheInv'
  <2>1. CASE m = "collect"
    <3>1. Get(k)
        BY <2>1 DEF Ask
    <3> QED BY <1>1, <3>1, GetKeeps
  <2>2. CASE m # "collect"
    <3>1. lru' = lru /\ bytes' = bytes
        BY <2>2 DEF Ask, cacheVars
    <3> QED BY <1>1, <3>1 DEF CacheInv
  <2> QED BY <2>1, <2>2
<1>3. conn[q] = None /\ seen[q] = 0 /\ seen' = seen
  <2>1. JobOK(q, signer, NoJob, conn[q], seen[q]) /\ seen' = seen
      BY <1>1 DEF QueriesInv, Ask
  <2> QED BY <2>1 DEF JobOK, NoJob
<1>4. QueriesInv'
  <2>1. PICK j : j = [NoJob EXCEPT !.at = "execute", !.mode = m, !.key = k]
      OBVIOUS
  <2>2. JobOK(q, signer, j, None, 0)
      BY <2>1, BeginOK
  <2>3. CASE Becomes(q, j) /\ UNCHANGED conn
    <3>1. conn' = [conn EXCEPT ![q] = None] /\ seen' = [seen EXCEPT ![q] = 0]
        BY <1>1, <1>3, <2>3 DEF QueriesInv
    <3>2. signer' = signer /\ job' = [job EXCEPT ![q] = j]
        BY <2>3 DEF Becomes
    <3> QED BY <1>1, <2>2, <3>1, <3>2, OneQuery
  <2>4. ASSUME m = "collect",
               \E e \in {e \in Entry(k) : e.age <= Ttl} :
                  Sign(q, [j EXCEPT !.total = e.total, !.out = e.rows, !.age = e.old])
        PROVE  QueriesInv'
    <3>1. PICK e \in Entry(k) : e.age <= Ttl /\ Sign(q, [j EXCEPT !.total = e.total, !.out = e.rows, !.age = e.old])
        BY <2>4
    <3>2. e \in Entries /\ e.key = k
        BY <1>1, EntryOf
    <3>3. /\ e.total \in Nat /\ e.rows \in Nat /\ e.old \in Nat /\ e.old <= Ttl
          /\ e.rows = Withheld(e.total, k)
        BY <3>1, <3>2, SizesAssumption DEF Entries
    <3>4. PICK r : r = [j EXCEPT !.total = e.total, !.out = e.rows, !.age = e.old]
        OBVIOUS
    <3>5. j \in Jobs /\ j.mode = m /\ j.key = k
      <4>1. NoJob \in Jobs
          BY DEF NoJob, Jobs, Stages
      <4>2. j.mode = m /\ j.key = k
          BY <2>1, <4>1 DEF Jobs
      <4> QED BY <2>2, <4>2 DEF JobOK
    <3>6. r \in Jobs
        BY <3>3, <3>4, <3>5 DEF Jobs
    <3>7. r.total = e.total /\ r.out = e.rows /\ r.age = e.old /\ r.mode = m /\ r.key = k
        BY <3>4, <3>5 DEF Jobs
    <3>8. Unsigned(r)
        BY <2>4, <3>3, <3>6, <3>7 DEF Unsigned, Modes
    <3> QED BY <1>1, <1>3, <3>1, <3>4, <3>8, SignStep
  <2> QED BY <2>1, <2>3, <2>4 DEF Ask
<1> QED BY <1>2, <1>4 DEF Inv

\* SuppressExec and what it lets through.
LEMMA BatchStep ==
    ASSUME Inv, NEW q \in Queries, NEW m \in 0 .. MaxBatch, Batch(q, m)
    PROVE  Inv'
<1>1. CacheInv /\ QueriesInv /\ m \in Nat
    BY SizesAssumption DEF Inv
<1>2. PICK j : j = job[q]
    OBVIOUS
<1>3. PICK free : free = IF Released(j, m) THEN j.held + m ELSE 0
    OBVIOUS
<1>4. PICK r, n : /\ r = [j EXCEPT !.total = @ + m, !.out = @ + free, !.held = @ + m - free]
                  /\ n = IF j.mode = "plan" THEN seen[q] + free ELSE seen[q]
    OBVIOUS
<1>5. JobOK(q, signer, r, conn[q], n)
  <2>1. JobOK(q, signer, j, conn[q], seen[q]) /\ j.at = "execute"
      BY <1>1, <1>2 DEF QueriesInv, Batch
  <2> QED BY <1>1, <1>3, <1>4, <2>1, BatchOK
<1>6. signer' = signer /\ job' = [job EXCEPT ![q] = r] /\ seen' = [seen EXCEPT ![q] = n]
    BY <1>2, <1>3, <1>4 DEF Batch, Becomes
<1>7. conn' = [conn EXCEPT ![q] = conn[q]]
    BY <1>1 DEF QueriesInv, Batch
<1>8. QueriesInv'
    BY <1>1, <1>5, <1>6, <1>7, OneQuery
<1>9. CacheInv'
    BY <1>1 DEF Batch, cacheVars, CacheInv
<1> QED BY <1>8, <1>9 DEF Inv

\* The input ends: QueryCache::put, and Engine::sign.
LEMMA EndStep ==
    ASSUME Inv, NEW q \in Queries, End(q)
    PROVE  Inv'
<1>1. CacheInv /\ QueriesInv
    BY DEF Inv
<1>2. PICK i : i = job[q]
    OBVIOUS
<1>3. JobOK(q, signer, i, conn[q], seen[q]) /\ i.at = "execute"
    BY <1>1, <1>2 DEF QueriesInv, End
<1>4. /\ i \in Jobs /\ i.age <= Ttl /\ i.mode \in Modes /\ i.key \in Keys /\ i.out = Withheld(i.total, i.key)
      /\ conn[q] = None /\ seen[q] = IF i.mode = "plan" THEN i.out ELSE 0
    BY <1>3 DEF JobOK
<1>5. PICK j : j = [i EXCEPT !.held = 0]
    OBVIOUS
<1>6. /\ j \in Jobs /\ j.age = i.age /\ j.mode = i.mode /\ j.key = i.key /\ j.out = i.out /\ j.total = i.total
    BY <1>4, <1>5 DEF Jobs
<1>7. /\ IF j.mode = "collect" THEN Put(j.key, j.out, j.total) ELSE UNCHANGED cacheVars
      /\ (j.mode # "plan" /\ Sign(q, j)) \/ (j.mode = "plan" /\ Becomes(q, [j EXCEPT !.at = "over"]) /\ UNCHANGED conn)
      /\ seen' = seen
    BY <1>2, <1>5 DEF End
<1>8. CacheInv'
  <2>1. CASE j.mode = "collect"
    <3>1. j.total \in Nat
        BY <1>6 DEF Jobs
    <3> QED BY <1>1, <1>4, <1>6, <1>7, <2>1, <3>1, PutKeeps
  <2>2. CASE j.mode # "collect"
    <3>1. lru' = lru /\ bytes' = bytes
        BY <1>7, <2>2 DEF cacheVars
    <3> QED BY <1>1, <3>1 DEF CacheInv
  <2> QED BY <2>1, <2>2
<1>9. QueriesInv'
  <2>1. CASE j.mode # "plan" /\ Sign(q, j)
    <3>1. Unsigned(j)
        BY <1>4, <1>6, <2>1 DEF Unsigned
    <3>2. seen[q] = 0
        BY <1>4, <1>6, <2>1
    <3> QED BY <1>1, <1>4, <1>7, <2>1, <3>1, <3>2, SignStep
  <2>2. CASE j.mode = "plan" /\ Becomes(q, [j EXCEPT !.at = "over"]) /\ UNCHANGED conn
    <3>1. PICK r : r = [j EXCEPT !.at = "over"]
        OBVIOUS
    <3>2. r \in Jobs
        BY <1>6, <3>1 DEF Jobs, Stages
    <3>3. r.at = "over" /\ r.age = j.age /\ r.mode = j.mode /\ r.key = j.key /\ r.out = j.out /\ r.total = j.total
        BY <1>6, <3>1 DEF Jobs
    <3>4. seen[q] \in Nat /\ seen[q] <= r.out
        BY <1>4, <1>6, <2>2, <3>3 DEF Jobs
    <3>5. JobOK(q, signer, r, None, seen[q])
        BY <1>4, <1>6, <2>2, <3>2, <3>3, <3>4 DEF JobOK
    <3>6. signer' = signer /\ job' = [job EXCEPT ![q] = r]
        BY <2>2, <3>1 DEF Becomes
    <3>7. conn' = [conn EXCEPT ![q] = None] /\ seen' = [seen EXCEPT ![q] = seen[q]]
        BY <1>1, <1>4, <1>7, <2>2 DEF QueriesInv
    <3> QED BY <1>1, <3>5, <3>6, <3>7, OneQuery
  <2> QED BY <1>7, <2>1, <2>2
<1> QED BY <1>8, <1>9 DEF Inv

\* SocketSigner::exchange, seen from the process that holds the key.
LEMMA AnswersStep ==
    ASSUME Inv, NEW q \in Queries, SignerAnswers(q)
    PROVE  Inv'
<1>1. CacheInv /\ QueriesInv
    BY DEF Inv
<1>2. PICK j, c : j = job[q] /\ c = conn[q]
    OBVIOUS
<1>3. JobOK(q, signer, j, c, seen[q]) /\ c # None
    BY <1>1, <1>2 DEF QueriesInv, SignerAnswers
<1>4. PICK b : c = [asked |-> Envelope(q, j), answer |-> b] /\ j.at = "signing" /\ signer
    BY <1>3 DEF JobOK
<1>5. PICK a \in {Envelope(q, j), Refusal} : conn' = [conn EXCEPT ![q].answer = a]
  <2>1. conn[q].asked = Envelope(q, j)
      BY <1>2, <1>4
  <2> QED BY <2>1 DEF SignerAnswers
<1>6. PICK d : d = [asked |-> Envelope(q, j), answer |-> a]
    OBVIOUS
<1>7. conn' = [conn EXCEPT ![q] = d]
  <2>1. [c EXCEPT !.answer = a] = d
      BY <1>4, <1>6
  <2> QED BY <1>1, <1>2, <1>5, <2>1 DEF QueriesInv
<1>8. JobOK(q, signer, j, d, seen[q])
    BY <1>3, <1>4, <1>6 DEF JobOK
<1>9. signer' = signer /\ job' = [job EXCEPT ![q] = j] /\ seen' = [seen EXCEPT ![q] = seen[q]]
    BY <1>1, <1>2 DEF QueriesInv, SignerAnswers
<1>10. QueriesInv'
    BY <1>1, <1>7, <1>8, <1>9, OneQuery
<1>11. CacheInv'
    BY <1>1 DEF SignerAnswers, cacheVars, CacheInv
<1> QED BY <1>10, <1>11 DEF Inv

\* The answer on the query's own connection becomes its certificate.
LEMMA SignedStep ==
    ASSUME Inv, NEW q \in Queries, Signed(q)
    PROVE  Inv'
<1>1. CacheInv /\ QueriesInv
    BY DEF Inv
<1>2. PICK j, c : j = job[q] /\ c = conn[q]
    OBVIOUS
<1>3. JobOK(q, signer, j, c, seen[q]) /\ j.at = "signing" /\ c.answer \notin {None, Refusal}
    BY <1>1, <1>2 DEF QueriesInv, Signed
<1>4. c.answer = Envelope(q, j)
    BY <1>3 DEF JobOK
<1>5. /\ j \in Jobs /\ j.age <= Ttl /\ j.mode \in Modes /\ j.mode # "plan" /\ j.key \in Keys
      /\ j.out = Withheld(j.total, j.key) /\ seen[q] = 0
    BY <1>3 DEF JobOK
<1>6. Envelope(q, j) \in Envelopes
    BY <1>5 DEF Jobs, Envelope, Envelopes
<1>7. PICK v \in Envelopes : v = Envelope(q, j)
    BY <1>6
<1>8. PICK r : r = [j EXCEPT !.at = "ready", !.sig = v]
    OBVIOUS
<1>9. r \in Jobs
    BY <1>5, <1>8 DEF Jobs, Stages
<1>10. /\ r.at = "ready" /\ r.sig = v /\ r.age = j.age /\ r.mode = j.mode /\ r.key = j.key /\ r.out = j.out
       /\ r.total = j.total
    BY <1>5, <1>8 DEF Jobs
<1>11. Envelope(q, r) = v /\ 0 <= r.out
    BY <1>5, <1>7, <1>10 DEF Envelope, Jobs
<1>12. JobOK(q, signer, r, None, 0)
    BY <1>5, <1>9, <1>10, <1>11 DEF JobOK
<1>13. signer' = signer /\ job' = [job EXCEPT ![q] = r] /\ conn' = [conn EXCEPT ![q] = None]
    BY <1>2, <1>4, <1>7, <1>8 DEF Signed, Becomes
<1>14. seen' = [seen EXCEPT ![q] = 0]
    BY <1>1, <1>5 DEF QueriesInv, Signed
<1>15. QueriesInv'
    BY <1>1, <1>12, <1>13, <1>14, OneQuery
<1>16. CacheInv'
    BY <1>1 DEF Signed, cacheVars, CacheInv
<1> QED BY <1>15, <1>16 DEF Inv

\* The call is over, wherever it was.
LEMMA EndsStep ==
    ASSUME Inv, NEW q \in Queries, Ends(q)
    PROVE  Inv'
<1>1. CacheInv /\ QueriesInv
    BY DEF Inv
<1>2. QueriesInv'
  <2>1. JobOK(q, signer, NoJob, None, 0)
      BY NoJobOK
  <2>2. signer' = signer /\ job' = [job EXCEPT ![q] = NoJob] /\ conn' = [conn EXCEPT ![q] = None]
        /\ seen' = [seen EXCEPT ![q] = 0]
      BY DEF Ends, Becomes
  <2> QED BY <1>1, <2>1, <2>2, OneQuery
<1>3. CacheInv'
    BY <1>1 DEF Ends, cacheVars, CacheInv
<1> QED BY <1>2, <1>3 DEF Inv

\* The caller gets a collected answer, or the stream of a spooled one begins.
LEMMA RecordStep ==
    ASSUME Inv, NEW q \in Queries, Record(q)
    PROVE  Inv'
<1>1. CacheInv /\ QueriesInv
    BY DEF Inv
<1>2. PICK j : j = job[q]
    OBVIOUS
<1>3. JobOK(q, signer, j, conn[q], seen[q]) /\ j.at = "ready"
    BY <1>1, <1>2 DEF QueriesInv, Record
<1>4. /\ j \in Jobs /\ j.age <= Ttl /\ j.mode \in Modes /\ j.mode # "plan" /\ j.key \in Keys
      /\ j.out = Withheld(j.total, j.key) /\ conn[q] = None /\ (signer => j.sig = Envelope(q, j))
    BY <1>3 DEF JobOK
<1>5. PICK a \in {"stream", "over"} : a = IF j.mode = "spool" THEN "stream" ELSE "over"
    OBVIOUS
<1>6. PICK n \in Nat : n = (IF j.mode = "spool" THEN 0 ELSE j.out) /\ n <= j.out
    BY <1>4 DEF Jobs
<1>7. PICK r : r = [j EXCEPT !.at = a]
    OBVIOUS
<1>8. r \in Jobs
    BY <1>4, <1>7 DEF Jobs, Stages
<1>9. /\ r.at = a /\ r.sig = j.sig /\ r.age = j.age /\ r.mode = j.mode /\ r.key = j.key /\ r.out = j.out
      /\ r.total = j.total
    BY <1>4, <1>7 DEF Jobs
<1>10. Envelope(q, r) = Envelope(q, j)
    BY <1>9 DEF Envelope
<1>11. JobOK(q, signer, r, None, n)
    BY <1>4, <1>6, <1>8, <1>9, <1>10 DEF JobOK
<1>12. signer' = signer /\ job' = [job EXCEPT ![q] = r] /\ seen' = [seen EXCEPT ![q] = n]
    BY <1>2, <1>5, <1>6, <1>7 DEF Record, Becomes
<1>13. conn' = [conn EXCEPT ![q] = None]
    BY <1>1, <1>4 DEF QueriesInv, Record
<1>14. QueriesInv'
    BY <1>1, <1>11, <1>12, <1>13, OneQuery
<1>15. CacheInv'
    BY <1>1 DEF Record, cacheVars, CacheInv
<1> QED BY <1>14, <1>15 DEF Inv

\* FlightSql::answer gives a part of what was signed.
LEMMA StreamStep ==
    ASSUME Inv, NEW q \in Queries, NEW m \in 0 .. MaxBatch, Stream(q, m)
    PROVE  Inv'
<1>1. CacheInv /\ QueriesInv /\ m \in Nat
    BY SizesAssumption DEF Inv
<1>2. PICK j : j = job[q]
    OBVIOUS
<1>3. JobOK(q, signer, j, conn[q], seen[q]) /\ j.at = "stream" /\ seen[q] + m <= j.out
    BY <1>1, <1>2 DEF QueriesInv, Stream
<1>4. /\ j \in Jobs /\ j.age <= Ttl /\ j.mode \in Modes /\ j.mode # "plan" /\ j.key \in Keys
      /\ j.out = Withheld(j.total, j.key) /\ conn[q] = None /\ (signer => j.sig = Envelope(q, j))
    BY <1>3 DEF JobOK
<1>5. PICK n \in Nat : n = seen[q] + m
    BY <1>1, <1>3 DEF JobOK
<1>6. PICK r : r = IF seen[q] + m = j.out THEN [j EXCEPT !.at = "over"] ELSE j
    OBVIOUS
<1>7. r \in Jobs
    BY <1>4, <1>6 DEF Jobs, Stages
<1>8. /\ r.at \in {"stream", "over"} /\ r.sig = j.sig /\ r.age = j.age /\ r.mode = j.mode /\ r.key = j.key
      /\ r.out = j.out /\ r.total = j.total
    BY <1>3, <1>4, <1>6 DEF Jobs
<1>9. Envelope(q, r) = Envelope(q, j)
    BY <1>8 DEF Envelope
<1>10. JobOK(q, signer, r, None, n)
    BY <1>3, <1>4, <1>5, <1>7, <1>8, <1>9 DEF JobOK
<1>11. signer' = signer /\ job' = [job EXCEPT ![q] = r] /\ seen' = [seen EXCEPT ![q] = n]
    BY <1>2, <1>5, <1>6 DEF Stream, Becomes
<1>12. conn' = [conn EXCEPT ![q] = None]
    BY <1>1, <1>4 DEF QueriesInv, Stream
<1>13. QueriesInv'
    BY <1>1, <1>10, <1>11, <1>12, OneQuery
<1>14. CacheInv'
    BY <1>1 DEF Stream, cacheVars, CacheInv
<1> QED BY <1>13, <1>14 DEF Inv

\* A step of the cache alone leaves the queries as they are.
LEMMA QueriesStay ==
    ASSUME QueriesInv, UNCHANGED <<signer, job, conn, seen>>
    PROVE  QueriesInv'
BY DEF QueriesInv

-----------------------------------------------------------------------------
\* The engine, its cache and its signer begin with nothing.
LEMMA InvInit == Init => Inv
<1> SUFFICES ASSUME Init PROVE Inv
    OBVIOUS
<1>1. CacheInv
  <2>1. lru = <<>> /\ bytes = 0
      BY DEF Init
  <2>2. <<>> \in Seq(Entries) /\ Len(<<>>) = 0 /\ Distinct(<<>>)
      BY DEF Distinct
  <2> QED BY <2>1, <2>2, WeightAppend, SizesAssumption DEF CacheInv
<1>2. QueriesInv
  <2>1. NoJob \in Jobs
      BY DEF NoJob, Jobs, Stages
  <2>2. ASSUME NEW q \in Queries PROVE JobOK(q, signer, job[q], conn[q], seen[q])
    <3>1. job[q] = NoJob /\ conn[q] = None /\ seen[q] = 0
        BY DEF Init
    <3> QED BY <3>1, NoJobOK
  <2>3. job \in [Queries -> Jobs] /\ seen \in [Queries -> Nat] /\ conn \in [Queries -> Connections \cup {None}]
        /\ signer \in BOOLEAN
      BY <2>1 DEF Init
  <2> QED BY <2>2, <2>3 DEF QueriesInv
<1> QED BY <1>1, <1>2 DEF Inv

\* Whatever query, cache, signer or clock takes a step.
LEMMA InvNext == Inv /\ [Next]_vars => Inv'
<1> SUFFICES ASSUME Inv, [Next]_vars PROVE Inv'
    OBVIOUS
<1>1. ASSUME NEW q \in Queries, NEW k \in Keys, NEW m \in Modes, Ask(q, k, m) PROVE Inv'
    BY <1>1, AskStep
<1>2. ASSUME NEW q \in Queries, Step(q) PROVE Inv'
  <2>1. CASE End(q)
      BY <2>1, EndStep
  <2>2. CASE Signed(q)
      BY <2>2, SignedStep
  <2>3. CASE NotSigned(q)
      BY <2>3, EndsStep DEF NotSigned
  <2>4. CASE Record(q)
      BY <2>4, RecordStep
  <2>5. ASSUME NEW n \in 0 .. MaxBatch, Batch(q, n) PROVE Inv'
      BY <2>5, BatchStep
  <2> QED BY <1>2, <2>1, <2>2, <2>3, <2>4, <2>5 DEF Step
<1>3. ASSUME NEW q \in Queries, SignerAnswers(q) PROVE Inv'
    BY <1>3, AnswersStep
<1>4. ASSUME NEW q \in Queries, Fails(q) \/ Leave(q) PROVE Inv'
    BY <1>4, EndsStep DEF Fails, Leave
<1>5. ASSUME NEW q \in Queries, NEW n \in 0 .. MaxBatch, Stream(q, n) PROVE Inv'
    BY <1>5, StreamStep
<1>6. ASSUME NEW t \in Tables, InvalidateContract(t) PROVE Inv'
  <2>1. CacheInv'
      BY <1>6, WithoutKeeps DEF InvalidateContract, Inv
  <2>2. QueriesInv'
      BY <1>6, QueriesStay DEF InvalidateContract, Inv
  <2> QED BY <2>1, <2>2 DEF Inv
<1>7. CASE InvalidateAll
  <2>1. CacheInv'
    <3>1. lru' = <<>> /\ bytes' = 0
        BY <1>7 DEF InvalidateAll
    <3>2. <<>> \in Seq(Entries) /\ Len(<<>>) = 0 /\ Distinct(<<>>)
        BY DEF Distinct
    <3> QED BY <3>1, <3>2, WeightAppend, SizesAssumption DEF CacheInv
  <2>2. QueriesInv'
      BY <1>7, QueriesStay DEF InvalidateAll, Inv
  <2> QED BY <2>1, <2>2 DEF Inv
<1>8. CASE Tick
  <2>1. CacheInv'
      BY <1>8, TickKeeps DEF Inv
  <2>2. QueriesInv'
      BY <1>8, QueriesStay DEF Tick, Inv
  <2> QED BY <2>1, <2>2 DEF Inv
<1>9. CASE UNCHANGED vars
    BY <1>9 DEF vars, Inv, CacheInv, QueriesInv
<1> QED BY <1>1, <1>2, <1>3, <1>4, <1>5, <1>6, <1>7, <1>8, <1>9 DEF Next

\* The invariant holds of every state of every engine.
LEMMA Invariance == Spec => []Inv
BY InvInit, InvNext, PTL DEF Spec

-----------------------------------------------------------------------------
\* The engine's books are well typed, and a query has a connection to the signer only
\* while Engine::sign waits for it.
THEOREM DeliveryTypes == Spec => []TypeOK
<1>1. Inv => TypeOK
  <2> SUFFICES ASSUME Inv PROVE TypeOK
      OBVIOUS
  <2>1. signer \in BOOLEAN
      BY DEF Inv, QueriesInv
  <2>2. ASSUME NEW q \in Queries
        PROVE  /\ job[q].at \in Stages /\ job[q].mode \in Modes \cup {"none"}
               /\ {job[q].total, job[q].held, job[q].out, job[q].age, seen[q]} \subseteq Nat
               /\ conn[q] # None <=> job[q].at = "signing"
    <3>1. JobOK(q, signer, job[q], conn[q], seen[q]) /\ job[q] \in Jobs /\ seen[q] \in Nat
          /\ conn[q] \in Connections \cup {None}
        BY DEF Inv, QueriesInv
    <3>2. /\ job[q].at \in Stages /\ job[q].mode \in Modes \cup {"none"}
          /\ {job[q].total, job[q].held, job[q].out, job[q].age, seen[q]} \subseteq Nat
        BY <3>1 DEF Jobs
    <3>3. CASE job[q].at = "signing"
      <4>1. PICK a \in {None, Refusal, Envelope(q, job[q])} : conn[q] = [asked |-> Envelope(q, job[q]), answer |-> a]
          BY <3>1, <3>3 DEF JobOK
      <4>2. Envelope(q, job[q]) \in Envelopes /\ Refusal \in Envelopes
          BY <3>1 DEF Jobs, Envelope, Envelopes, Refusal
      <4>3. conn[q] \in Connections
          BY <4>1, <4>2 DEF Connections
      <4> QED BY <3>2, <3>3, <4>3, NoneAssumption
    <3>4. CASE job[q].at # "signing"
      <4>1. conn[q] = None
          BY <3>1, <3>4 DEF JobOK
      <4> QED BY <3>2, <3>4, <4>1
    <3> QED BY <3>3, <3>4
  <2>3. ASSUME NEW i \in DOMAIN lru
        PROVE  lru[i].key \in Keys /\ {lru[i].age, lru[i].old} \subseteq 0 .. (Ttl + 1)
    <3>1. lru[i] \in Entries
        BY DEF Inv, CacheInv
    <3> QED BY <3>1 DEF Entries
  <2> QED BY <2>1, <2>2, <2>3 DEF TypeOK
<1> QED BY <1>1, Invariance, PTL

\* SuppressExec and the cache: a small result is withheld whole, any other given whole.
THEOREM SmallResultsHold == Spec => []SmallResultsAreWithheld
<1>1. Inv => SmallResultsAreWithheld
  <2> SUFFICES ASSUME Inv, NEW q \in Queries, job[q].at \in {"signing", "ready", "stream"}
               PROVE  job[q].out = IF job[q].total < K[job[q].key] THEN 0 ELSE job[q].total
      BY DEF SmallResultsAreWithheld
  <2>1. JobOK(q, signer, job[q], conn[q], seen[q])
      BY DEF Inv, QueriesInv
  <2> QED BY <2>1 DEF JobOK, Withheld
<1> QED BY <1>1, Invariance, PTL

\* hold_first: no row leaves the engine before there are k of them.
THEOREM NothingSeenBelowK == Spec => []NothingIsSeenBelowK
<1>1. Inv => NothingIsSeenBelowK
  <2> SUFFICES ASSUME Inv, NEW q \in Queries, seen[q] > 0 PROVE job[q].total >= K[job[q].key]
      BY DEF NothingIsSeenBelowK
  <2>1. JobOK(q, signer, job[q], conn[q], seen[q])
      BY DEF Inv, QueriesInv
  <2>2. seen[q] \in Nat /\ job[q] \in Jobs /\ job[q].at # "idle" /\ job[q].at \in Stages /\ job[q].key \in Keys
      BY <2>1 DEF JobOK, Jobs
  <2>3. job[q].out \in Nat /\ job[q].out > 0
    <3>1. seen[q] <= job[q].out
      <4>1. CASE job[q].at = "execute"
          BY <2>1, <2>2, <4>1 DEF JobOK, Jobs
      <4>2. CASE job[q].at \in {"signing", "ready"}
          BY <2>1, <2>2, <4>2 DEF JobOK
      <4>3. CASE job[q].at \in {"stream", "over"}
          BY <2>1, <4>3 DEF JobOK
      <4> QED BY <2>2, <4>1, <4>2, <4>3 DEF Stages
    <3>2. job[q].out \in Nat
        BY <2>2 DEF Jobs
    <3> QED BY <2>2, <3>1, <3>2
  <2>4. job[q].out = Withheld(job[q].total, job[q].key)
      BY <2>1, <2>2 DEF JobOK
  <2>5. job[q].total \in Nat /\ K[job[q].key] \in Nat
      BY <2>2, KAssumption DEF Jobs
  <2> QED BY <2>3, <2>4, <2>5 DEF Withheld
<1> QED BY <1>1, Invariance, PTL

\* QueryCache: total_bytes is what the entries weigh, and neither they nor their bytes are
\* more than QueryCacheConfig allows.
THEOREM CacheBoundsHold == Spec => []CacheKeepsItsBounds
<1>1. Inv => CacheKeepsItsBounds
  <2> SUFFICES ASSUME CacheInv PROVE CacheKeepsItsBounds
      BY DEF Inv
  <2>1. DOMAIN lru = 1 .. Len(lru)
      BY DEF CacheInv
  <2> QED BY <2>1 DEF CacheInv, CacheKeepsItsBounds, Distinct
<1> QED BY <1>1, Invariance, PTL

\* QueryCache::get: no answer is older than the time to live.
THEOREM HitsFresh == Spec => []HitsAreFresh
<1>1. Inv => HitsAreFresh
    BY DEF Inv, QueriesInv, JobOK, HitsAreFresh
<1> QED BY <1>1, Invariance, PTL

\* Engine::sign and the Flight stream: what leaves is what the signer signed for it.
THEOREM AnswersCertified == Spec => []AnswersAreCertified
<1>1. Inv => AnswersAreCertified
  <2> SUFFICES ASSUME Inv, NEW q \in Queries, job[q].mode # "plan", seen[q] > 0
               PROVE  (signer => job[q].sig = Envelope(q, job[q])) /\ seen[q] <= job[q].out
      BY DEF AnswersAreCertified
  <2>1. JobOK(q, signer, job[q], conn[q], seen[q])
      BY DEF Inv, QueriesInv
  <2>2. seen[q] \in Nat /\ job[q].at \in Stages
      BY <2>1 DEF JobOK, Jobs
  <2>3. job[q].at \in {"stream", "over"}
      BY <2>1, <2>2 DEF JobOK, Stages
  <2> QED BY <2>1, <2>3 DEF JobOK
<1> QED BY <1>1, Invariance, PTL
=============================================================================

------------------------- MODULE IcebergFactsProofs -------------------------
(***************************************************************************)
(* The facts of IcebergTable describe their snapshots, for every set of    *)
(* writes, contracts and compilations.  Facts are computed from a parent's *)
(* facts and the write's own alone, so the argument is an induction along  *)
(* the history: what a task knows in the middle of a replay is what a      *)
(* validation of the snapshot before would have found.                     *)
(***************************************************************************)
EXTENDS IcebergTableProofs

\* d is a decision about the data of snapshot i under k: a validation of it or of an
\* ancestor made it, and no write since replaced the data.
Decided(k, d, i) ==
    d = None \/ \E j \in 1 .. i : /\ d = Guarantee[k][Rows(j)]
                                  /\ \A n \in (j + 1) .. i : kind[log[n]] \in {"append", "rewrite"}

\* m says of snapshot i what a validation of the whole of it would have.
DescAt(m, i) ==
    /\ m.snap = log[i]
    /\ m.rows = RowCount[Rows(i)]
    /\ m.fails = FailCount[m.comp][Rows(i)]
    /\ m.files = FilesIn(ManifestsAt(i))
    /\ Decided(m.comp, m.decided, i)

\* The facts recorded.
FactsInv == \A c \in Contracts :
    /\ \A i \in 1 .. Len(log) : facts[c][log[i]] # None => DescAt(facts[c][log[i]], i)
    /\ \A w \in Writes \ Committed : facts[c][w] = None

\* The facts the engine answers from.
CachedInv == \A c \in Contracts :
    cached[c] # None => \E i \in 1 .. Len(log) : DescAt(cached[c], i)

\* What task t knows: in a replay, the facts of the snapshot before the next one, or
\* nothing when the next write needs nothing; after a scan, the facts of its snapshot.
KnowsOK(t) ==
    /\ t.stage = "replay" =>
         \/ /\ t.known = None
            /\ t.next = 1 \/ (t.next <= t.target /\ kind[log[t.next]] = "overwrite")
         \/ t.known # None /\ t.next > 1 /\ DescAt(t.known, t.next - 1)
    /\ t.stage = "scanned" => DescAt(t.known, t.target)

KnowsInv == \A p \in Procs : KnowsOK(task[p])

FInv == IInv /\ FactsInv /\ CachedInv /\ KnowsInv

(***************************************************************************)
(* What facts say of a snapshot stays true.                                *)
(***************************************************************************)
LEMMA DescStable ==
    ASSUME IInv, Kept, NEW m, NEW i \in 1 .. Len(log), DescAt(m, i)
    PROVE  DescAt(m, i)'
<1>1. WType /\ ListInv /\ NameInv
    BY DEF IInv, TableInv
<1>2. Len(log) \in Nat /\ \A j \in 1 .. Len(log) : log[j] \in Committed
    BY <1>1, UptoFacts
<1>3. \A j \in 0 .. Len(log) : Rows(j)' = Rows(j) /\ FilesIn(ManifestsAt(j))' = FilesIn(ManifestsAt(j))
    BY <1>1, Stable DEF Kept
<1>4. \A j \in 1 .. Len(log) : log'[j] = log[j] /\ kind'[log[j]] = kind[log[j]]
    BY <1>2 DEF Kept
<1>5. i \in 0 .. Len(log)
    BY <1>2
<1>6. ASSUME NEW k, NEW d, Decided(k, d, i)
      PROVE  Decided(k, d, i)'
  <2>1. CASE d = None
      BY <2>1 DEF Decided
  <2>2. CASE d # None
    <3>1. PICK j \in 1 .. i : /\ d = Guarantee[k][Rows(j)]
                             /\ \A n \in (j + 1) .. i : kind[log[n]] \in {"append", "rewrite"}
        BY <1>6, <2>2 DEF Decided
    <3>2. j \in 0 .. Len(log) /\ \A n \in (j + 1) .. i : n \in 1 .. Len(log)
        BY <1>2
    <3>3. Rows(j)' = Rows(j)
        BY <1>3, <3>2
    <3>4. \A n \in (j + 1) .. i : kind'[log'[n]] \in {"append", "rewrite"}
        BY <1>4, <3>1, <3>2
    <3>5. d = Guarantee[k][Rows(j)']
        BY <3>1, <3>3
    <3> QED BY <3>4, <3>5 DEF Decided
  <2> QED BY <2>1, <2>2
<1>7. Decided(m.comp, m.decided, i)'
  <2>1. Decided(m.comp, m.decided, i)
      BY DEF DescAt
  <2> QED BY <1>6, <2>1
<1>8. Rows(i)' = Rows(i) /\ FilesIn(ManifestsAt(i))' = FilesIn(ManifestsAt(i)) /\ log'[i] = log[i]
    BY <1>3, <1>4, <1>5
<1>9. /\ m.snap = log'[i]
      /\ m.rows = RowCount[Rows(i)']
      /\ m.fails = FailCount[m.comp][Rows(i)']
      /\ m.files = FilesIn(ManifestsAt(i))'
    BY <1>8 DEF DescAt
<1> QED BY <1>7, <1>9 DEF DescAt

\* What a task knows of the table stays true as the table grows.
LEMMA KnowsStable ==
    ASSUME IInv, Kept, NEW p \in Procs, NEW t \in Tasks, TaskOK(p, t), KnowsOK(t)
    PROVE  KnowsOK(t)'
<1>1. Len(log) \in Nat /\ (\A j \in 1 .. Len(log) : log[j] \in Committed) /\ t.next \in Nat
    BY UptoFacts DEF IInv, Tasks
<1>2. t.stage = "scanned" => DescAt(t.known, t.target)'
  <2> SUFFICES ASSUME t.stage = "scanned" PROVE DescAt(t.known, t.target)'
      OBVIOUS
  <2>1. t.target \in 1 .. Len(log) /\ DescAt(t.known, t.target)
      BY DEF TaskOK, KnowsOK
  <2> QED BY <2>1, DescStable
<1>3. CASE t.stage = "replay"
  <2>1. t.target \in 1 .. Len(log) /\ t.next \in 1 .. (t.target + 1)
      BY <1>3 DEF TaskOK
  <2>2. CASE t.known = None /\ (t.next = 1 \/ (t.next <= t.target /\ kind[log[t.next]] = "overwrite"))
    <3>1. t.next <= t.target => kind'[log'[t.next]] = kind[log[t.next]]
      <4>1. t.next <= t.target => t.next \in 1 .. Len(log)
          BY <1>1, <2>1
      <4> QED BY <1>1, <4>1 DEF Kept
    <3> QED BY <1>3, <2>2, <3>1 DEF KnowsOK
  <2>3. CASE t.known # None /\ t.next > 1 /\ DescAt(t.known, t.next - 1)
    <3>1. t.next - 1 \in 1 .. Len(log)
        BY <1>1, <2>1, <2>3
    <3>2. DescAt(t.known, t.next - 1)'
        BY <2>3, <3>1, DescStable
    <3> QED BY <1>3, <2>3, <3>2 DEF KnowsOK
  <2> QED BY <1>3, <2>2, <2>3 DEF KnowsOK
<1>4. CASE t.stage # "replay"
    BY <1>2, <1>4 DEF KnowsOK
<1> QED BY <1>3, <1>4

\* Steps of the table and of writes: facts are left alone, whatever is committed.
LEMMA FactsFrame ==
    ASSUME FInv, IInv', Kept, Len(log) <= Len(log'), UNCHANGED <<facts, cached>>,
           \A p \in Procs : task'[p] = task[p] \/ task'[p].stage \in {"idle", "next"}
    PROVE  FInv'
<1>1. IInv /\ FactsInv /\ CachedInv /\ KnowsInv /\ WType /\ TypeOK
    BY DEF FInv, IInv, WType
<1>2. Len(log) \in Nat /\ Len(log') \in Nat /\ (\A i \in 1 .. Len(log) : log'[i] = log[i])
  <2>1. Len(log') \in Nat
      BY DEF IInv, WType, TypeOK
  <2> QED BY <1>1, <2>1 DEF TypeOK, Kept
<1>3. \A i \in 1 .. Len(log) : i \in 1 .. Len(log')
    BY <1>2
<1>4. ASSUME NEW i \in 1 .. Len(log'), i \notin 1 .. Len(log)
      PROVE  log'[i] \notin Committed /\ log'[i] \in Writes
  <2>1. log'[i] \in Writes
      BY DEF IInv, WType, TypeOK
  <2>2. ASSUME NEW j \in 1 .. Len(log), log'[i] = log[j]
        PROVE  FALSE
    <3>1. log'[i] = log'[j] /\ j \in 1 .. Len(log')
        BY <1>2, <1>3, <2>2
    <3>2. i = j
        BY <3>1 DEF IInv, TableInv, OnceInv
    <3> QED BY <1>4, <3>2
  <2> QED BY <2>1, <2>2 DEF Committed
<1>5. FactsInv'
  <2>1. ASSUME NEW c \in Contracts, NEW i \in 1 .. Len(log'), facts'[c][log'[i]] # None
        PROVE  DescAt(facts[c][log[i]], i)'
    <3>1. i \in 1 .. Len(log)
        BY <1>1, <1>4, <2>1 DEF FactsInv
    <3>2. PICK m : m = facts[c][log[i]]
        OBVIOUS
    <3>3. facts'[c][log'[i]] = m
        BY <1>2, <3>1, <3>2
    <3>4. DescAt(m, i)
        BY <1>1, <2>1, <3>1, <3>2, <3>3 DEF FactsInv
    <3>5. DescAt(m, i)'
        BY <1>1, <3>1, <3>4, DescStable
    <3> QED BY <3>3, <3>5
  <2>2. Committed \subseteq Committed'
      BY <1>2, <1>3 DEF Committed
  <2>3. \A c \in Contracts, w \in Writes \ Committed' : facts'[c][w] = None
      BY <1>1, <2>2 DEF FactsInv
  <2> QED BY <2>1, <2>3 DEF FactsInv
<1>6. CachedInv'
  <2> SUFFICES ASSUME NEW c \in Contracts, cached'[c] # None
               PROVE  \E i \in 1 .. Len(log') : DescAt(cached[c], i)'
      BY DEF CachedInv
  <2>1. PICK m : m = cached[c]
      OBVIOUS
  <2>2. PICK i \in 1 .. Len(log) : DescAt(m, i)
      BY <1>1, <2>1 DEF CachedInv
  <2>3. DescAt(m, i)' /\ i \in 1 .. Len(log')
      BY <1>1, <1>3, <2>2, DescStable
  <2>4. cached'[c] = m
      BY <2>1
  <2> QED BY <2>3, <2>4
<1>7. KnowsInv'
  <2> SUFFICES ASSUME NEW p \in Procs PROVE KnowsOK(task[p])'
      BY DEF KnowsInv, Procs
  <2>1. CASE task'[p].stage \in {"idle", "next"}
      BY <2>1 DEF KnowsOK
  <2>2. CASE task'[p] = task[p]
    <3>1. PICK t \in Tasks : t = task[p]
        BY <1>1 DEF TypeOK
    <3>2. TaskOK(p, t) /\ KnowsOK(t)
        BY <1>1, <3>1 DEF WType, TaskInv, KnowsInv
    <3>3. KnowsOK(t)'
        BY <1>1, <3>2, KnowsStable
    <3>4. task'[p] = t
        BY <2>2, <3>1
    <3> QED BY <3>3, <3>4
  <2> QED BY <2>1, <2>2
<1> QED BY <1>5, <1>6, <1>7 DEF FInv

\* Steps of a task: the table is left alone.
LEMMA FactsStep ==
    ASSUME FInv, IInv', UNCHANGED <<log, list, files, deletes, holds, kind>>,
           \A c \in Contracts, w \in Writes :
               \/ facts'[c][w] = facts[c][w]
               \/ \E i \in 1 .. Len(log) : w = log[i] /\ DescAt(facts'[c][w], i),
           \A c \in Contracts :
               \/ cached'[c] \in {cached[c], None}
               \/ \E i \in 1 .. Len(log) : DescAt(cached'[c], i),
           \A p \in Procs : task'[p] = task[p] \/ KnowsOK(task'[p])
    PROVE  FInv'
<1>1. IInv /\ FactsInv /\ CachedInv /\ KnowsInv /\ OnceInv
    BY DEF FInv, IInv, TableInv
<1>2. Committed' = Committed
    BY DEF Committed
<1>3. \A i : Rows(i)' = Rows(i) /\ FilesIn(ManifestsAt(i))' = FilesIn(ManifestsAt(i))
    BY DEF Rows, RowsIn, FilesIn, ManifestsAt
<1>4. \A m, i : DescAt(m, i) => DescAt(m, i)'
    BY <1>3 DEF DescAt, Decided
<1>5. \A t : KnowsOK(t) => KnowsOK(t)'
    BY <1>4 DEF KnowsOK
<1>6. FactsInv'
  <2>1. ASSUME NEW c \in Contracts, NEW i \in 1 .. Len(log), facts'[c][log[i]] # None
        PROVE  DescAt(facts'[c][log[i]], i)
    <3>1. log[i] \in Writes
        BY <1>1 DEF IInv, WType, TypeOK
    <3>2. CASE facts'[c][log[i]] = facts[c][log[i]]
        BY <1>1, <2>1, <3>2 DEF FactsInv
    <3>3. CASE \E j \in 1 .. Len(log) : log[i] = log[j] /\ DescAt(facts'[c][log[i]], j)
        BY <1>1, <3>3 DEF OnceInv
    <3> QED BY <3>1, <3>2, <3>3
  <2>2. ASSUME NEW c \in Contracts, NEW i \in 1 .. Len(log'), facts'[c][log'[i]] # None
        PROVE  DescAt(facts[c][log[i]], i)'
    <3>1. PICK m : m = facts'[c][log'[i]]
        OBVIOUS
    <3>2. DescAt(m, i)
        BY <2>1, <2>2, <3>1
    <3>3. DescAt(m, i)'
        BY <1>4, <3>2
    <3> QED BY <3>1, <3>3
  <2>3. \A c \in Contracts, w \in Writes \ Committed : facts'[c][w] = None
      BY <1>1 DEF FactsInv, Committed
  <2> QED BY <1>2, <2>2, <2>3 DEF FactsInv
<1>7. CachedInv'
  <2> SUFFICES ASSUME NEW c \in Contracts, cached'[c] # None
               PROVE  \E i \in 1 .. Len(log') : DescAt(cached[c], i)'
      BY DEF CachedInv
  <2>1. PICK m : m = cached'[c]
      OBVIOUS
  <2>2. PICK i \in 1 .. Len(log) : DescAt(m, i)
      BY <1>1, <2>1 DEF CachedInv
  <2>3. DescAt(m, i)' /\ i \in 1 .. Len(log')
      BY <1>4, <2>2
  <2> QED BY <2>1, <2>3
<1>8. KnowsInv'
  <2> SUFFICES ASSUME NEW p \in Procs PROVE KnowsOK(task[p])'
      BY DEF KnowsInv, Procs
  <2>1. PICK t : t = task'[p]
      OBVIOUS
  <2>2. KnowsOK(t)
      BY <1>1, <2>1 DEF KnowsInv
  <2> QED BY <1>5, <2>1, <2>2
<1> QED BY <1>6, <1>7, <1>8 DEF FInv

(***************************************************************************)
(* What after_write gives, and what a validation finds.                    *)
(***************************************************************************)
\* Facts by their fields (facts::after_write, each of its three outcomes).
LEMMA AddedFields ==
    ASSUME NEW own \in Manifest, NEW r \in Nat, NEW f \in Nat, NEW g \in SUBSET Writes,
           NEW d \in BOOLEAN \cup {None}
    PROVE  LET m == [own EXCEPT !.rows = r, !.fails = f, !.files = g, !.decided = d]
           IN  m.snap = own.snap /\ m.comp = own.comp /\ m.rows = r /\ m.fails = f /\ m.files = g
               /\ m.decided = d
BY DEF Manifest

\* The rewrite's outcome keeps all but the snapshot and the files.
LEMMA MovedFields ==
    ASSUME NEW m0 \in Manifest, NEW w \in Writes, NEW g \in SUBSET Writes
    PROVE  LET m == [m0 EXCEPT !.snap = w, !.files = g]
           IN  m.snap = w /\ m.comp = m0.comp /\ m.rows = m0.rows /\ m.fails = m0.fails /\ m.files = g
               /\ m.decided = m0.decided
BY DEF Manifest

\* A decision is about the next snapshot too when the write that made it replaced nothing.
LEMMA DecidedNext ==
    ASSUME NEW k, NEW d, NEW n \in Nat, NEW i \in Nat, i = n + 1, Decided(k, d, n),
           kind[log[i]] \in {"append", "rewrite"}
    PROVE  Decided(k, d, i)
<1>1. CASE d = None
    BY <1>1 DEF Decided
<1>2. CASE d # None
  <2>1. PICK j \in 1 .. n : /\ d = Guarantee[k][Rows(j)]
                           /\ \A l \in (j + 1) .. n : kind[log[l]] \in {"append", "rewrite"}
      BY <1>2 DEF Decided
  <2>2. j \in 1 .. i /\ \A l \in (j + 1) .. i : kind[log[l]] \in {"append", "rewrite"}
      BY <2>1
  <2> QED BY <2>1, <2>2 DEF Decided
<1> QED BY <1>1, <1>2

\* Facts applied write by write say of a snapshot what a validation of it would: the
\* one step of that induction (facts::after_write).
LEMMA AfterWriteDesc ==
    ASSUME IInv, NEW i \in 1 .. Len(log), NEW k \in Comps, NEW c \in Contracts,
           NEW before \in Manifest \cup {None}, Answer(k, before, log[i], c) = "known",
           \/ before = None /\ (i = 1 \/ kind[log[i]] = "overwrite")
           \/ before # None /\ i > 1 /\ DescAt(before, i - 1)
    PROVE  DescAt(AfterWrite(k, before, log[i]), i)
<1>0. PICK w : w = log[i]
    OBVIOUS
<1>1. WType /\ TypeOK /\ OwnInv /\ OnceInv /\ ListInv /\ NameInv /\ ApartInv /\ CommitInv
    BY DEF IInv, WType, TableInv
<1>2. Len(log) \in Nat /\ w \in Writes /\ i \in Nat
    BY <1>0, <1>1 DEF TypeOK
<1>3. kind[w] \in Own
  <2>1. wfacts[w][c] = k /\ k # None
      BY <1>0, CompsAssumption DEF Answer
  <2>2. pc[w] \notin {"idle", "foreign"}
      BY <1>1, <1>2, <2>1 DEF WType, StandInv, StandOK
  <2> QED BY <1>1, <1>2, <2>2 DEF WType, StandInv, StandOK
<1>4. /\ files[w] = {w} /\ deletes[w] = {}
      /\ kind[w] \in {"append", "overwrite"} => holds[w] = {w}
    BY <1>1, <1>2, <1>3 DEF OwnInv, OwnAt
<1>5. ManifestsAt(i) = list[w] /\ Rows(i) = RowsIn(list[w])
    BY <1>0, <1>2 DEF ManifestsAt, Rows
<1>6. CommitAt(i)
    BY <1>1 DEF CommitInv
<1>7. CASE kind[w] = "overwrite" \/ (kind[w] = "append" /\ before = None)
  <2>1. list[w] = {w}
    <3>1. CASE kind[w] = "overwrite"
        BY <1>0, <1>6, <3>1 DEF CommitAt
    <3>2. CASE kind[w] = "append" /\ before = None
      <4>1. i = 1 /\ list[w] = ManifestsAt(i - 1) \cup {w}
          BY <1>0, <1>6, <3>2 DEF CommitAt
      <4>2. ManifestsAt(0) = {}
          BY DEF ManifestsAt
      <4> QED BY <4>1, <4>2
    <3> QED BY <1>7, <3>1, <3>2
  <2>2. Rows(i) = {w}
      BY <1>2, <1>4, <1>5, <1>7, <2>1, RowsAlone
  <2>3. FilesIn(ManifestsAt(i)) = {w}
    <3>1. \A f : f \in FilesIn({w}) <=> f \in files[w]
        BY DEF FilesIn
    <3> QED BY <1>4, <1>5, <2>1, <3>1
  <2>4. AfterWrite(k, before, w) = WriteFacts(w, k)
      BY <1>7 DEF AfterWrite
  <2>5. PICK m : m = WriteFacts(w, k)
      OBVIOUS
  <2>6. m.snap = w /\ m.comp = k /\ m.rows = RowCount[{w}] /\ m.fails = FailCount[k][{w}]
        /\ m.files = {w} /\ m.decided = None
    <3>1. holds[w] = {w}
        BY <1>4, <1>7
    <3>2. m.snap = w /\ m.comp = k /\ m.rows = RowCount[holds[w]] /\ m.fails = FailCount[k][holds[w]]
          /\ m.files = files[w] /\ m.decided = None
        BY <2>5 DEF WriteFacts
    <3> QED BY <1>4, <3>1, <3>2
  <2> QED BY <1>0, <2>2, <2>3, <2>4, <2>5, <2>6 DEF DescAt, Decided
<1>8. CASE kind[w] = "append" /\ before # None
  <2>1. before \in Manifest /\ i > 1 /\ DescAt(before, i - 1) /\ i - 1 \in 0 .. Len(log)
        /\ i - 1 \in 1 .. Len(log)
      BY <1>2, <1>8
  <2>2. before.comp = k
      BY <1>0, <1>8 DEF Answer
  <2>3. PICK n \in 1 .. Len(log) : n = i - 1 /\ n \in 0 .. Len(log)
      BY <2>1
  <2>4. w \notin Upto(n)
    <3> SUFFICES ASSUME NEW j \in 1 .. n, w = log[j] PROVE FALSE
        BY DEF Upto
    <3>1. j \in 1 .. Len(log) /\ j # i
        BY <1>2, <2>3
    <3> QED BY <1>0, <1>1, <3>1 DEF OnceInv
  <2>5. list[w] = ManifestsAt(n) \cup {w}
      BY <1>0, <1>6, <1>8, <2>3 DEF CommitAt
  <2>6. Rows(i) = Rows(n) \cup {w}
      BY <1>1, <1>2, <1>4, <1>5, <1>8, <2>3, <2>4, <2>5, AppendAddsRows
  <2>7. FilesIn(ManifestsAt(i)) = FilesIn(ManifestsAt(n)) \cup {w}
    <3>1. \A f : f \in FilesIn(ManifestsAt(n) \cup {w}) <=> f \in FilesIn(ManifestsAt(n)) \/ f \in files[w]
        BY DEF FilesIn
    <3>2. ManifestsAt(i) = ManifestsAt(n) \cup {w}
        BY <1>5, <2>5
    <3> QED BY <1>4, <3>1, <3>2
  <2>8. Rows(n) \in SUBSET Writes /\ Rows(n) \cap {w} = {} /\ {w} \in SUBSET Writes
    <3>1. Rows(n) \subseteq Upto(n)
        BY <1>1, <2>3, PastFacts
    <3>2. Rows(n) \in SUBSET Writes
        BY <1>1, <2>3, ManifestsType
    <3> QED BY <1>2, <2>4, <3>1, <3>2
  <2>9. RowCount[Rows(i)] = RowCount[Rows(n)] + RowCount[{w}]
        /\ FailCount[k][Rows(i)] = FailCount[k][Rows(n)] + FailCount[k][{w}]
    <3>1. PICK A \in SUBSET Writes, W \in SUBSET Writes : A = Rows(n) /\ W = {w}
        BY <2>8
    <3>2. A \cap W = {} /\ Rows(i) = A \cup W
        BY <2>6, <2>8, <3>1
    <3>3. RowCount[A \cup W] = RowCount[A] + RowCount[W]
        BY <3>2, RowsAssumption DEF Additive
    <3>4. FailCount[k][A \cup W] = FailCount[k][A] + FailCount[k][W]
        BY <3>2, FailsAssumption DEF Additive
    <3> QED BY <3>1, <3>2, <3>3, <3>4
  <2>10. PICK own \in Manifest : own = WriteFacts(w, k)
      BY <1>1, <1>2, WriteFactsType
  <2>11. own.snap = w /\ own.comp = k /\ own.rows = RowCount[{w}] /\ own.fails = FailCount[k][{w}]
         /\ own.files = {w} /\ own.rows \in Nat /\ own.fails \in Nat
    <3>1. own.rows \in Nat /\ own.fails \in Nat
        BY DEF Manifest
    <3>2. holds[w] = {w}
        BY <1>4, <1>8
    <3>3. own.snap = w /\ own.comp = k /\ own.rows = RowCount[holds[w]]
          /\ own.fails = FailCount[k][holds[w]] /\ own.files = files[w]
        BY <2>10 DEF WriteFacts
    <3> QED BY <1>4, <3>1, <3>2, <3>3
  <2>12. before.rows \in Nat /\ before.fails \in Nat /\ before.files \in SUBSET Writes
      BY <2>1 DEF Manifest
  <2>13. before.decided \in BOOLEAN \cup {None}
      BY <2>1, Zenon DEF Manifest
  <2>14. PICK m : m = AfterWrite(k, before, w)
      OBVIOUS
  <2>15. m.snap = w /\ m.comp = k /\ m.rows = before.rows + own.rows /\ m.fails = before.fails + own.fails
         /\ m.files = before.files \cup {w} /\ m.decided = before.decided
    <3>1. m = [own EXCEPT !.rows = before.rows + own.rows, !.fails = before.fails + own.fails,
                          !.files = before.files \cup own.files, !.decided = before.decided]
        BY <1>8, <2>10, <2>14 DEF AfterWrite
    <3>2. before.rows + own.rows \in Nat /\ before.fails + own.fails \in Nat
          /\ before.files \cup own.files \in SUBSET Writes
        BY <1>2, <2>11, <2>12, SMTT(30)
    <3> QED BY <2>11, <2>13, <3>1, <3>2, AddedFields
  <2>16. before.rows = RowCount[Rows(n)] /\ before.fails = FailCount[k][Rows(n)]
         /\ before.files = FilesIn(ManifestsAt(n)) /\ Decided(k, before.decided, n)
      BY <2>1, <2>2, <2>3 DEF DescAt
  <2>17. Decided(k, m.decided, i)
    <3>1. Decided(k, m.decided, n)
        BY <2>15, <2>16
    <3>2. kind[log[i]] \in {"append", "rewrite"}
        BY <1>0, <1>8
    <3> QED BY <1>2, <2>3, <3>1, <3>2, DecidedNext
  <2> QED BY <1>0, <2>7, <2>9, <2>11, <2>14, <2>15, <2>16, <2>17 DEF DescAt
<1>9. CASE kind[w] = "rewrite"
  <2>1. before # None /\ before \in Manifest /\ i > 1 /\ DescAt(before, i - 1)
      BY <1>0, <1>9 DEF Answer
  <2>2. PICK n \in 1 .. Len(log) : n = i - 1 /\ n \in 0 .. Len(log)
      BY <1>2, <2>1
  <2>3. before.comp = k
      BY <1>0, <1>9, <2>1 DEF Answer
  <2> DEFINE B == ManifestsAt(base[w])
             C == ManifestsAt(n)
  <2>4. list[w] = (C \ B) \cup {w} /\ B \subseteq C /\ Rows(i) = Rows(n)
      BY <1>0, <1>5, <1>6, <1>9, <2>2 DEF CommitAt
  <2>5. \A m1, m2 \in C : m1 # m2 => files[m1] \cap files[m2] = {}
      BY <1>1, <2>2 DEF ApartInv, ApartAt, ManifestsAt
  <2>6. FilesIn(ManifestsAt(i)) = (FilesIn(C) \ FilesIn(B)) \cup {w}
    <3> HIDE DEF B, C
    <3>1. ASSUME NEW f, f \in FilesIn((C \ B) \cup {w})
          PROVE  f \in (FilesIn(C) \ FilesIn(B)) \cup {w}
      <4>1. PICK m \in (C \ B) \cup {w} : f \in files[m]
          BY <3>1 DEF FilesIn
      <4>2. CASE m = w
          BY <1>4, <4>1, <4>2
      <4>3. CASE m \in C \ B
        <5>1. \A m2 \in B : f \notin files[m2]
            BY <2>4, <2>5, <4>1, <4>3
        <5> QED BY <4>1, <4>3, <5>1 DEF FilesIn
      <4> QED BY <4>2, <4>3
    <3>2. ASSUME NEW f, f \in (FilesIn(C) \ FilesIn(B)) \cup {w}
          PROVE  f \in FilesIn((C \ B) \cup {w})
        BY <1>4, <3>2 DEF FilesIn
    <3> QED BY <1>5, <2>4, <3>1, <3>2
  <2>7. Removed(w) = FilesIn(B)
      BY DEF Removed
  <2>8. FilesIn(C) \in SUBSET Writes
      BY <1>1, <2>2, ManifestsType
  <2> HIDE DEF B, C
  <2>9. before.rows = RowCount[Rows(n)] /\ before.fails = FailCount[k][Rows(n)]
         /\ before.files = FilesIn(C) /\ Decided(k, before.decided, n)
      BY <2>1, <2>2, <2>3 DEF DescAt, C
  <2>10. PICK m : m = AfterWrite(k, before, w)
      OBVIOUS
  <2>11. m.snap = w /\ m.comp = k /\ m.rows = before.rows /\ m.fails = before.fails
         /\ m.files = (FilesIn(C) \ FilesIn(B)) \cup {w} /\ m.decided = before.decided
    <3>1. WriteFacts(w, k).files = {w}
        BY <1>4 DEF WriteFacts
    <3>2. m = [before EXCEPT !.snap = w, !.files = (before.files \ Removed(w)) \cup {w}]
        BY <1>9, <2>1, <2>10, <3>1 DEF AfterWrite
    <3>3. PICK g \in SUBSET Writes : g = (FilesIn(C) \ FilesIn(B)) \cup {w}
        BY <1>2, <2>8
    <3>4. m = [before EXCEPT !.snap = w, !.files = g]
        BY <2>7, <2>9, <3>2, <3>3
    <3> QED BY <1>2, <2>1, <2>3, <3>3, <3>4, MovedFields
  <2>12. Decided(k, m.decided, i)
    <3>1. Decided(k, m.decided, n)
        BY <2>9, <2>11
    <3>2. kind[log[i]] \in {"append", "rewrite"}
        BY <1>0, <1>9
    <3> QED BY <1>2, <2>2, <3>1, <3>2, DecidedNext
  <2>13. m.rows = RowCount[Rows(i)] /\ m.fails = FailCount[m.comp][Rows(i)]
         /\ m.files = FilesIn(ManifestsAt(i))
      BY <2>4, <2>6, <2>9, <2>11
  <2>14. m.snap = log[i] /\ Decided(m.comp, m.decided, i)
      BY <1>0, <2>11, <2>12
  <2> QED BY <1>0, <2>10, <2>13, <2>14 DEF DescAt
<1> QED BY <1>3, <1>7, <1>8, <1>9 DEF Own

\* What a scan finds describes the snapshot scanned (Engine::refresh).
LEMMA ValidatedDesc ==
    ASSUME NEW k, NEW s \in Nat, s # 0
    PROVE  DescAt(Validated(k, s), s)
<1>1. PICK m : m = Validated(k, s)
    OBVIOUS
<1>2. m.snap = log[s] /\ m.comp = k /\ m.rows = RowCount[Rows(s)] /\ m.fails = FailCount[k][Rows(s)]
      /\ m.files = FilesIn(ManifestsAt(s))
    BY <1>1 DEF Validated
<1>3. m.decided = Guarantee[k][Rows(s)]
    BY <1>1, Zenon DEF Validated
<1>4. s \in 1 .. s /\ (s + 1) .. s = {}
    OBVIOUS
<1>5. Decided(k, m.decided, s)
  <2> DEFINE Apart(j) == \A n \in (j + 1) .. s : kind[log[n]] \in {"append", "rewrite"}
  <2>1. Apart(s)
      BY <1>4
  <2>2. \E j \in 1 .. s : m.decided = Guarantee[k][Rows(j)] /\ Apart(j)
    <3> HIDE DEF Apart
    <3> QED BY <1>3, <1>4, <2>1, Zenon
  <2> QED BY <2>2, Zenon DEF Decided
<1> QED BY <1>1, <1>2, <1>5 DEF DescAt

(***************************************************************************)
(* The tasks.                                                              *)
(***************************************************************************)
\* The walk back ends where facts are known, where a write replaced everything, or
\* before the first snapshot (Engine::iceberg_facts).
LEMMA WalkKnows ==
    ASSUME IInv, FactsInv, NEW t \in Tasks, t.target \in 1 .. Len(log), t.contract \in Contracts
    PROVE  KnowsOK(Walk(t))
<1> DEFINE s == t.target
           Z == {j \in 0 .. s : StopsAt(t.contract, t.md, j)}
           j == WalkEnd(t.contract, t.md, s)
<1>1. s \in Nat /\ Len(log) \in Nat /\ s <= Len(log) /\ s >= 1
    BY DEF IInv, WType, TypeOK
<1>2. PICK i \in 0 .. s : (i = 0 \/ i \in Z) /\ \A n \in (i + 1) .. s : n \notin Z
    BY <1>1, LastStop
<1>3. i = 0 \/ StopsAt(t.contract, t.md, i)
    BY <1>2
<1>4. \A n \in (i + 1) .. s : ~StopsAt(t.contract, t.md, n)
    BY <1>1, <1>2
<1>5. j \in 0 .. s /\ (j = 0 \/ StopsAt(t.contract, t.md, j))
  <2> DEFINE Q(n) == (n = 0 \/ StopsAt(t.contract, t.md, n))
                       /\ \A m \in (n + 1) .. s : ~StopsAt(t.contract, t.md, m)
  <2>1. \E n \in 0 .. s : Q(n)
      BY <1>3, <1>4
  <2>2. j = CHOOSE n \in 0 .. s : Q(n)
      BY DEF WalkEnd
  <2>3. j \in 0 .. s /\ Q(j)
    <3> HIDE DEF Q, j
    <3> QED BY <2>1, <2>2, Zenon
  <2> HIDE DEF j
  <2> QED BY <2>3 DEF Q
<1> DEFINE found == j # 0 /\ j \in t.md /\ facts[t.contract][log[j]] # None
           lost  == j # 0 /\ ~found /\ (j \notin t.md \/ wfacts[log[j]][t.contract] = None)
<1>6. Walk(t) = IF found THEN [t EXCEPT !.stage = "replay", !.next = j + 1,
                                        !.known = facts[t.contract][log[j]]]
                ELSE IF lost THEN [t EXCEPT !.stage = "unknown", !.next = 0, !.known = None]
                ELSE [t EXCEPT !.stage = "replay", !.next = IF j = 0 THEN 1 ELSE j, !.known = None]
    BY DEF Walk
<1> HIDE DEF j
<1>7. CASE found
  <2>1. PICK m : m = facts[t.contract][log[j]]
      OBVIOUS
  <2>2. m # None /\ DescAt(m, j)
    <3>1. j \in 1 .. Len(log)
        BY <1>1, <1>5, <1>7
    <3> QED BY <1>7, <2>1, <3>1 DEF FactsInv
  <2>3. Walk(t) = [t EXCEPT !.stage = "replay", !.next = j + 1, !.known = m]
      BY <1>6, <1>7, <2>1
  <2>4. Walk(t).stage = "replay" /\ Walk(t).next = j + 1 /\ Walk(t).known = m
      BY <2>3 DEF Tasks
  <2>5. j + 1 > 1 /\ (j + 1) - 1 = j
      BY <1>1, <1>5, <1>7
  <2> QED BY <2>2, <2>4, <2>5 DEF KnowsOK
<1>8. CASE ~found /\ lost
  <2>1. Walk(t).stage = "unknown"
      BY <1>6, <1>8 DEF Tasks
  <2> QED BY <2>1 DEF KnowsOK
<1>9. CASE ~found /\ ~lost
  <2>1. PICK n : n = IF j = 0 THEN 1 ELSE j
      OBVIOUS
  <2>2. n = 1 \/ (n <= t.target /\ kind[log[n]] = "overwrite")
    <3>1. j = 0 \/ kind[log[j]] = "overwrite"
        BY <1>5, <1>9 DEF StopsAt
    <3> QED BY <1>1, <1>5, <2>1, <3>1
  <2>3. Walk(t) = [t EXCEPT !.stage = "replay", !.next = n, !.known = None]
    <3> HIDE DEF found, lost
    <3> QED BY <1>6, <1>9, <2>1
  <2>4. Walk(t).stage = "replay" /\ Walk(t).next = n /\ Walk(t).known = None /\ Walk(t).target = t.target
      BY <2>3 DEF Tasks
  <2> QED BY <2>2, <2>4 DEF KnowsOK
<1> QED BY <1>7, <1>8, <1>9

\* Facts that are computed are those of the snapshot asked for.
LEMMA ComputedKnows ==
    ASSUME FInv, NEW p \in Procs, Computed(task[p])
    PROVE  task[p].target \in 1 .. Len(log) /\ DescAt(task[p].known, task[p].target)
<1> DEFINE t == task[p]
<1>1. t.stage = "replay" /\ t.next > t.target
    BY DEF Computed
<1>2. t.target \in 1 .. Len(log) /\ t.next \in 1 .. (t.target + 1) /\ Len(log) \in Nat
  <2>1. TaskOK(p, t) /\ Len(log) \in Nat
      BY DEF FInv, IInv, WType, TaskInv, TypeOK
  <2> QED BY <1>1, <2>1 DEF TaskOK
<1>3. KnowsOK(t)
    BY DEF FInv, KnowsInv
<1> HIDE DEF t
<1>4. t.next = t.target + 1 /\ t.next # 1 /\ ~(t.next <= t.target) /\ t.next - 1 = t.target
    BY <1>1, <1>2
<1>5. DescAt(t.known, t.next - 1)
    BY <1>1, <1>3, <1>4 DEF KnowsOK
<1> QED BY <1>2, <1>4, <1>5 DEF t

\* One snapshot's facts are computed and saved (Engine::iceberg_facts).
LEMMA ReplayFacts ==
    ASSUME FInv, IInv', NEW p \in Procs, Replay(p)
    PROVE  FInv'
<1> DEFINE t == task[p]
           m == AfterWrite(t.comp, t.known, log[t.next])
           a == Answer(t.comp, t.known, log[t.next], t.contract)
<1>1. IInv /\ TypeOK /\ t \in Tasks /\ TaskOK(p, t) /\ t.stage = "replay" /\ t.next <= t.target /\ KnowsOK(t)
    BY DEF FInv, IInv, WType, TypeOK, TaskInv, KnowsInv, Replay
<1>2. /\ t.contract \in Contracts /\ t.comp \in Comps /\ t.known \in Manifest \cup {None}
      /\ t.next \in Nat /\ t.target \in 1 .. Len(log) /\ Len(log) \in Nat
      /\ t.next \in 1 .. Len(log)
  <2>1. t.contract \in Contracts /\ t.comp \in Comps /\ t.target \in 1 .. Len(log)
        /\ t.next \in 1 .. (t.target + 1)
      BY <1>1 DEF TaskOK
  <2>2. t.known \in Manifest \cup {None} /\ t.next \in Nat /\ Len(log) \in Nat
      BY <1>1 DEF Tasks, TypeOK
  <2> QED BY <1>1, <2>1, <2>2
<1>3. UNCHANGED <<log, list, files, deletes, holds, kind, cached>>
    BY DEF Replay, engineVars, tableVars, writeVars
<1>4. CASE a = "known"
  <2>1. facts' = [facts EXCEPT ![t.contract][log[t.next]] = m]
        /\ task' = [task EXCEPT ![p].known = m, ![p].next = @ + 1]
      BY <1>4 DEF Replay
  <2>2. DescAt(m, t.next)
    <3>1. \/ t.known = None /\ (t.next = 1 \/ kind[log[t.next]] = "overwrite")
          \/ t.known # None /\ t.next > 1 /\ DescAt(t.known, t.next - 1)
        BY <1>1 DEF KnowsOK
    <3> HIDE DEF t
    <3> QED BY <1>1, <1>2, <1>4, <3>1, AfterWriteDesc
  <2>3. m \in Manifest
    <3>1. log[t.next] \in Writes
        BY <1>1, <1>2 DEF TypeOK
    <3>2. base[log[t.next]] \in 0 .. Len(log)
        BY <1>1, <3>1 DEF IInv, WType, StandInv, StandOK
    <3> QED BY <1>1, <1>2, <3>1, <3>2, AfterWriteType
  <2> DEFINE u == Knowing(t, m, t.next + 1)
  <2> HIDE DEF m
  <2>4. task' = [task EXCEPT ![p] = u]
      BY <2>1, <1>1 DEF TypeOK, Tasks, Knowing
  <2>5. u.stage = "replay" /\ u.next = t.next + 1 /\ u.known = m
    <3>1. t.next + 1 \in Nat
        BY <1>2
    <3> QED BY <1>1, <2>3, <3>1, KnowingType
  <2> HIDE DEF u
  <2>6. KnowsOK(u)
    <3>1. u.next > 1 /\ u.next - 1 = t.next /\ u.known # None
        BY <1>2, <2>3, <2>5, NoneAssumption
    <3> QED BY <2>2, <2>5, <3>1 DEF KnowsOK
  <2>7. \A q \in Procs : task'[q] = task[q] \/ KnowsOK(task'[q])
      BY <1>1, <2>4, <2>6 DEF TypeOK
  <2>8. ASSUME NEW c \in Contracts, NEW w \in Writes
        PROVE  \/ facts'[c][w] = facts[c][w]
               \/ \E i \in 1 .. Len(log) : w = log[i] /\ DescAt(facts'[c][w], i)
    <3>1. CASE c = t.contract /\ w = log[t.next]
      <4>1. facts'[c][w] = m
          BY <1>1, <2>1, <3>1 DEF TypeOK
      <4> QED BY <1>2, <2>2, <3>1, <4>1
    <3>2. CASE ~(c = t.contract /\ w = log[t.next])
      <4>1. facts'[c][w] = facts[c][w]
          BY <1>1, <2>1, <3>2 DEF TypeOK
      <4> QED BY <4>1
    <3> QED BY <3>1, <3>2
  <2>9. \A c \in Contracts : cached'[c] \in {cached[c], None} \/ \E i \in 1 .. Len(log) : DescAt(cached'[c], i)
      BY <1>3
  <2> QED BY <1>3, <2>7, <2>8, <2>9, FactsStep
<1>5. CASE a # "known"
  <2>1. facts' = facts /\ task' = [task EXCEPT ![p].stage = a]
      BY <1>5 DEF Replay
  <2>2. a \in {"unknown", "err"}
      BY <1>5 DEF Answer
  <2> HIDE DEF a
  <2>3. KnowsOK(task'[p]) /\ \A q \in Procs \ {p} : task'[q] = task[q]
    <3>1. task'[p].stage = a /\ \A q \in Procs \ {p} : task'[q] = task[q]
        BY <1>1, <2>1 DEF TypeOK, Tasks
    <3> QED BY <2>2, <3>1 DEF KnowsOK
  <2>4. \A q \in Procs : task'[q] = task[q] \/ KnowsOK(task'[q])
      BY <2>3
  <2>5. \A c \in Contracts, w \in Writes :
               \/ facts'[c][w] = facts[c][w]
               \/ \E i \in 1 .. Len(log) : w = log[i] /\ DescAt(facts'[c][w], i)
      BY <2>1
  <2>6. \A c \in Contracts : cached'[c] \in {cached[c], None} \/ \E i \in 1 .. Len(log) : DescAt(cached'[c], i)
      BY <1>3
  <2> QED BY <1>3, <2>4, <2>5, <2>6, FactsStep
<1> QED BY <1>4, <1>5

\* A task takes a step that records nothing; the engine may cache what it knows.
LEMMA TaskFacts ==
    ASSUME FInv, IInv', UNCHANGED <<log, list, files, deletes, holds, kind, facts>>,
           NEW p \in Procs, NEW u, KnowsOK(u), task' = [task EXCEPT ![p] = u],
           \/ cached' = cached
           \/ \E c \in Contracts : \E m : /\ cached' = [cached EXCEPT ![c] = m]
                                          /\ m = None \/ \E i \in 1 .. Len(log) : DescAt(m, i)
    PROVE  FInv'
<1>1. TypeOK
    BY DEF FInv, IInv, WType
<1>2. \A q \in Procs : task'[q] = task[q] \/ KnowsOK(task'[q])
    BY <1>1 DEF TypeOK
<1>3. \A c \in Contracts, w \in Writes :
               \/ facts'[c][w] = facts[c][w]
               \/ \E i \in 1 .. Len(log) : w = log[i] /\ DescAt(facts'[c][w], i)
    OBVIOUS
<1>4. \A c \in Contracts : cached'[c] \in {cached[c], None} \/ \E i \in 1 .. Len(log) : DescAt(cached'[c], i)
  <2> SUFFICES ASSUME NEW d \in Contracts
               PROVE  cached'[d] \in {cached[d], None} \/ \E i \in 1 .. Len(log) : DescAt(cached'[d], i)
      OBVIOUS
  <2>1. CASE cached' = cached
      BY <2>1
  <2>2. ASSUME NEW c \in Contracts, NEW m, cached' = [cached EXCEPT ![c] = m],
               m = None \/ \E i \in 1 .. Len(log) : DescAt(m, i)
        PROVE  cached'[d] \in {cached[d], None} \/ \E i \in 1 .. Len(log) : DescAt(cached'[d], i)
    <3>1. cached'[d] = IF d = c THEN m ELSE cached[d]
        BY <1>1, <2>2 DEF TypeOK
    <3> QED BY <2>2, <3>1
  <2> QED BY <2>1, <2>2
<1> QED BY <1>2, <1>3, <1>4, FactsStep

\* A write records the facts of its snapshot for each contract (Engine::publish_write).
LEMMA RecordFacts ==
    ASSUME FInv, IInv', NEW w \in Writes, Recorded(w) \/ \E c \in Contracts : RecordNext(w, c)
    PROVE  FInv'
<1> DEFINE t == task[w]
<1>1. w \in Procs /\ IInv /\ FactsInv /\ TypeOK /\ t \in Tasks /\ TaskOK(w, t)
    BY DEF FInv, IInv, WType, TypeOK, TaskInv, Procs
<1>2. UNCHANGED <<log, list, files, deletes, holds, kind, facts>>
    BY DEF Recorded, RecordNext, tableVars, factVars, writeVars
<1>3. ASSUME NEW c \in Contracts, RecordNext(w, c)
      PROVE  FInv'
  <2> DEFINE u == ForContract(t, c, wfacts[w][c], t.todo \ {c})
  <2>1. t.stage = "next"
      BY <1>3 DEF RecordNext
  <2>2. pc[w] = "recording" /\ t.target \in 1 .. Len(log)
      BY <1>1, <2>1 DEF TaskOK
  <2>3. wfacts[w][c] \in Comps
      BY <1>1, <2>2 DEF IInv, WType, StandInv, StandOK
  <2>4. t.todo \ {c} \in SUBSET Contracts
      BY <1>1 DEF Tasks
  <2>5. u \in Tasks /\ u.contract = c /\ u.target = t.target
      BY <1>1, <2>3, <2>4, ForContractType
  <2>6. task' = [task EXCEPT ![w] = Walk(u)] /\ cached' = cached
      BY <1>3 DEF RecordNext, ForContract, engineVars
  <2> HIDE DEF u
  <2>7. KnowsOK(Walk(u))
      BY <1>1, <2>2, <2>5, WalkKnows
  <2> QED BY <1>1, <1>2, <2>6, <2>7, TaskFacts
<1>4. CASE Recorded(w)
  <2>1. Ended(t)
      BY <1>4 DEF Recorded
  <2>2. t.contract \in Contracts
      BY <1>1, <2>1 DEF Ended, Computed, TaskOK
  <2>3. PICK m : m = (IF Computed(t) THEN t.known ELSE None)
      OBVIOUS
  <2>4. cached' = [cached EXCEPT ![t.contract] = m]
      BY <1>4, <2>3 DEF Recorded
  <2>5. m = None \/ \E i \in 1 .. Len(log) : DescAt(m, i)
      BY <1>1, <2>3, ComputedKnows
  <2>6. PICK u : task' = [task EXCEPT ![w] = u] /\ u.stage \in {"idle", "next"}
    <3>1. CASE t.todo = {}
        BY <1>4, <3>1, IdleType DEF Recorded
    <3>2. CASE t.todo # {}
      <4>1. task' = [task EXCEPT ![w] = AtStage(t, "next")]
          BY <1>1, <1>4, <3>2 DEF Recorded, AtStage, TypeOK, Tasks
      <4>2. AtStage(t, "next").stage = "next"
          BY <1>1, AtStageType DEF Stages
      <4> QED BY <4>1, <4>2
    <3> QED BY <3>1, <3>2
  <2>7. KnowsOK(u)
      BY <2>6 DEF KnowsOK
  <2>8. \E c \in Contracts : \E n : /\ cached' = [cached EXCEPT ![c] = n]
                                    /\ n = None \/ \E i \in 1 .. Len(log) : DescAt(n, i)
      BY <2>2, <2>4, <2>5
  <2> QED BY <1>1, <1>2, <2>6, <2>7, <2>8, TaskFacts
<1> QED BY <1>3, <1>4

\* A reader begins (ensure_manifest, ensure_manifest_as_of, validate).
LEMMA ReaderFacts ==
    ASSUME FInv, IInv', NEW r \in Readers,
           \/ \E c \in Contracts : EnsureManifest(r, c) \/ Validate(r, c)
           \/ \E c \in Contracts, s \in live : EnsureManifestAsOf(r, c, s)
    PROVE  FInv'
<1>1. r \in Procs /\ IInv /\ FactsInv /\ TypeOK /\ Len(log) \in Nat /\ Current = Len(log)
      /\ live \subseteq 1 .. Len(log)
  <2>1. IInv /\ FactsInv /\ TypeOK
      BY DEF FInv, IInv, WType
  <2>2. Len(log) \in Nat /\ live \subseteq 1 .. Len(log)
      BY <2>1 DEF TypeOK
  <2> QED BY <2>1, <2>2 DEF Procs, Current
<1>2. UNCHANGED <<log, list, files, deletes, holds, kind, facts>>
    BY DEF EnsureManifest, Validate, EnsureManifestAsOf, Start, tableVars, factVars, writeVars
<1>3. ASSUME NEW u, KnowsOK(u), Start(r, u)
      PROVE  FInv'
  <2>1. task' = [task EXCEPT ![r] = u] /\ cached' = cached
      BY <1>3 DEF Start, engineVars
  <2> QED BY <1>1, <1>2, <1>3, <2>1, TaskFacts
<1>4. ASSUME NEW c \in Contracts, NEW u \in {"current", "asof"}, NEW s \in 1 .. Len(log)
      PROVE  KnowsOK(Walk(Asked(c, u, s)))
  <2> DEFINE t == Asked(c, u, s)
  <2>1. s \in Nat
      BY <1>1
  <2>2. t \in Tasks /\ t.contract = c /\ t.target = s
      BY <1>1, <2>1, AskedType
  <2> HIDE DEF t
  <2>3. KnowsOK(Walk(t))
      BY <1>1, <2>2, WalkKnows
  <2> QED BY <2>3 DEF t
<1>5. ASSUME NEW c \in Contracts, EnsureManifest(r, c)
      PROVE  FInv'
  <2>1. CASE Current # 0 /\ Start(r, Walk(Asked(c, "current", Current)))
    <3>1. Current \in 1 .. Len(log)
        BY <1>1, <2>1
    <3> QED BY <1>3, <1>4, <2>1, <3>1
  <2>2. CASE cached' = [cached EXCEPT ![c] = None] /\ UNCHANGED task
    <3>1. task' = [task EXCEPT ![r] = task[r]] /\ KnowsOK(task[r])
        BY <1>1, <2>2 DEF TypeOK, FInv, KnowsInv
    <3>2. PICK u : u = task[r]
        OBVIOUS
    <3>3. \E d \in Contracts : \E n : /\ cached' = [cached EXCEPT ![d] = n]
                                      /\ n = None \/ \E i \in 1 .. Len(log) : DescAt(n, i)
        BY <2>2
    <3> QED BY <1>1, <1>2, <3>1, <3>2, <3>3, TaskFacts
  <2> QED BY <1>5, <2>1, <2>2 DEF EnsureManifest
<1>6. ASSUME NEW c \in Contracts, Validate(r, c)
      PROVE  FInv'
  <2> DEFINE t == Asked(c, "validate", 0)
             u == AtStage(t, "unknown")
  <2>1. t \in Tasks
      BY <1>1, AskedType
  <2>2. Start(r, u)
      BY <1>6 DEF Validate, AtStage
  <2> HIDE DEF t
  <2>3. u.stage = "unknown"
      BY <2>1, AtStageType DEF Stages
  <2> HIDE DEF u
  <2>4. KnowsOK(u)
      BY <2>3 DEF KnowsOK
  <2> QED BY <1>3, <2>2, <2>4
<1>7. ASSUME NEW c \in Contracts, NEW s \in live, EnsureManifestAsOf(r, c, s)
      PROVE  FInv'
  <2>1. s \in 1 .. Len(log) /\ Start(r, Walk(Asked(c, "asof", s)))
      BY <1>1, <1>7 DEF EnsureManifestAsOf
  <2> QED BY <1>3, <1>4, <2>1
<1> QED BY <1>5, <1>6, <1>7

\* A reader goes on: it is answered or fails, scans, saves, or its client goes away
\* (Engine::ensure_manifest, refresh).
LEMMA ReadFacts ==
    ASSUME FInv, IInv', NEW r \in Readers, Answered(r) \/ Failed(r) \/ Scan(r) \/ Save(r) \/ Cancel(r)
    PROVE  FInv'
<1> DEFINE t == task[r]
<1>1. r \in Procs /\ IInv /\ TypeOK /\ t \in Tasks /\ TaskOK(r, t) /\ KnowsOK(t)
    BY DEF FInv, IInv, WType, TypeOK, TaskInv, KnowsInv, Procs
<1>2. Len(log) \in Nat /\ live \subseteq 1 .. Len(log) /\ Current = Len(log) /\ t.target \in Nat
    BY <1>1 DEF TypeOK, Current, Tasks
<1>3. KnowsOK(Idle)
    BY IdleType DEF KnowsOK
<1>4. UNCHANGED <<log, list, files, deletes, holds, kind>>
    BY DEF Answered, Failed, Scan, Save, Cancel, tableVars, writeVars
<1>5. CASE Answered(r)
  <2>1. t.contract \in Contracts /\ Computed(t)
      BY <1>1, <1>5 DEF Answered, Computed, TaskOK
  <2>2. t.target \in 1 .. Len(log) /\ DescAt(t.known, t.target)
      BY <1>1, <2>1, ComputedKnows
  <2>3. task' = [task EXCEPT ![r] = Idle] /\ facts' = facts
        /\ (cached' = cached \/ cached' = [cached EXCEPT ![t.contract] = t.known])
      BY <1>5 DEF Answered, factVars
  <2>4. \/ cached' = cached
        \/ \E c \in Contracts : \E m : /\ cached' = [cached EXCEPT ![c] = m]
                                       /\ m = None \/ \E i \in 1 .. Len(log) : DescAt(m, i)
      BY <2>1, <2>2, <2>3
  <2> QED BY <1>1, <1>3, <1>4, <2>3, <2>4, TaskFacts
<1>6. CASE Failed(r) \/ Cancel(r)
  <2>1. task' = [task EXCEPT ![r] = Idle] /\ facts' = facts /\ cached' = cached
      BY <1>6 DEF Failed, Cancel, factVars, engineVars
  <2> QED BY <1>1, <1>3, <1>4, <2>1, TaskFacts
<1>7. CASE Scan(r)
  <2> DEFINE s == IF t.use = "validate" THEN Current ELSE t.target
             k == comp[t.contract]
             u == IF s \in live THEN Scanned(t, s, k, Validated(k, s)) ELSE AtStage(t, "err")
  <2>1. t.stage = "unknown" /\ facts' = facts /\ cached' = cached
      BY <1>7 DEF Scan, factVars, engineVars
  <2>2. t.contract \in Contracts /\ k \in Comps
      BY <1>1, <2>1 DEF TaskOK, TypeOK
  <2>3. task' = [task EXCEPT ![r] = u]
      BY <1>7 DEF Scan, Scanned, AtStage
  <2>4. s \in Nat /\ (s \in live => s \in 1 .. Len(log) /\ s # 0)
      BY <1>2
  <2> HIDE DEF s, k
  <2>5. CASE s \in live
    <3>1. Validated(k, s) \in Manifest /\ DescAt(Validated(k, s), s)
        BY <1>1, <2>2, <2>4, <2>5, ValidatedType, ValidatedDesc
    <3>2. u = Scanned(t, s, k, Validated(k, s))
        BY <2>5
    <3>3. u.stage = "scanned" /\ u.target = s /\ u.known = Validated(k, s)
        BY <1>1, <2>2, <2>4, <3>1, <3>2, ScannedType
    <3> HIDE DEF u
    <3>4. KnowsOK(u)
        BY <3>1, <3>3 DEF KnowsOK
    <3> QED BY <1>1, <1>4, <2>1, <2>3, <3>4, TaskFacts
  <2>6. CASE s \notin live
    <3>1. u.stage = "err"
        BY <1>1, <2>6, AtStageType DEF Stages
    <3> HIDE DEF u
    <3>2. KnowsOK(u)
        BY <3>1 DEF KnowsOK
    <3> QED BY <1>1, <1>4, <2>1, <2>3, <3>2, TaskFacts
  <2> QED BY <2>5, <2>6
<1>8. CASE Save(r)
  <2>1. t.stage = "scanned" /\ task' = [task EXCEPT ![r] = Idle]
      BY <1>8 DEF Save
  <2>2. PICK c \in Contracts, s \in 1 .. Len(log) : c = t.contract /\ s = t.target /\ DescAt(t.known, s)
      BY <1>1, <2>1 DEF TaskOK, KnowsOK
  <2>3. PICK m : m = t.known /\ DescAt(m, s)
      BY <2>2
  <2>4. facts' = [facts EXCEPT ![c][log[s]] = m] \/ facts' = facts
      BY <1>8, <2>2, <2>3 DEF Save
  <2>5. cached' = [cached EXCEPT ![c] = m] \/ cached' = cached
      BY <1>8, <2>2, <2>3 DEF Save
  <2>6. ASSUME NEW d \in Contracts, NEW w \in Writes
        PROVE  \/ facts'[d][w] = facts[d][w]
               \/ \E i \in 1 .. Len(log) : w = log[i] /\ DescAt(facts'[d][w], i)
    <3>1. CASE facts' = facts
        BY <3>1
    <3>2. CASE facts' = [facts EXCEPT ![c][log[s]] = m]
      <4>1. facts'[d][w] = IF d = c /\ w = log[s] THEN m ELSE facts[d][w]
          BY <1>1, <3>2 DEF TypeOK
      <4> QED BY <2>3, <4>1
    <3> QED BY <2>4, <3>1, <3>2
  <2>7. ASSUME NEW d \in Contracts
        PROVE  cached'[d] \in {cached[d], None} \/ \E i \in 1 .. Len(log) : DescAt(cached'[d], i)
    <3>1. cached'[d] = cached[d] \/ cached'[d] = m
        BY <1>1, <2>5 DEF TypeOK
    <3> QED BY <2>3, <3>1
  <2>8. \A q \in Procs : task'[q] = task[q] \/ KnowsOK(task'[q])
      BY <1>1, <1>3, <2>1 DEF TypeOK
  <2> QED BY <1>4, <2>6, <2>7, <2>8, FactsStep
<1> QED BY <1>5, <1>6, <1>7, <1>8

(***************************************************************************)
(* The invariant, and what it gives.                                       *)
(***************************************************************************)
\* A table just created has no snapshot, no facts and no task.
LEMMA FInvInit == Init => FInv
<1> SUFFICES ASSUME Init PROVE FInv
    OBVIOUS
<1>1. IInv
    BY IInvInit
<1>2. FactsInv /\ CachedInv
    BY DEF Init, FactsInv, CachedInv, Committed
<1>3. KnowsInv
    BY IdleType DEF Init, KnowsInv, KnowsOK
<1> QED BY <1>1, <1>2, <1>3 DEF FInv

\* Every step of writers, readers, maintenance and other engines keeps it.
LEMMA FInvStep ==
    ASSUME FInv, [Next]_vars
    PROVE  FInv'
<1>0. IInv /\ TypeOK /\ Len(log) \in Nat
  <2>1. IInv /\ TypeOK
      BY DEF FInv, IInv, WType
  <2>2. Len(log) \in Nat
      BY <2>1 DEF TypeOK
  <2> QED BY <2>1, <2>2
<1>1. IInv' /\ Kept
    BY <1>0, StepKeeps
<1>2. ASSUME Len(log) <= Len(log'), UNCHANGED <<facts, cached>>,
             \A p \in Procs : task'[p] = task[p] \/ task'[p].stage \in {"idle", "next"}
      PROVE  FInv'
    BY <1>1, <1>2, FactsFrame
<1>3. ASSUME UNCHANGED <<log, facts, cached, task>>
      PROVE  FInv'
    BY <1>0, <1>2, <1>3
<1>4. ASSUME NEW w \in Writes, Crash(w)
      PROVE  FInv'
  <2>1. UNCHANGED <<log, facts, cached>> /\ task' = [task EXCEPT ![w] = Idle]
      BY <1>4 DEF Crash, tableVars, factVars, engineVars
  <2>2. \A p \in Procs : task'[p] = task[p] \/ task'[p] = Idle
      BY <1>0, <2>1 DEF TypeOK
  <2> QED BY <1>0, <1>2, <2>1, <2>2, IdleType
<1>5. ASSUME NEW w \in Writes, Commit(w)
      PROVE  FInv'
  <2> DEFINE u == [Idle EXCEPT !.stage = "next", !.target = Len(log) + 1, !.md = live', !.todo = Contracts]
  <2>1. /\ log' = Append(log, w) /\ UNCHANGED <<facts, cached>>
        /\ task' = [task EXCEPT ![w] = u] \/ task' = task
      BY <1>5 DEF Commit, Push, factVars, engineVars
  <2>2. Len(log) <= Len(log')
      BY <1>0, <2>1 DEF TypeOK
  <2>3. u.stage = "next"
      BY DEF Idle
  <2> HIDE DEF u
  <2>4. \A p \in Procs : task'[p] = task[p] \/ task'[p] = u
      BY <1>0, <2>1 DEF TypeOK
  <2> QED BY <1>2, <2>1, <2>2, <2>3, <2>4
<1>6. ASSUME NEW w \in Writes, NEW M, NEW F, NEW H, NEW D, Foreign(w, M, F, H, D)
      PROVE  FInv'
  <2>1. log' = Append(log, w) /\ UNCHANGED <<facts, cached, task>>
      BY <1>6 DEF Foreign, Push, factVars, engineVars
  <2>2. Len(log) <= Len(log')
      BY <1>0, <2>1 DEF TypeOK
  <2> QED BY <1>2, <2>1, <2>2
<1>7. CASE Outside
  <2>1. ASSUME NEW w \in Writes, ForeignAppend(w) \/ ForeignReplace(w) \/ ForeignMerge(w)
        PROVE  FInv'
      BY <1>6, <2>1 DEF ForeignAppend, ForeignReplace, ForeignMerge
  <2>2. ASSUME NEW w \in Writes, NEW f \in Writes, NEW b \in Writes, ForeignDelete(w, f, b)
        PROVE  FInv'
      BY <1>6, <2>2 DEF ForeignDelete
  <2>3. ASSUME NEW s \in live, Expire(s)
        PROVE  FInv'
      BY <1>3, <2>3 DEF Expire, factVars, engineVars
  <2> QED BY <1>7, <2>1, <2>2, <2>3 DEF Outside
<1>8. ASSUME NEW w \in Writes, Finish(w) \/ Refused(w) \/ Attempt(w) \/ Fail(w)
      PROVE  FInv'
  <2>1. UNCHANGED <<log, facts, cached, task>>
      BY <1>8 DEF Finish, Refused, Attempt, Fail, tableVars, factVars, engineVars
  <2> QED BY <1>3, <2>1
<1>9. CASE \/ \E w \in Writes, c \in Contracts, k \in Kinds, p \in Policies : BeginWrite(w, c, k, p)
           \/ \E w \in Writes, c \in Contracts : Compact(w, c)
           \/ \E c \in Contracts, k \in Comps : Register(c, k)
           \/ UNCHANGED vars
  <2>1. UNCHANGED <<log, facts, cached, task>>
      BY <1>9 DEF BeginWrite, Compact, Begin, Register, vars, tableVars, factVars, engineVars
  <2> QED BY <1>3, <2>1
<1>10. ASSUME NEW p \in Procs, Replay(p)
       PROVE  FInv'
    BY <1>1, <1>10, ReplayFacts
<1>11. ASSUME NEW w \in Writes, Recorded(w) \/ \E c \in Contracts : RecordNext(w, c)
       PROVE  FInv'
    BY <1>1, <1>11, RecordFacts
<1>12. ASSUME NEW r \in Readers,
              \/ \E c \in Contracts : EnsureManifest(r, c) \/ Validate(r, c)
              \/ \E c \in Contracts, s \in live : EnsureManifestAsOf(r, c, s)
       PROVE  FInv'
    BY <1>1, <1>12, ReaderFacts
<1>13. ASSUME NEW r \in Readers, Answered(r) \/ Failed(r) \/ Scan(r) \/ Save(r) \/ Cancel(r)
       PROVE  FInv'
    BY <1>1, <1>13, ReadFacts
<1>14. Writes \subseteq Procs /\ Readers \subseteq Procs
    BY DEF Procs
<1> QED BY <1>4, <1>5, <1>7, <1>8, <1>9, <1>10, <1>11, <1>12, <1>13, <1>14 DEF Next, Write, Read

\* A description of snapshot i is one of the snapshot it names.
LEMMA DescDescribes ==
    ASSUME IInv, NEW m, NEW i \in 1 .. Len(log), DescAt(m, i)
    PROVE  m.snap = log[i] /\ Describes(m)
<1>1. ManifestsAt(i) = list[log[i]] /\ Rows(i) = RowsIn(list[log[i]])
    BY DEF IInv, WType, TypeOK, ManifestsAt, Rows
<1>2. log[i] \in Committed
    BY DEF Committed
<1> QED BY <1>1, <1>2 DEF DescAt, Describes

\* The facts recorded for a snapshot, under every contract, are what a validation of the
\* whole snapshot counts, whatever writers, readers, crashes, expiries and registrations
\* did between the walk of Engine::iceberg_facts and each of its saves.
THEOREM FactsHold == Spec => []FactsDescribeTheirSnapshot
<1>1. FInv => FactsDescribeTheirSnapshot
  <2> SUFFICES ASSUME FInv, NEW c \in Contracts, NEW w \in Writes, facts[c][w] # None
               PROVE  facts[c][w].snap = w /\ Describes(facts[c][w])
      BY DEF FactsDescribeTheirSnapshot
  <2>1. PICK i \in 1 .. Len(log) : w = log[i]
      BY DEF FInv, FactsInv, Committed
  <2>2. DescAt(facts[c][w], i)
      BY <2>1 DEF FInv, FactsInv
  <2>3. PICK m : m = facts[c][w]
      OBVIOUS
  <2> QED BY <2>1, <2>2, <2>3, DescDescribes DEF FInv
<1> QED BY <1>1, FInvInit, FInvStep, PTL DEF Spec

\* The facts a read is answered from describe the snapshot they name (iceberg_manifests),
\* though they are cached after the table has moved on.
THEOREM CachedFactsHold == Spec => []CachedFactsDescribeTheirSnapshot
<1>1. FInv => CachedFactsDescribeTheirSnapshot
  <2> SUFFICES ASSUME FInv, NEW c \in Contracts, cached[c] # None
               PROVE  Describes(cached[c])
      BY DEF CachedFactsDescribeTheirSnapshot
  <2>1. PICK m : m = cached[c]
      OBVIOUS
  <2>2. PICK i \in 1 .. Len(log) : DescAt(m, i)
      BY <2>1 DEF FInv, CachedInv
  <2> QED BY <2>1, <2>2, DescDescribes DEF FInv
<1> QED BY <1>1, FInvInit, FInvStep, PTL DEF Spec

\* A guarantee's decision that a snapshot's facts carry was made about its data or an
\* ancestor's that only appends and rewrites came after (facts::after_write).
THEOREM DecisionsHold == Spec => []DecisionsAreAboutTheData
<1>1. FInv => DecisionsAreAboutTheData
  <2> SUFFICES ASSUME FInv, NEW c \in Contracts, NEW i \in 1 .. Len(log), NEW m, m = facts[c][log[i]],
                      m # None, m.decided # None
               PROVE  \E j \in 1 .. i : /\ m.decided = Guarantee[m.comp][Rows(j)]
                                        /\ \A n \in (j + 1) .. i : kind[log[n]] \in {"append", "rewrite"}
      BY Zenon DEF DecisionsAreAboutTheData
  <2>1. Decided(m.comp, m.decided, i)
      BY DEF FInv, FactsInv, DescAt
  <2> QED BY <2>1, Zenon DEF Decided
<1> QED BY <1>1, FInvInit, FInvStep, PTL DEF Spec
=============================================================================

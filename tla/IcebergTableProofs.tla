------------------------- MODULE IcebergTableProofs -------------------------
(***************************************************************************)
(* IcebergTable for every set of writes, contracts, readers and retries:   *)
(* the state is well typed, reports are true, and the commit protocol      *)
(* implements AbstractTable.                                               *)
(***************************************************************************)
EXTENDS IcebergTable, FiniteSums

Own == {"append", "overwrite", "rewrite"}

(***************************************************************************)
(* What a write holds at each of its steps.                                *)
(***************************************************************************)
\* Where a write stands: committed or not, with the facts it stored before its commit.
StandOK(w) ==
    /\ pc[w] \in {"idle", "foreign"} => kind[w] = "none" /\ wfacts[w] = [c \in Contracts |-> None]
    /\ pc[w] \notin {"idle", "foreign"} =>
          kind[w] \in Own /\ by[w] \in [contract : Contracts, comp : Comps]
    /\ pc[w] \in {"ready", "attempt", "recording", "done"} => wfacts[w] \in [Contracts -> Comps]
    /\ w \in Committed => pc[w] \in {"recording", "done", "failed", "crashed", "foreign"}
    /\ w \in Committed /\ pc[w] # "foreign" => wfacts[w] \in [Contracts -> Comps]
    /\ pc[w] \in {"recording", "done", "foreign"} => w \in Committed
    /\ base[w] \in 0 .. Len(log) /\ seen[w] \in 0 .. Len(log)

StandInv == \A w \in Writes : StandOK(w)

\* The state t of the task of p: of a write after its commit, or of a reader.
TaskOK(p, t) ==
    /\ t.stage \in {"replay", "unknown", "err", "scanned"} => t.contract \in Contracts /\ t.comp \in Comps
    /\ t.stage = "replay" => t.target \in 1 .. Len(log) /\ t.next \in 1 .. (t.target + 1)
    /\ t.stage = "scanned" => t.target \in 1 .. Len(log) /\ t.known \in Manifest
    /\ t.stage = "idle" => t = Idle
    /\ p \in Writes /\ t.stage # "idle" =>
          pc[p] = "recording" /\ t.target \in 1 .. Len(log) /\ t.stage # "scanned"
    /\ p \in Readers => t.stage # "next"

TaskInv == \A p \in Procs : TaskOK(p, task[p])

WType == TypeOK /\ StandInv /\ TaskInv

\* There is a last stop on the way back from s, 0 when there is no other: what the walk
\* of Engine::iceberg_facts ends at.
LEMMA LastStop ==
    ASSUME NEW Z, NEW s \in Nat
    PROVE  \E j \in 0 .. s : (j = 0 \/ j \in Z) /\ \A i \in (j + 1) .. s : i \notin Z
<1> DEFINE P(n) == \E j \in 0 .. n : (j = 0 \/ j \in Z) /\ \A i \in (j + 1) .. n : i \notin Z
           S == {n \in Nat : P(n)}
<1>1. 0 \in S
    OBVIOUS
<1>2. \A n \in Nat : n \in S => n + 1 \in S
  <2> SUFFICES ASSUME NEW n \in Nat, P(n) PROVE P(n + 1)
      OBVIOUS
  <2>1. CASE n + 1 \in Z
      BY <2>1
  <2>2. CASE n + 1 \notin Z
    <3>1. PICK j \in 0 .. n : (j = 0 \/ j \in Z) /\ \A i \in (j + 1) .. n : i \notin Z
        OBVIOUS
    <3>2. \A i \in (j + 1) .. (n + 1) : i \notin Z
        BY <2>2, <3>1
    <3> QED BY <3>1, <3>2
  <2> QED BY <2>1, <2>2
<1>3. Nat \subseteq S
  <2> HIDE DEF S
  <2> QED BY <1>1, <1>2, SetInduction
<1> QED BY <1>3

(***************************************************************************)
(* Types.                                                                  *)
(***************************************************************************)
\* The task that a task asked for starts from, and the empty one.
LEMMA IdleType == Idle \in Tasks /\ Idle.stage = "idle"
BY DEF Idle, Tasks, Stages

\* What the metadata lists of a snapshot there is are manifests of writes.
LEMMA ManifestsType ==
    ASSUME TypeOK, NEW s \in 0 .. Len(log)
    PROVE  ManifestsAt(s) \in SUBSET Writes /\ FilesIn(ManifestsAt(s)) \in SUBSET Writes
           /\ Rows(s) \in SUBSET Writes
<1>1. s # 0 => log[s] \in Writes
    BY DEF TypeOK
<1>2. ManifestsAt(s) \in SUBSET Writes
    BY <1>1 DEF TypeOK, ManifestsAt
<1> QED BY <1>2 DEF TypeOK, FilesIn, Rows, RowsIn

\* The counts a validation and a write make are numbers (Engine::write_facts, refresh).
LEMMA WriteFactsType ==
    ASSUME TypeOK, NEW w \in Writes, NEW k \in Comps
    PROVE  WriteFacts(w, k) \in Manifest
BY RowsAssumption, FailsAssumption DEF TypeOK, WriteFacts, Manifest

\* The facts a validation of the whole table finds are facts.
LEMMA ValidatedType ==
    ASSUME TypeOK, NEW s \in 1 .. Len(log), NEW k \in Comps
    PROVE  Validated(k, s) \in Manifest
<1>1. log[s] \in Writes /\ s \in 0 .. Len(log)
    BY DEF TypeOK
<1> QED BY <1>1, ManifestsType, RowsAssumption, FailsAssumption, GuaranteeAssumption
        DEF Validated, Manifest

\* after_write gives facts.
LEMMA AfterWriteType ==
    ASSUME TypeOK, NEW w \in Writes, NEW k \in Comps, NEW before \in Manifest \cup {None},
           base[w] \in 0 .. Len(log)
    PROVE  AfterWrite(k, before, w) \in Manifest
<1>1. WriteFacts(w, k) \in Manifest
    BY WriteFactsType
<1>2. Removed(w) \in SUBSET Writes
    BY ManifestsType DEF Removed
<1> DEFINE own == WriteFacts(w, k)
<1>3. CASE kind[w] = "overwrite" \/ before = None
    BY <1>1, <1>3 DEF AfterWrite
<1>4. CASE kind[w] = "append" /\ before # None
  <2>1. before \in Manifest /\ own \in Manifest
      BY <1>1, <1>4
  <2> DEFINE Sum(r, f, g, d) == [own EXCEPT !.rows = r, !.fails = f, !.files = g, !.decided = d]
  <2>2. AfterWrite(k, before, w) =
            Sum(before.rows + own.rows, before.fails + own.fails, before.files \cup own.files, before.decided)
      BY <1>4 DEF AfterWrite
  <2> HIDE DEF own
  <2>3. before.rows + own.rows \in Nat /\ before.fails + own.fails \in Nat
        /\ before.files \cup own.files \in SUBSET Writes
      BY <2>1 DEF Manifest
  <2>4. before.decided \in BOOLEAN \cup {None}
      BY <2>1, Zenon DEF Manifest
  <2>5. \A r \in Nat, f \in Nat, g \in SUBSET Writes, d \in BOOLEAN \cup {None} :
            Sum(r, f, g, d) \in Manifest
      BY <2>1 DEF Manifest
  <2> HIDE DEF Sum
  <2> QED BY <2>2, <2>3, <2>4, <2>5
<1>5. CASE kind[w] \notin {"overwrite", "append"} /\ before # None
  <2>1. AfterWrite(k, before, w) =
            [before EXCEPT !.snap = w, !.files = (before.files \ Removed(w)) \cup own.files]
      BY <1>5 DEF AfterWrite
  <2>2. before \in Manifest /\ own \in Manifest
      BY <1>1, <1>5
  <2> HIDE DEF own
  <2> QED BY <1>2, <2>1, <2>2 DEF Manifest
<1> QED BY <1>3, <1>4, <1>5

\* A write takes one step and no task changes but its own, which may end; what is
\* committed stays, with the snapshots of the metadata (Engine::finish_write, commit).
LEMMA TaskFrame ==
    ASSUME WType, Len(log) <= Len(log'), Len(log') \in Nat,
           \A p \in Procs : \/ task'[p] = task[p] /\ (p \in Writes /\ task[p].stage # "idle" => pc'[p] = pc[p])
                            \/ task'[p] = Idle
    PROVE  TaskInv'
<1>1. ASSUME NEW p \in Procs, task'[p] = Idle
      PROVE  task'[p].stage = "idle"
    BY <1>1, IdleType
<1>2. Len(log) \in Nat
    BY DEF WType, TypeOK
<1>3. \A n : n \in 1 .. Len(log) => n \in 1 .. Len(log')
    BY <1>2
<1> QED BY <1>1, <1>3 DEF WType, TaskInv, TaskOK

\* Engine::begin_write and compact.
LEMMA BeginType ==
    ASSUME WType, NEW w \in Writes, NEW c \in Contracts, NEW k \in Own, NEW p \in Policies,
           NEW rows \in SUBSET Writes, Begin(w, c, k, p, rows, Current)
    PROVE  WType'
<1> USE DEF WType
<1>1. TypeOK'
    BY SMTT(30) DEF Begin, TypeOK, PCs, Own, factVars, engineVars, Current
<1>2. Committed' = Committed /\ Len(log) \in Nat
    BY DEF Begin, Committed, TypeOK
<1>3. StandInv'
    BY <1>2 DEF Begin, TypeOK, StandInv, StandOK, Own, factVars, engineVars, Current
<1>4. TaskInv'
    BY TaskFrame DEF Begin, TaskInv, TaskOK, TypeOK
<1> QED BY <1>1, <1>3, <1>4

\* Engine::finish_write, up to the first attempt.
LEMMA FinishType ==
    ASSUME WType, NEW w \in Writes, Finish(w)
    PROVE  WType'
<1> USE DEF WType
<1>0. pc[w] = "writing" /\ by[w].contract \in Contracts /\ by[w].comp \in Comps
    BY DEF Finish, StandInv, StandOK
<1>1. PICK to \in {"refused", "ready", "conflict"} : pc' = [pc EXCEPT ![w] = to]
    BY DEF Finish
<1>2. /\ wfacts' = wfacts \/ \E g \in [Contracts -> Comps] : wfacts' = [wfacts EXCEPT ![w] = g]
      /\ to = "ready" => \E g \in [Contracts -> Comps] : wfacts' = [wfacts EXCEPT ![w] = g]
  <2>1. CASE wfacts' = wfacts /\ pc' = [pc EXCEPT ![w] = "refused"]
    <3>1. to = "refused"
        BY <2>1, <1>1 DEF TypeOK
    <3> QED BY <2>1, <3>1
  <2> DEFINE g == [c \in Contracts |-> IF c = by[w].contract THEN by[w].comp ELSE comp[c]]
  <2>2. CASE wfacts' = [wfacts EXCEPT ![w] = g]
    <3>1. g \in [Contracts -> Comps]
        BY <1>0 DEF TypeOK
    <3> HIDE DEF g
    <3> QED BY <2>2, <3>1
  <2>3. \/ wfacts' = wfacts /\ pc' = [pc EXCEPT ![w] = "refused"]
        \/ wfacts' = [wfacts EXCEPT ![w] = g]
      BY Zenon DEF Finish
  <2> HIDE DEF g
  <2> QED BY <2>1, <2>2, <2>3
<1>3. /\ UNCHANGED <<log, live, list, files, deletes, holds, facts, comp, cached, kind, by, policy, base,
                     seen, retried, task>>
    BY DEF Finish, tableVars, engineVars
<1>4. TypeOK'
  <2>1. \A g \in [Contracts -> Comps] : g \in [Contracts -> Comps \cup {None}]
      OBVIOUS
  <2>2. wfacts' = wfacts \/ \E g \in [Contracts -> Comps \cup {None}] : wfacts' = [wfacts EXCEPT ![w] = g]
      BY <1>2, <2>1
  <2>3. wfacts' \in [Writes -> [Contracts -> Comps \cup {None}]]
      BY <2>2 DEF TypeOK
  <2> QED BY <1>1, <1>3, <2>3 DEF TypeOK, PCs
<1>5. Committed' = Committed
    BY <1>3 DEF Committed
<1>6. StandInv'
    BY <1>0, <1>1, <1>2, <1>3, <1>5 DEF TypeOK, StandInv, StandOK
<1>7. TaskInv'
    BY <1>0, <1>1, <1>3, TaskFrame DEF TaskInv, TaskOK, TypeOK
<1> QED BY <1>4, <1>6, <1>7

\* An attempt, a refusal of the catalog, an error and a crash: nothing of the table changes.
LEMMA AttemptType ==
    ASSUME WType, NEW w \in Writes, Attempt(w) \/ Refused(w) \/ Fail(w) \/ Crash(w)
    PROVE  WType'
<1> USE DEF WType
<1>1. /\ UNCHANGED <<log, live, list, files, deletes, holds, facts, wfacts, comp, cached, kind, by, policy, base>>
      /\ pc[w] \in {"writing", "ready", "attempt", "recording"}
    BY DEF Attempt, Refused, Fail, Crash, tableVars, factVars, engineVars
<1>2. PICK to \in {"attempt", "conflict", "ready", "failed", "crashed"} :
          /\ pc' = [pc EXCEPT ![w] = to]
          /\ to \notin {"failed", "crashed"} => pc[w] \in {"ready", "attempt"}
          /\ to = "failed" => pc[w] \in {"writing", "ready", "attempt"}
    BY DEF Attempt, Refused, Fail, Crash
<1>3. PICK s \in 0 .. Len(log) : seen' = [seen EXCEPT ![w] = s]
  <2>1. seen' = [seen EXCEPT ![w] = 0] \/ seen' = [seen EXCEPT ![w] = Len(log)] \/ seen' = seen
      BY DEF Attempt, Refused, Fail, Crash, Current
  <2>2. seen = [seen EXCEPT ![w] = seen[w]] /\ seen[w] \in 0 .. Len(log) /\ Len(log) \in Nat
      BY DEF TypeOK, StandInv, StandOK
  <2> QED BY <2>1, <2>2
<1>4. retried' \in [Writes -> 0 .. NumRetries]
  <2>1. \E n \in 0 .. NumRetries : retried' = [retried EXCEPT ![w] = n] \/ retried' = retried
    <3>1. CASE Refused(w)
        BY <3>1, RetriesAssumption DEF TypeOK, Refused, MayRetry
    <3>2. CASE Attempt(w) \/ Fail(w) \/ Crash(w)
        BY <3>2, RetriesAssumption DEF Attempt, Fail, Crash
    <3> QED BY <3>1, <3>2
  <2> QED BY <2>1 DEF TypeOK
<1>5. \A p \in Procs : \/ (task'[p] = task[p] /\ (p = w => pc[w] # "recording"))
                          \/ task'[p] = Idle
  <2>1. (task' = task /\ pc[w] # "recording") \/ task' = [task EXCEPT ![w] = Idle]
      BY DEF Attempt, Refused, Fail, Crash
  <2>2. CASE task' = task /\ pc[w] # "recording"
      BY <2>2
  <2>3. CASE task' = [task EXCEPT ![w] = Idle]
    <3>1. \A p \in Procs : p # w => task'[p] = task[p]
        BY <2>3 DEF TypeOK
    <3>2. task'[w] = Idle
        BY <2>3 DEF TypeOK, Procs
    <3> QED BY <3>1, <3>2
  <2> QED BY <2>1, <2>2, <2>3
<1>6. task' \in [Procs -> Tasks]
  <2>1. task' = task \/ task' = [task EXCEPT ![w] = Idle]
      BY DEF Attempt, Refused, Fail, Crash
  <2> QED BY <2>1, IdleType DEF TypeOK
<1>7. TypeOK'
  <2>1. pc' \in [Writes -> PCs]
      BY <1>2 DEF TypeOK, PCs
  <2>2. s \in Nat
      BY <1>3
  <2>3. seen' \in [Writes -> Nat]
      BY <1>3, <2>2 DEF TypeOK
  <2> QED BY <1>1, <2>1, <2>3, <1>4, <1>6 DEF TypeOK
<1>8. Committed' = Committed
    BY <1>1 DEF Committed
<1>9. StandInv'
    BY <1>1, <1>2, <1>3, <1>8 DEF TypeOK, StandInv, StandOK
<1>10. TaskInv'
  <2>1. \A p \in Procs : p \in Writes /\ task[p].stage # "idle" => pc[p] = "recording"
      BY DEF TaskInv, TaskOK
  <2>2. Len(log) <= Len(log') /\ Len(log') \in Nat
      BY <1>1 DEF TypeOK
  <2>3. \A p \in Procs : p # w /\ p \in Writes => pc'[p] = pc[p]
      BY <1>2 DEF TypeOK
  <2>4. \A p \in Procs :
            \/ task'[p] = task[p] /\ (p \in Writes /\ task[p].stage # "idle" => pc'[p] = pc[p])
            \/ task'[p] = Idle
      BY <1>5, <2>1, <2>3
  <2> QED BY <2>2, <2>4, TaskFrame
<1> QED BY <1>7, <1>9, <1>10

\* A task that takes a step, and the facts it saves or caches.
LEMMA TaskStep ==
    ASSUME WType, NEW p \in Procs, NEW t \in Tasks, TaskOK(p, t), task' = [task EXCEPT ![p] = t],
           facts' \in [Contracts -> [Writes -> Manifest \cup {None}]],
           cached' \in [Contracts -> Manifest \cup {None}],
           UNCHANGED <<tableVars, wfacts, comp, writeVars>>
    PROVE  WType'
<1> USE DEF WType, tableVars, writeVars
<1>1. TypeOK'
    BY DEF TypeOK
<1>2. Committed' = Committed
    BY DEF Committed
<1>3. StandInv'
    BY <1>2 DEF StandInv, StandOK
<1>4. \A q \in Procs : task'[q] = IF q = p THEN t ELSE task[q]
    BY DEF TypeOK
<1>5. \A q \in Procs : TaskOK(q, task'[q])
    BY <1>4 DEF TaskInv
<1>6. \A q \in Procs : \A u : TaskOK(q, u) => TaskOK(q, u)'
    BY DEF TaskOK
<1>7. TaskInv'
    BY <1>5, <1>6 DEF TaskInv, Procs
<1> QED BY <1>1, <1>3, <1>7

\* The read half of iceberg_facts: where it ends, and what it leaves alone.
LEMMA WalkType ==
    ASSUME TypeOK, NEW t \in Tasks, t.target \in 1 .. Len(log), t.contract \in Contracts
    PROVE  /\ Walk(t) \in Tasks
           /\ Walk(t).stage \in {"replay", "unknown"}
           /\ Walk(t).contract = t.contract /\ Walk(t).comp = t.comp /\ Walk(t).target = t.target
           /\ Walk(t).stage = "replay" => Walk(t).next \in 1 .. (t.target + 1)
<1> DEFINE s == t.target
           Z == {j \in 0 .. s : StopsAt(t.contract, t.md, j)}
           j == WalkEnd(t.contract, t.md, s)
<1>1. s \in Nat /\ Len(log) \in Nat
    BY DEF TypeOK
<1>2. PICK i \in 0 .. s : (i = 0 \/ i \in Z) /\ \A n \in (i + 1) .. s : n \notin Z
    BY <1>1, LastStop
<1>3. i = 0 \/ StopsAt(t.contract, t.md, i)
    BY <1>2
<1>4. \A n \in (i + 1) .. s : ~StopsAt(t.contract, t.md, n)
    BY <1>1, <1>2
<1>5. j \in 0 .. s
  <2> DEFINE Q(n) == (n = 0 \/ StopsAt(t.contract, t.md, n))
                       /\ \A m \in (n + 1) .. s : ~StopsAt(t.contract, t.md, m)
  <2>1. \E n \in 0 .. s : Q(n)
      BY <1>3, <1>4
  <2>2. j = CHOOSE n \in 0 .. s : Q(n)
      BY DEF WalkEnd
  <2> HIDE DEF Q, j
  <2> QED BY <2>1, <2>2, Zenon
<1>6. j # 0 => facts[t.contract][log[j]] \in Manifest \cup {None}
  <2>1. log \in Seq(Writes) /\ facts \in [Contracts -> [Writes -> Manifest \cup {None}]]
      BY DEF TypeOK
  <2>2. facts[t.contract] \in [Writes -> Manifest \cup {None}]
      BY <2>1
  <2> HIDE DEF j
  <2>3. j # 0 => log[j] \in Writes
      BY <1>1, <1>5, <2>1
  <2> QED BY <2>2, <2>3
<1> DEFINE found == j # 0 /\ j \in t.md /\ facts[t.contract][log[j]] # None
           lost  == j # 0 /\ ~found /\ (j \notin t.md \/ wfacts[log[j]][t.contract] = None)
<1>7. Walk(t) = IF found THEN [t EXCEPT !.stage = "replay", !.next = j + 1,
                                        !.known = facts[t.contract][log[j]]]
                ELSE IF lost THEN [t EXCEPT !.stage = "unknown", !.next = 0, !.known = None]
                ELSE [t EXCEPT !.stage = "replay", !.next = IF j = 0 THEN 1 ELSE j, !.known = None]
    BY DEF Walk
<1>8. found => facts[t.contract][log[j]] \in Manifest \cup {None}
    BY <1>6
<1> DEFINE U(st, n, m) == [t EXCEPT !.stage = st, !.next = n, !.known = m]
<1>9. PICK st \in {"replay", "unknown"}, n \in Nat, m \in Manifest \cup {None} :
          Walk(t) = U(st, n, m) /\ (st = "replay" => n \in 1 .. (s + 1))
  <2> HIDE DEF j, found, lost, U
  <2>1. CASE found
    <3>1. Walk(t) = U("replay", j + 1, facts[t.contract][log[j]])
        BY <1>7, <2>1 DEF U
    <3>2. j + 1 \in Nat /\ j + 1 \in 1 .. (s + 1)
        BY <1>1, <1>5
    <3> QED BY <1>8, <2>1, <3>1, <3>2
  <2>2. CASE ~found /\ lost
    <3>1. Walk(t) = U("unknown", 0, None)
        BY <1>7, <2>2 DEF U
    <3> QED BY <3>1
  <2>3. CASE ~found /\ ~lost
    <3>1. Walk(t) = U("replay", IF j = 0 THEN 1 ELSE j, None)
        BY <1>7, <2>3 DEF U
    <3>2. (IF j = 0 THEN 1 ELSE j) \in Nat /\ (IF j = 0 THEN 1 ELSE j) \in 1 .. (s + 1)
        BY <1>1, <1>5
    <3> QED BY <3>1, <3>2
  <2> QED BY <2>1, <2>2, <2>3
<1>10. st \in Stages
    BY DEF Stages
<1>11. U(st, n, m) \in Tasks
    BY <1>10 DEF Tasks
<1>12. /\ U(st, n, m).stage = st /\ U(st, n, m).next = n
       /\ U(st, n, m).contract = t.contract /\ U(st, n, m).comp = t.comp /\ U(st, n, m).target = t.target
    BY DEF Tasks
<1> HIDE DEF U
<1> QED BY <1>9, <1>11, <1>12

\* The pointer of the table moves: the history grows by one snapshot.
LEMMA PushFacts ==
    ASSUME TypeOK, NEW w \in Writes, NEW M \in SUBSET Writes, Push(w, M)
    PROVE  /\ log' \in Seq(Writes) /\ Len(log) \in Nat /\ Len(log') = Len(log) + 1
           /\ \A i \in 1 .. Len(log) : log'[i] = log[i]
           /\ log'[Len(log) + 1] = w
           /\ live' \subseteq 1 .. Len(log')
           /\ list' \in [Writes -> SUBSET Writes]
           /\ Committed' = Committed \cup {w}
<1>1. log \in Seq(Writes) /\ Len(log) \in Nat /\ log' = Append(log, w)
    BY DEF TypeOK, Push
<1>2. log' \in Seq(Writes) /\ Len(log') = Len(log) + 1
      /\ (\A i \in 1 .. Len(log) : log'[i] = log[i]) /\ log'[Len(log) + 1] = w
    BY <1>1
<1>3. live' \subseteq 1 .. Len(log')
  <2>1. live' = live \cup {Len(log) + 1} /\ live \subseteq 1 .. Len(log)
      BY DEF TypeOK, Push
  <2>2. 1 .. Len(log') = 1 .. (Len(log) + 1)
      BY <1>2
  <2>3. \A n \in live : n \in 1 .. (Len(log) + 1)
      BY <1>1, <2>1
  <2>4. Len(log) + 1 \in 1 .. (Len(log) + 1)
      BY <1>1
  <2> QED BY <2>1, <2>2, <2>3, <2>4
<1>4. list' \in [Writes -> SUBSET Writes]
    BY DEF TypeOK, Push
<1>5. Committed' = Committed \cup {w}
  <2>1. Committed' = {log'[i] : i \in 1 .. (Len(log) + 1)}
      BY <1>2 DEF Committed
  <2>2. Committed' \subseteq Committed \cup {w}
      BY <1>1, <1>2, <2>1 DEF Committed
  <2>3. Committed \cup {w} \subseteq Committed'
      BY <1>1, <1>2, <2>1 DEF Committed
  <2> QED BY <2>2, <2>3
<1> QED BY <1>1, <1>2, <1>3, <1>4, <1>5

\* What an attempt would list are manifests of writes.
LEMMA NewListType ==
    ASSUME WType, NEW w \in Writes, pc[w] = "attempt"
    PROVE  NewList(w) \in SUBSET Writes
<1>1. seen[w] \in 0 .. Len(log) /\ base[w] \in 0 .. Len(log) /\ kind[w] \in Own /\ TypeOK
    BY DEF WType, StandInv, StandOK
<1>2. ManifestsAt(seen[w]) \in SUBSET Writes /\ ManifestsAt(base[w]) \in SUBSET Writes
    BY <1>1, ManifestsType
<1> QED BY <1>1, <1>2 DEF NewList, Own

\* The task a write has once it is committed (Engine::publish_write).
LEMMA NextTask ==
    ASSUME NEW n \in Nat, NEW S \in SUBSET Nat
    PROVE  LET t == [Idle EXCEPT !.stage = "next", !.target = n, !.md = S, !.todo = Contracts]
           IN  t \in Tasks /\ t.stage = "next" /\ t.target = n
BY DEF Idle, Tasks, Stages

\* The catalog takes a commit.
LEMMA CommitType ==
    ASSUME WType, NEW w \in Writes, Commit(w)
    PROVE  WType'
<1> USE DEF WType
<1> DEFINE t == [Idle EXCEPT !.stage = "next", !.target = Len(log) + 1, !.md = live', !.todo = Contracts]
<1>0. PICK to \in {"recording", "failed"} :
          /\ pc' = [pc EXCEPT ![w] = to]
          /\ to = "recording" => task' = [task EXCEPT ![w] = t]
          /\ to = "failed" => task' = task
    BY DEF Commit
<1> HIDE DEF t
<1>1. pc[w] = "attempt" /\ Push(w, NewList(w))
      /\ seen' = [seen EXCEPT ![w] = 0] /\ retried' = [retried EXCEPT ![w] = 0]
      /\ UNCHANGED <<files, deletes, holds, facts, wfacts, comp, cached, kind, by, policy, base>>
    BY DEF Commit, factVars, engineVars
<1>2. NewList(w) \in SUBSET Writes
    BY <1>1, NewListType
<1>3. /\ log' \in Seq(Writes) /\ Len(log) \in Nat /\ Len(log') = Len(log) + 1
      /\ live' \subseteq 1 .. Len(log')
      /\ list' \in [Writes -> SUBSET Writes]
      /\ Committed' = Committed \cup {w}
    BY <1>1, <1>2, PushFacts
<1>4. t \in Tasks /\ t.stage = "next" /\ t.target = Len(log')
  <2>1. Len(log) + 1 \in Nat /\ live' \in SUBSET Nat
      BY <1>3
  <2> QED BY <1>3, <2>1, NextTask DEF t
<1>5. task[w].stage = "idle"
  <2>1. TaskOK(w, task[w]) /\ pc[w] # "recording"
      BY <1>1 DEF TaskInv, Procs
  <2> QED BY <2>1 DEF TaskOK
<1>6. TypeOK'
  <2>1. task' \in [Procs -> Tasks]
      BY <1>0, <1>4 DEF TypeOK
  <2>2. pc' \in [Writes -> PCs] /\ seen' \in [Writes -> Nat] /\ retried' \in [Writes -> 0 .. NumRetries]
      BY <1>0, <1>1, RetriesAssumption DEF TypeOK, PCs
  <2> QED BY <1>1, <1>3, <2>1, <2>2 DEF TypeOK
<1>7. StandInv'
  <2> SUFFICES ASSUME NEW v \in Writes PROVE StandOK(v)'
      BY DEF StandInv
  <2>1. base'[v] \in 0 .. Len(log') /\ seen'[v] \in 0 .. Len(log')
      BY <1>1, <1>3 DEF StandInv, StandOK, TypeOK
  <2>2. CASE v = w
      BY <1>0, <1>1, <1>3, <2>1, <2>2 DEF StandInv, StandOK, TypeOK
  <2>3. CASE v # w
    <3>1. pc'[v] = pc[v] /\ (v \in Committed' <=> v \in Committed)
        BY <1>0, <1>1, <1>3, <2>3 DEF TypeOK
    <3> QED BY <1>1, <2>1, <3>1 DEF StandInv, StandOK
  <2> QED BY <2>2, <2>3
<1>8. TaskInv'
  <2> SUFFICES ASSUME NEW p \in Procs
               PROVE  TaskOK(p, task[p])'
      BY DEF TaskInv, Procs
  <2>1. CASE p = w /\ to = "recording"
    <3>1. task'[p] = t /\ pc'[p] = "recording"
        BY <1>0, <2>1 DEF TypeOK, Procs
    <3> QED BY <1>3, <1>4, <2>1, <3>1, ProcsAssumption DEF TaskOK
  <2>3. CASE p = w /\ to = "failed"
    <3>1. task'[p] = task[p] /\ TaskOK(p, task[p])
        BY <1>0, <2>3 DEF TaskInv
    <3> QED BY <1>5, <2>3, <3>1, ProcsAssumption DEF TaskOK
  <2>2. CASE p # w
    <3>1. task'[p] = task[p] /\ (p \in Writes => pc'[p] = pc[p]) /\ TaskOK(p, task[p])
        BY <1>0, <2>2 DEF TypeOK, TaskInv
    <3>2. \A n : n \in 1 .. Len(log) => n \in 1 .. Len(log')
        BY <1>3
    <3> QED BY <3>1, <3>2 DEF TaskOK
  <2> QED BY <2>1, <2>2, <2>3
<1> QED BY <1>6, <1>7, <1>8

\* Another engine's commit.
LEMMA ForeignType ==
    ASSUME WType, NEW w \in Writes, NEW M \in SUBSET Writes, NEW F \in SUBSET Writes,
           NEW H \in SUBSET Writes, NEW D \in SUBSET (Writes \X Writes), Foreign(w, M, F, H, D)
    PROVE  WType'
<1> USE DEF WType
<1>1. pc[w] = "idle" /\ pc' = [pc EXCEPT ![w] = "foreign"] /\ Push(w, M)
      /\ files' = [files EXCEPT ![w] = F] /\ holds' = [holds EXCEPT ![w] = H]
      /\ deletes' = [deletes EXCEPT ![w] = D]
      /\ UNCHANGED <<facts, wfacts, comp, cached, kind, by, policy, base, seen, retried, task>>
    BY DEF Foreign, factVars, engineVars
<1>2. /\ log' \in Seq(Writes) /\ Len(log) \in Nat /\ Len(log') = Len(log) + 1
      /\ live' \subseteq 1 .. Len(log')
      /\ list' \in [Writes -> SUBSET Writes]
      /\ Committed' = Committed \cup {w}
    BY <1>1, PushFacts
<1>3. TypeOK'
  <2>1. pc' \in [Writes -> PCs]
      BY <1>1 DEF TypeOK, PCs
  <2> QED BY <1>1, <1>2, <2>1 DEF TypeOK
<1>4. StandInv'
  <2>1. \A v \in Writes : v # w => pc'[v] = pc[v] /\ (v \in Committed' <=> v \in Committed)
      BY <1>1, <1>2 DEF TypeOK
  <2>2. pc'[w] = "foreign" /\ w \in Committed'
      BY <1>1, <1>2 DEF TypeOK
  <2>3. \A n : n \in 0 .. Len(log) => n \in 0 .. Len(log')
      BY <1>2
  <2> QED BY <1>1, <2>1, <2>2, <2>3 DEF StandInv, StandOK
<1>5. TaskInv'
  <2>1. \A p \in Procs : p \in Writes /\ task[p].stage # "idle" => pc'[p] = pc[p]
      BY <1>1 DEF TaskInv, TaskOK, TypeOK
  <2>2. \A p \in Procs : task'[p] = task[p]
      BY <1>1
  <2>3. Len(log) <= Len(log') /\ Len(log') \in Nat
      BY <1>2
  <2> QED BY <2>1, <2>2, <2>3, TaskFrame
<1> QED BY <1>3, <1>4, <1>5

\* The tasks a task may become, by the fields that change.
AtStage(t, st)        == [t EXCEPT !.stage = st]
Knowing(t, m, n)      == [t EXCEPT !.known = m, !.next = n]
Scanned(t, s, k, m)   == [t EXCEPT !.stage = "scanned", !.target = s, !.comp = k, !.known = m]
ForContract(t, c, k, S) == [t EXCEPT !.contract = c, !.comp = k, !.todo = S]

\* A task that goes on to another stage is a task.
LEMMA AtStageType ==
    ASSUME NEW t \in Tasks, NEW st \in Stages
    PROVE  LET u == AtStage(t, st)
           IN  /\ u \in Tasks /\ u.stage = st /\ u.contract = t.contract /\ u.comp = t.comp
               /\ u.target = t.target /\ u.next = t.next /\ u.known = t.known /\ u.use = t.use
               /\ u.todo = t.todo
BY DEF Tasks, AtStage

\* A task that knows the facts of a snapshot is a task.
LEMMA KnowingType ==
    ASSUME NEW t \in Tasks, NEW n \in Nat, NEW m \in Manifest
    PROVE  LET u == Knowing(t, m, n)
           IN  /\ u \in Tasks /\ u.stage = t.stage /\ u.contract = t.contract /\ u.comp = t.comp
               /\ u.target = t.target /\ u.next = n /\ u.known = m /\ u.use = t.use
BY DEF Tasks, Knowing

\* A task that has scanned a snapshot is a task.
LEMMA ScannedType ==
    ASSUME NEW t \in Tasks, NEW s \in Nat, NEW k \in Comps, NEW m \in Manifest
    PROVE  LET u == Scanned(t, s, k, m)
           IN  /\ u \in Tasks /\ u.stage = "scanned" /\ u.contract = t.contract /\ u.comp = k
               /\ u.target = s /\ u.known = m /\ u.use = t.use
<1>1. "scanned" \in Stages
    BY DEF Stages
<1>2. Scanned(t, s, k, m) \in Tasks
    BY <1>1 DEF Tasks, Scanned
<1> QED BY <1>2 DEF Tasks, Scanned

\* A write that turns to its next contract is a task.
LEMMA ForContractType ==
    ASSUME NEW t \in Tasks, NEW c \in Contracts, NEW k \in Comps, NEW S \in SUBSET Contracts
    PROVE  LET u == ForContract(t, c, k, S)
           IN  /\ u \in Tasks /\ u.stage = t.stage /\ u.contract = c /\ u.comp = k
               /\ u.target = t.target /\ u.md = t.md /\ u.use = t.use
BY DEF Tasks, ForContract

\* The write half of iceberg_facts: one snapshot's facts.
LEMMA ReplayType ==
    ASSUME WType, NEW p \in Procs, Replay(p)
    PROVE  WType'
<1> DEFINE t == task[p]
           w == log[t.next]
           m == AfterWrite(t.comp, t.known, w)
           a == Answer(t.comp, t.known, w, t.contract)
<1>1. TypeOK /\ t \in Tasks /\ TaskOK(p, t) /\ t.stage = "replay" /\ t.next <= t.target
    BY DEF WType, TypeOK, TaskInv, Replay
<1>2. /\ t.contract \in Contracts /\ t.comp \in Comps /\ t.known \in Manifest \cup {None}
      /\ t.next \in Nat /\ t.target \in 1 .. Len(log) /\ Len(log) \in Nat
      /\ t.next \in 1 .. Len(log) /\ t.next + 1 \in 1 .. (t.target + 1)
  <2>1. t.contract \in Contracts /\ t.comp \in Comps /\ t.target \in 1 .. Len(log)
        /\ t.next \in 1 .. (t.target + 1)
      BY <1>1 DEF TaskOK
  <2>2. t.known \in Manifest \cup {None} /\ t.next \in Nat /\ Len(log) \in Nat
      BY <1>1 DEF Tasks, TypeOK
  <2> QED BY <1>1, <2>1, <2>2
<1>3. w \in Writes
    BY <1>1, <1>2, SMTT(30) DEF TypeOK
<1>4. m \in Manifest
  <2>1. base[w] \in 0 .. Len(log)
      BY <1>3 DEF WType, StandInv, StandOK
  <2> QED BY <1>1, <1>2, <1>3, <2>1, AfterWriteType
<1>5. a \in {"known", "unknown", "err"}
    BY DEF Answer
<1>6. UNCHANGED <<tableVars, wfacts, comp, cached, writeVars>>
    BY DEF Replay, engineVars
<1>7. CASE a = "known"
  <2>1. facts' = [facts EXCEPT ![t.contract][w] = m]
        /\ task' = [task EXCEPT ![p].known = m, ![p].next = @ + 1]
      BY <1>7 DEF Replay
  <2> DEFINE u == Knowing(t, m, t.next + 1)
  <2> HIDE DEF m, a, w
  <2>2. task' = [task EXCEPT ![p] = u]
      BY <2>1, <1>1 DEF TypeOK, Tasks, Knowing
  <2>3. facts' \in [Contracts -> [Writes -> Manifest \cup {None}]]
      BY <1>1, <1>2, <1>3, <1>4, <2>1 DEF TypeOK
  <2>4. u \in Tasks /\ u.stage = t.stage /\ u.contract = t.contract /\ u.comp = t.comp
                   /\ u.target = t.target /\ u.next = t.next + 1
    <3>1. t.next + 1 \in Nat
        BY <1>2
    <3> QED BY <1>1, <1>4, <3>1, KnowingType
  <2>5. TaskOK(p, u)
      BY <1>1, <1>2, <2>4 DEF TaskOK
  <2>6. cached' \in [Contracts -> Manifest \cup {None}]
      BY <1>1, <1>6 DEF TypeOK
  <2> HIDE DEF u
  <2> QED BY <1>6, <2>2, <2>3, <2>4, <2>5, <2>6, TaskStep
<1>8. CASE a # "known"
  <2>1. facts' = facts /\ task' = [task EXCEPT ![p].stage = a]
      BY <1>8 DEF Replay
  <2> DEFINE u == AtStage(t, a)
  <2> HIDE DEF m, a, w
  <2>2. task' = [task EXCEPT ![p] = u]
      BY <2>1, <1>1 DEF TypeOK, Tasks, AtStage
  <2>3. a \in Stages
      BY <1>5, <1>8 DEF Stages
  <2>4. u \in Tasks /\ u.stage = a /\ u.contract = t.contract /\ u.comp = t.comp
                   /\ u.target = t.target /\ u.next = t.next
      BY <1>1, <2>3, AtStageType
  <2>5. TaskOK(p, u)
      BY <1>1, <1>2, <1>5, <1>8, <2>4 DEF TaskOK
  <2>6. cached' \in [Contracts -> Manifest \cup {None}]
        /\ facts' \in [Contracts -> [Writes -> Manifest \cup {None}]]
      BY <1>1, <1>6, <2>1 DEF TypeOK
  <2> HIDE DEF u
  <2> QED BY <1>6, <2>2, <2>4, <2>5, <2>6, TaskStep
<1> QED BY <1>7, <1>8

\* A write goes on to the facts of its next contract.
LEMMA RecordNextType ==
    ASSUME WType, NEW w \in Writes, NEW c \in Contracts, RecordNext(w, c)
    PROVE  WType'
<1> DEFINE t == task[w]
           u == ForContract(t, c, wfacts[w][c], t.todo \ {c})
<1>1. w \in Procs /\ TypeOK /\ t \in Tasks /\ TaskOK(w, t) /\ t.stage = "next"
    BY DEF WType, TypeOK, TaskInv, RecordNext, Procs
<1>2. pc[w] = "recording" /\ t.target \in 1 .. Len(log)
    BY <1>1 DEF TaskOK
<1>3. wfacts[w][c] \in Comps
    BY <1>2 DEF WType, StandInv, StandOK
<1>4. t.todo \ {c} \in SUBSET Contracts
    BY <1>1 DEF Tasks
<1>5. u \in Tasks /\ u.contract = c /\ u.comp = wfacts[w][c] /\ u.target = t.target
    BY <1>1, <1>3, <1>4, ForContractType
<1>6. task' = [task EXCEPT ![w] = Walk(u)]
    BY DEF RecordNext, ForContract
<1> HIDE DEF u
<1>7. Walk(u) \in Tasks /\ TaskOK(w, Walk(u))
  <2>1. w \notin Readers
      BY ProcsAssumption
  <2>2. Walk(u) \in Tasks
           /\ Walk(u).stage \in {"replay", "unknown"}
           /\ Walk(u).contract = c /\ Walk(u).comp = wfacts[w][c] /\ Walk(u).target = t.target
           /\ (Walk(u).stage = "replay" => Walk(u).next \in 1 .. (t.target + 1))
      BY <1>1, <1>2, <1>5, WalkType
  <2> QED BY <1>2, <1>3, <2>1, <2>2 DEF TaskOK
<1>8. UNCHANGED <<tableVars, wfacts, comp, writeVars>>
    BY DEF RecordNext, factVars, engineVars
<1>9. cached' \in [Contracts -> Manifest \cup {None}]
      /\ facts' \in [Contracts -> [Writes -> Manifest \cup {None}]]
    BY <1>1 DEF TypeOK, RecordNext, factVars, engineVars
<1> QED BY <1>1, <1>6, <1>7, <1>8, <1>9, TaskStep

\* The facts a write recorded for a contract are the engine's, and its report is returned
\* after the last (Engine::publish_write).
LEMMA RecordedType ==
    ASSUME WType, NEW w \in Writes, Recorded(w)
    PROVE  WType'
<1> DEFINE t == task[w]
<1>1. w \in Procs /\ TypeOK /\ t \in Tasks /\ TaskOK(w, t) /\ Ended(t)
    BY DEF WType, TypeOK, TaskInv, Recorded, Procs
<1>2. t.stage \in {"replay", "unknown", "err"}
    BY <1>1 DEF Ended, Computed
<1>3. pc[w] = "recording" /\ t.target \in 1 .. Len(log) /\ t.contract \in Contracts
    BY <1>1, <1>2 DEF TaskOK
<1>4. UNCHANGED <<log, live, list, files, deletes, holds, facts, wfacts, comp, kind, by, policy, base, seen, retried>>
    BY DEF Recorded, tableVars, factVars
<1>5. cached' \in [Contracts -> Manifest \cup {None}]
  <2>1. PICK m \in Manifest \cup {None} : cached' = [cached EXCEPT ![t.contract] = m]
    <3>1. t.known \in Manifest \cup {None}
        BY <1>1 DEF Tasks
    <3>2. CASE Computed(t)
        BY <3>1, <3>2 DEF Recorded
    <3>3. CASE ~Computed(t)
        BY <3>3 DEF Recorded
    <3> QED BY <3>2, <3>3
  <2> QED BY <1>1, <2>1 DEF TypeOK
<1>6. CASE t.todo = {}
  <2>1. pc' = [pc EXCEPT ![w] = "done"] /\ task' = [task EXCEPT ![w] = Idle]
      BY <1>6 DEF Recorded
  <2>2. TypeOK'
    <3>1. task' \in [Procs -> Tasks] /\ pc' \in [Writes -> PCs]
        BY <1>1, <2>1, IdleType DEF TypeOK, PCs
    <3> QED BY <1>1, <1>4, <1>5, <3>1 DEF TypeOK
  <2>3. Committed' = Committed
      BY <1>4 DEF Committed
  <2>4. StandInv'
    <3>1. \A v \in Writes : StandOK(v)
        BY DEF WType, StandInv
    <3> QED BY <1>1, <1>3, <1>4, <2>1, <2>3, <3>1 DEF TypeOK, StandInv, StandOK
  <2>5. TaskInv'
    <3>1. \A p \in Procs : p # w => task'[p] = task[p] /\ (p \in Writes => pc'[p] = pc[p])
        BY <1>1, <2>1 DEF TypeOK
    <3>2. task'[w] = Idle
        BY <1>1, <2>1 DEF TypeOK
    <3>3. Len(log) <= Len(log') /\ Len(log') \in Nat
        BY <1>1, <1>4 DEF TypeOK
    <3> QED BY <3>1, <3>2, <3>3, TaskFrame
  <2> QED BY <2>2, <2>4, <2>5 DEF WType
<1>7. CASE t.todo # {}
  <2>1. pc' = pc /\ task' = [task EXCEPT ![w].stage = "next"]
      BY <1>7 DEF Recorded
  <2> DEFINE u == AtStage(t, "next")
  <2>2. task' = [task EXCEPT ![w] = u]
      BY <1>1, <2>1 DEF AtStage, TypeOK, Tasks
  <2>3. u \in Tasks /\ u.stage = "next" /\ u.target = t.target
      BY <1>1, AtStageType DEF Stages
  <2>4. TaskOK(w, u)
      BY <1>1, <1>3, <2>3, ProcsAssumption DEF TaskOK
  <2>5. UNCHANGED <<tableVars, wfacts, comp, writeVars>>
      BY <1>4, <2>1 DEF tableVars, writeVars
  <2>6. facts' \in [Contracts -> [Writes -> Manifest \cup {None}]]
      BY <1>1, <1>4 DEF TypeOK
  <2> HIDE DEF u
  <2> QED BY <1>1, <1>5, <2>2, <2>3, <2>4, <2>5, <2>6, TaskStep
<1> QED BY <1>6, <1>7

\* What a reader begins with (ensure_manifest, ensure_manifest_as_of, validate).
LEMMA AskedType ==
    ASSUME TypeOK, NEW c \in Contracts, NEW u \in {"current", "asof", "validate"}, NEW s \in Nat
    PROVE  LET t == Asked(c, u, s)
           IN  /\ t \in Tasks /\ t.stage = "idle" /\ t.contract = c /\ t.comp = comp[c] /\ t.comp \in Comps
               /\ t.target = s /\ t.use = u /\ t.md = live
<1>1. live \in SUBSET Nat /\ comp[c] \in Comps
    BY DEF TypeOK
<1> DEFINE A(k, S) == [Idle EXCEPT !.use = u, !.contract = c, !.comp = k, !.target = s, !.md = S]
<1>2. ASSUME NEW S \in SUBSET Nat, NEW k \in Comps
      PROVE  /\ A(k, S) \in Tasks /\ A(k, S).stage = "idle" /\ A(k, S).contract = c /\ A(k, S).comp = k
             /\ A(k, S).target = s /\ A(k, S).use = u /\ A(k, S).md = S
  <2>1. Idle \in Tasks /\ Idle.stage = "idle"
      BY DEF Idle, Tasks, Stages
  <2>2. PICK t \in Tasks : t = Idle
      BY <2>1
  <2>3. PICK x : x = [t EXCEPT !.use = u, !.contract = c, !.comp = k, !.target = s, !.md = S]
      OBVIOUS
  <2>4. x \in Tasks
      BY <2>3 DEF Tasks
  <2>5. x.stage = t.stage /\ x.contract = c /\ x.comp = k /\ x.target = s /\ x.use = u /\ x.md = S
      BY <2>3 DEF Tasks
  <2> QED BY <2>1, <2>2, <2>3, <2>4, <2>5
<1>3. Asked(c, u, s) = A(comp[c], live)
    BY DEF Asked
<1> HIDE DEF A
<1> QED BY <1>1, <1>2, <1>3

\* Engine::ensure_manifest and validate, which begin a task of a reader.
LEMMA ReaderType ==
    ASSUME WType, NEW r \in Readers,
           \/ \E c \in Contracts : EnsureManifest(r, c) \/ Validate(r, c)
           \/ \E c \in Contracts, s \in live : EnsureManifestAsOf(r, c, s)
    PROVE  WType'
<1>1. r \in Procs /\ r \notin Writes /\ TypeOK /\ Len(log) \in Nat
      /\ Current = Len(log) /\ live \subseteq 1 .. Len(log)
  <2>1. r \in Procs /\ r \notin Writes
      BY ProcsAssumption DEF Procs
  <2>2. TypeOK
      BY DEF WType
  <2>3. Len(log) \in Nat /\ live \subseteq 1 .. Len(log)
      BY <2>2 DEF TypeOK
  <2> QED BY <2>1, <2>2, <2>3 DEF Current
<1>2. ASSUME NEW t \in Tasks, TaskOK(r, t), Start(r, t)
      PROVE  WType'
  <2>1. UNCHANGED <<tableVars, wfacts, comp, writeVars>> /\ task' = [task EXCEPT ![r] = t]
      BY <1>2 DEF Start, factVars, engineVars
  <2>2. cached' \in [Contracts -> Manifest \cup {None}]
        /\ facts' \in [Contracts -> [Writes -> Manifest \cup {None}]]
      BY <1>1, <1>2 DEF TypeOK, Start, factVars, engineVars
  <2> QED BY <1>1, <1>2, <2>1, <2>2, TaskStep
<1>3. ASSUME NEW c \in Contracts, NEW u \in {"current", "asof"}, NEW s \in 1 .. Len(log)
      PROVE  Walk(Asked(c, u, s)) \in Tasks /\ TaskOK(r, Walk(Asked(c, u, s)))
  <2> DEFINE t == Asked(c, u, s)
  <2>1. s \in Nat
      BY <1>1
  <2>2. t \in Tasks /\ t.contract = c /\ t.comp \in Comps /\ t.target = s
      BY <1>1, <2>1, AskedType
  <2> HIDE DEF t
  <2>3. /\ Walk(t) \in Tasks
        /\ Walk(t).stage \in {"replay", "unknown"}
        /\ Walk(t).contract = t.contract /\ Walk(t).comp = t.comp /\ Walk(t).target = t.target
        /\ Walk(t).stage = "replay" => Walk(t).next \in 1 .. (t.target + 1)
      BY <1>1, <2>2, WalkType
  <2>4. TaskOK(r, Walk(t))
      BY <1>1, <2>2, <2>3 DEF TaskOK
  <2> QED BY <2>3, <2>4 DEF t
<1>4. ASSUME NEW c \in Contracts, EnsureManifest(r, c)
      PROVE  WType'
  <2>1. CASE Current # 0 /\ Start(r, Walk(Asked(c, "current", Current)))
    <3>1. Current \in 1 .. Len(log)
        BY <1>1, <2>1
    <3> QED BY <1>2, <1>3, <2>1, <3>1
  <2>2. CASE cached' = [cached EXCEPT ![c] = None] /\ UNCHANGED <<tableVars, factVars, comp, writeVars, task>>
    <3>1. task' = [task EXCEPT ![r] = task[r]] /\ task[r] \in Tasks /\ TaskOK(r, task[r])
        BY <1>1, <2>2 DEF WType, TypeOK, TaskInv
    <3>2. facts' \in [Contracts -> [Writes -> Manifest \cup {None}]]
        BY <1>1, <2>2 DEF TypeOK, factVars
    <3>4. cached' \in [Contracts -> Manifest \cup {None}]
      <4>1. cached \in [Contracts -> Manifest \cup {None}] /\ cached' = [cached EXCEPT ![c] = None]
          BY <1>1, <2>2 DEF TypeOK
      <4> QED BY <4>1
    <3>3. UNCHANGED <<tableVars, wfacts, comp, writeVars>>
        BY <2>2 DEF factVars
    <3> QED BY <1>1, <3>1, <3>2, <3>3, <3>4, TaskStep
  <2> QED BY <1>4, <2>1, <2>2 DEF EnsureManifest
<1>5. ASSUME NEW c \in Contracts, Validate(r, c)
      PROVE  WType'
  <2> DEFINE t == Asked(c, "validate", 0)
             u == AtStage(t, "unknown")
  <2>1. t \in Tasks /\ t.contract = c /\ t.comp \in Comps
      BY <1>1, AskedType
  <2>2. Start(r, u)
      BY <1>5 DEF Validate, AtStage
  <2> HIDE DEF t
  <2>3. u \in Tasks /\ u.stage = "unknown" /\ u.contract = t.contract /\ u.comp = t.comp
      BY <2>1, AtStageType DEF Stages
  <2> HIDE DEF u
  <2>4. TaskOK(r, u)
      BY <1>1, <2>1, <2>3 DEF TaskOK
  <2> QED BY <1>2, <2>2, <2>3, <2>4
<1>6. ASSUME NEW c \in Contracts, NEW s \in live, EnsureManifestAsOf(r, c, s)
      PROVE  WType'
  <2>1. s \in 1 .. Len(log) /\ Start(r, Walk(Asked(c, "asof", s)))
      BY <1>1, <1>6 DEF EnsureManifestAsOf
  <2> QED BY <1>2, <1>3, <2>1
<1> QED BY <1>4, <1>5, <1>6

\* The steps of a reader after it began: answers, failures, the scan and the save of
\* Engine::refresh, and a client that goes away.
LEMMA ReadType ==
    ASSUME WType, NEW r \in Readers, Answered(r) \/ Failed(r) \/ Scan(r) \/ Save(r) \/ Cancel(r)
    PROVE  WType'
<1> DEFINE t == task[r]
<1>1. r \in Procs /\ r \notin Writes
    BY ProcsAssumption DEF Procs
<1>2. TypeOK /\ t \in Tasks /\ TaskOK(r, t)
  <2>1. TypeOK
      BY DEF WType
  <2> QED BY <1>1, <2>1 DEF WType, TypeOK, TaskInv
<1>3. Len(log) \in Nat /\ live \subseteq 1 .. Len(log) /\ Current = Len(log)
      /\ cached \in [Contracts -> Manifest \cup {None}]
      /\ facts \in [Contracts -> [Writes -> Manifest \cup {None}]]
      /\ t.known \in Manifest \cup {None} /\ t.target \in Nat
    BY <1>2 DEF TypeOK, Current, Tasks
<1>4. Idle \in Tasks /\ TaskOK(r, Idle)
  <2>1. Idle \in Tasks /\ Idle.stage = "idle"
      BY IdleType
  <2> QED BY <1>1, <2>1 DEF TaskOK
<1>5. UNCHANGED <<tableVars, wfacts, comp, writeVars>>
    BY DEF Answered, Failed, Scan, Save, Cancel, factVars, engineVars
<1>6. CASE Answered(r)
  <2>1. t.contract \in Contracts
      BY <1>2, <1>6 DEF Answered, Computed, TaskOK
  <2>2. cached' \in [Contracts -> Manifest \cup {None}]
      BY <1>3, <1>6, <2>1 DEF Answered
  <2>3. task' = [task EXCEPT ![r] = Idle] /\ facts' = facts
      BY <1>6 DEF Answered, factVars
  <2> QED BY <1>1, <1>3, <1>4, <1>5, <2>2, <2>3, TaskStep
<1>7. CASE Failed(r) \/ Cancel(r)
  <2>1. task' = [task EXCEPT ![r] = Idle] /\ facts' = facts /\ cached' = cached
      BY <1>7 DEF Failed, Cancel, factVars, engineVars
  <2> QED BY <1>1, <1>3, <1>4, <1>5, <2>1, TaskStep
<1>8. CASE Scan(r)
  <2> DEFINE s == IF t.use = "validate" THEN Current ELSE t.target
             k == comp[t.contract]
             u == IF s \in live THEN Scanned(t, s, k, Validated(k, s)) ELSE AtStage(t, "err")
  <2>1. t.stage = "unknown" /\ facts' = facts /\ cached' = cached
      BY <1>8 DEF Scan, factVars, engineVars
  <2>2. t.contract \in Contracts /\ t.comp \in Comps /\ k \in Comps
      BY <1>2, <2>1 DEF TaskOK, TypeOK
  <2>3. task' = [task EXCEPT ![r] = u]
      BY <1>8 DEF Scan, Scanned, AtStage
  <2>4. s \in Nat /\ (s \in live => s \in 1 .. Len(log))
      BY <1>3
  <2> HIDE DEF s, k
  <2>5. CASE s \in live
    <3>1. Validated(k, s) \in Manifest
        BY <1>2, <2>2, <2>4, <2>5, ValidatedType
    <3>2. u = Scanned(t, s, k, Validated(k, s))
        BY <2>5
    <3>3. u \in Tasks /\ u.stage = "scanned" /\ u.contract = t.contract /\ u.comp = k
          /\ u.target = s /\ u.known \in Manifest
        BY <1>2, <2>2, <2>4, <3>1, <3>2, ScannedType
    <3> HIDE DEF u
    <3>4. TaskOK(r, u)
        BY <1>1, <2>2, <2>4, <2>5, <3>3 DEF TaskOK
    <3> QED BY <1>1, <1>3, <1>5, <2>1, <2>3, <3>3, <3>4, TaskStep
  <2>6. CASE s \notin live
    <3>1. u = AtStage(t, "err")
        BY <2>6
    <3>2. u \in Tasks /\ u.stage = "err" /\ u.contract = t.contract /\ u.comp = t.comp
        BY <1>2, <3>1, AtStageType DEF Stages
    <3> HIDE DEF u
    <3>3. TaskOK(r, u)
        BY <1>1, <2>2, <3>2 DEF TaskOK
    <3> QED BY <1>1, <1>3, <1>5, <2>1, <2>3, <3>2, <3>3, TaskStep
  <2> QED BY <2>5, <2>6
<1>9. CASE Save(r)
  <2>1. t.stage = "scanned" /\ task' = [task EXCEPT ![r] = Idle]
      BY <1>9 DEF Save
  <2>2. t.contract \in Contracts /\ t.target \in 1 .. Len(log) /\ t.known \in Manifest
      BY <1>2, <2>1 DEF TaskOK
  <2>3. log[t.target] \in Writes
      BY <1>2, <2>2 DEF TypeOK
  <2>4. facts' \in [Contracts -> [Writes -> Manifest \cup {None}]]
    <3>1. facts' = [facts EXCEPT ![t.contract][log[t.target]] = t.known] \/ facts' = facts
        BY <1>9 DEF Save
    <3> QED BY <1>3, <2>2, <2>3, <3>1, SMTT(30)
  <2>5. cached' \in [Contracts -> Manifest \cup {None}]
    <3>1. cached' = [cached EXCEPT ![t.contract] = t.known] \/ cached' = cached
        BY <1>9 DEF Save
    <3> QED BY <1>3, <2>2, <3>1
  <2> QED BY <1>1, <1>4, <1>5, <2>1, <2>4, <2>5, TaskStep
<1> QED BY <1>6, <1>7, <1>8, <1>9

\* The catalog and the contracts: a registration, an expiry, another engine's commits.
LEMMA OutsideType ==
    ASSUME WType, Outside \/ \E c \in Contracts, k \in Comps : Register(c, k)
    PROVE  WType'
<1>1. TypeOK
    BY DEF WType
<1>2. Len(log) \in Nat /\ Current = Len(log) /\ Current \in 0 .. Len(log)
      /\ ManifestsAt(Current) \in SUBSET Writes /\ FilesIn(ManifestsAt(Current)) \in SUBSET Writes
  <2>1. Len(log) \in Nat /\ Current = Len(log)
      BY <1>1 DEF TypeOK, Current
  <2>2. Current \in 0 .. Len(log)
      BY <2>1
  <2> QED BY <1>1, <2>1, <2>2, ManifestsType
<1>3. ASSUME NEW w \in Writes, ForeignAppend(w)
      PROVE  WType'
    BY <1>2, <1>3, ForeignType DEF ForeignAppend
<1>4. ASSUME NEW w \in Writes, ForeignReplace(w)
      PROVE  WType'
    BY <1>4, ForeignType DEF ForeignReplace
<1>5. ASSUME NEW w \in Writes, ForeignMerge(w)
      PROVE  WType'
    BY <1>2, <1>5, ForeignType DEF ForeignMerge
<1>6. ASSUME NEW w \in Writes, NEW f \in Writes, NEW b \in Writes, ForeignDelete(w, f, b)
      PROVE  WType'
    BY <1>2, <1>6, ForeignType DEF ForeignDelete
<1>7. ASSUME UNCHANGED <<log, list, files, deletes, holds, facts, wfacts, cached, writeVars, task>>,
             live' \subseteq live, comp' \in [Contracts -> Comps]
      PROVE  WType'
  <2>1. live' \subseteq 1 .. Len(log')
      BY <1>1, <1>7 DEF TypeOK
  <2>2. TypeOK'
      BY <1>1, <1>7, <2>1 DEF TypeOK, writeVars
  <2>3. Committed' = Committed
      BY <1>7 DEF Committed
  <2>4. StandInv'
      BY <1>7, <2>3 DEF WType, StandInv, StandOK, writeVars
  <2>5. TaskInv'
      BY <1>7 DEF WType, TaskInv, TaskOK, writeVars
  <2> QED BY <2>2, <2>4, <2>5 DEF WType
<1>8. ASSUME NEW s \in live, Expire(s)
      PROVE  WType'
  <2>1. comp' \in [Contracts -> Comps]
      BY <1>1, <1>8 DEF TypeOK, Expire, engineVars
  <2> QED BY <1>7, <1>8, <2>1 DEF Expire, factVars, engineVars
<1>9. ASSUME NEW c \in Contracts, NEW k \in Comps, Register(c, k)
      PROVE  WType'
  <2>1. comp' \in [Contracts -> Comps]
      BY <1>1, <1>9 DEF TypeOK, Register
  <2> QED BY <1>7, <1>9, <2>1 DEF Register, tableVars, factVars
<1> QED BY <1>3, <1>4, <1>5, <1>6, <1>8, <1>9 DEF Outside

\* A table nobody has written to, and an engine that has just begun.
LEMMA WTypeInit == Init => WType
<1> SUFFICES ASSUME Init PROVE WType
    OBVIOUS
<1>1. Len(log) = 0 /\ Committed = {}
    BY DEF Init, Committed
<1>2. TypeOK
  <2>1. task \in [Procs -> Tasks]
      BY IdleType DEF Init
  <2>2. log \in Seq(Writes) /\ live \subseteq 1 .. Len(log)
      BY DEF Init
  <2>3. retried \in [Writes -> 0 .. NumRetries] /\ pc \in [Writes -> PCs] /\ policy \in [Writes -> Policies]
      BY RetriesAssumption DEF Init, PCs, Policies
  <2> QED BY <2>1, <2>2, <2>3 DEF Init, TypeOK
<1>3. StandInv
    BY <1>1 DEF Init, StandInv, StandOK
<1>4. TaskInv
    BY IdleType DEF Init, TaskInv, TaskOK
<1> QED BY <1>2, <1>3, <1>4 DEF WType

\* Whatever a write, a reader or another engine does next.
LEMMA WTypeStep ==
    ASSUME WType, [Next]_vars
    PROVE  WType'
<1>1. CASE UNCHANGED vars
  <2>1. Committed' = Committed
      BY <1>1 DEF Committed, vars, tableVars
  <2>2. TypeOK'
      BY <1>1 DEF WType, TypeOK, vars, tableVars, factVars, engineVars, writeVars
  <2>3. StandInv'
      BY <1>1, <2>1 DEF WType, StandInv, StandOK, vars, tableVars, factVars, engineVars, writeVars
  <2>4. TaskInv'
      BY <1>1 DEF WType, TaskInv, TaskOK, vars, tableVars, factVars, engineVars, writeVars
  <2> QED BY <2>2, <2>3, <2>4 DEF WType
<1>2. TypeOK /\ Len(log) \in Nat /\ Current \in 0 .. Len(log) /\ Rows(Current) \in SUBSET Writes
  <2>1. TypeOK
      BY DEF WType
  <2>2. Len(log) \in Nat /\ Current \in 0 .. Len(log)
      BY <2>1 DEF TypeOK, Current
  <2> QED BY <2>1, <2>2, ManifestsType
<1>3. ASSUME NEW w \in Writes, NEW c \in Contracts, NEW k \in Kinds, NEW p \in Policies, BeginWrite(w, c, k, p)
      PROVE  WType'
  <2>1. k \in Own /\ {w} \in SUBSET Writes
      BY DEF Kinds, Own
  <2> QED BY <1>3, <2>1, BeginType DEF BeginWrite
<1>4. ASSUME NEW w \in Writes, NEW c \in Contracts, Compact(w, c)
      PROVE  WType'
  <2>1. "rewrite" \in Own /\ "warn" \in Policies
      BY DEF Own, Policies
  <2> QED BY <1>2, <1>4, <2>1, BeginType DEF Compact
<1>5. ASSUME NEW w \in Writes, Write(w) \/ Fail(w) \/ Crash(w)
      PROVE  WType'
  <2>1. w \in Procs
      BY DEF Procs
  <2> QED BY <1>5, <2>1, FinishType, AttemptType, CommitType, RecordNextType, RecordedType, ReplayType DEF Write
<1>6. ASSUME NEW r \in Readers, Read(r) \/ Cancel(r)
      PROVE  WType'
  <2>1. r \in Procs
      BY DEF Procs
  <2> QED BY <1>6, <2>1, ReplayType, ReadType DEF Read
<1>7. ASSUME NEW r \in Readers, NEW c \in Contracts, EnsureManifest(r, c) \/ Validate(r, c)
      PROVE  WType'
    BY <1>7, ReaderType
<1>8. ASSUME NEW r \in Readers, NEW c \in Contracts, NEW s \in live, EnsureManifestAsOf(r, c, s)
      PROVE  WType'
    BY <1>8, ReaderType
<1>9. CASE Outside \/ \E c \in Contracts, k \in Comps : Register(c, k)
    BY <1>9, OutsideType
<1> QED BY <1>1, <1>3, <1>4, <1>5, <1>6, <1>7, <1>8, <1>9 DEF Next

\* The state of the table, the engine and every task stays well typed, whatever is
\* committed, replayed, registered or expired between two steps of a task.
THEOREM TableTypes == Spec => []TypeOK
<1>1. Spec => []WType
    BY WTypeInit, WTypeStep, PTL DEF Spec
<1>2. WType => TypeOK
    BY DEF WType
<1> QED BY <1>1, <1>2, PTL

\* A write that reported a refusal or a conflict left nothing in the table, one that
\* reported its snapshot is in the history, and one that is in the history, also when its
\* caller was told of an error after the catalog had taken the commit, has its own facts
\* under every contract (Engine::finish_write, publish_write, commit_rewrite).
THEOREM ReportsHold == Spec => []ReportsAreTrue
<1>1. Spec => []WType
    BY WTypeInit, WTypeStep, PTL DEF Spec
<1>2. WType => ReportsAreTrue
    BY CompsAssumption DEF WType, StandInv, StandOK, ReportsAreTrue
<1> QED BY <1>1, <1>2, PTL

(***************************************************************************)
(* The commit protocol implements AbstractTable: an append adds its rows   *)
(* to what is there, an overwrite replaces the version it began from, a    *)
(* rewrite changes no row.  The argument is about the history of the       *)
(* table: what a snapshot lists, and which files and deletes its manifests *)
(* name.                                                                   *)
(***************************************************************************)
\* The rewrite w of the snapshot `base' may be made over snapshot number s
\* (Rewritten::carried).
CarriedTo(w, s) ==
    /\ ManifestsAt(base[w]) \subseteq ManifestsAt(s)
    /\ \A m \in ManifestsAt(s) \ ManifestsAt(base[w]) : deletes[m] = {}

\* What a write of peQL's own has written: its one file, with its rows or, for a
\* compaction, those of the snapshot it read.
OwnAt(w) ==
    /\ pc[w] = "idle" => deletes[w] = {}
    /\ kind[w] \in Own => files[w] = {w} /\ deletes[w] = {}
    /\ kind[w] \in {"append", "overwrite"} => holds[w] = {w}
    /\ kind[w] = "rewrite" => holds[w] = Rows(base[w]) /\ FilesIn(ManifestsAt(base[w])) # {}
    /\ pc[w] = "attempt" /\ kind[w] = "overwrite" => seen[w] = base[w]
    /\ pc[w] = "attempt" /\ kind[w] = "rewrite" => base[w] <= seen[w] /\ CarriedTo(w, seen[w])

OwnInv == \A w \in Writes : OwnAt(w)

(***************************************************************************)
(* The history of the table.                                               *)
(***************************************************************************)
\* The writes of the first n snapshots.
Upto(n) == {log[j] : j \in 1 .. n}

\* Every write is in the history once.
OnceInv == \A i, j \in 1 .. Len(log) : log[i] = log[j] => i = j

\* A snapshot lists its own manifest and others of its past; a manifest that was
\* dropped does not come back.
ListInv == \A i \in 1 .. Len(log) :
    /\ log[i] \in list[log[i]] /\ list[log[i]] \subseteq Upto(i)
    /\ \A j, k \in i .. Len(log) : j <= k /\ log[i] \in list[log[k]] => log[i] \in list[log[j]]

\* What a manifest names: its write's own file, or deletes and no file, or, when it
\* replaced all the data manifests there were, their files.
NameAt(i) ==
    LET m == log[i]
    IN  /\ \/ files[m] = {m} /\ deletes[m] = {}
           \/ files[m] = {}
           \/ /\ i > 1 /\ deletes[m] = {} /\ files[m] = FilesIn(list[log[i - 1]])
              /\ \A n \in list[m] \ {m} : deletes[n] # {}
        /\ files[m] \subseteq Upto(i)
        /\ \A d \in deletes[m] : d[1] \in Upto(i - 1)
        /\ holds[m] \subseteq Upto(i)

NameInv == \A i \in 1 .. Len(log) : NameAt(i)

\* The manifests of one snapshot have no file in common.
ApartAt(i) == \A m, n \in list[log[i]] : m # n => files[m] \cap files[n] = {}

ApartInv == \A i \in 1 .. Len(log) : ApartAt(i)

\* What peQL's own commits did to the manifests and the rows.
CommitAt(i) ==
    LET w == log[i]
    IN  /\ kind[w] = "append"    => list[w] = ManifestsAt(i - 1) \cup {w}
        /\ kind[w] = "overwrite" => list[w] = {w}
        /\ kind[w] = "rewrite"   => /\ list[w] = (ManifestsAt(i - 1) \ ManifestsAt(base[w])) \cup {w}
                                    /\ ManifestsAt(base[w]) \subseteq ManifestsAt(i - 1)
                                    /\ base[w] < i
                                    /\ RowsIn(list[w]) = Rows(i - 1)

CommitInv == \A i \in 1 .. Len(log) : CommitAt(i)

TableInv == OnceInv /\ ListInv /\ NameInv /\ ApartInv /\ CommitInv

IInv == WType /\ OwnInv /\ TableInv

(***************************************************************************)
(* What is committed does not change.                                      *)
(***************************************************************************)
LEMMA UptoFacts ==
    ASSUME WType
    PROVE  /\ Len(log) \in Nat /\ Committed = Upto(Len(log)) /\ Committed \subseteq Writes
           /\ \A i \in 1 .. Len(log) : log[i] \in Writes /\ log[i] \in Committed
           /\ \A i, j \in 0 .. Len(log) : i <= j => Upto(i) \subseteq Upto(j)
           /\ \A i \in 0 .. Len(log) : Upto(i) \subseteq Committed
<1>1. log \in Seq(Writes) /\ Len(log) \in Nat
    BY DEF WType, TypeOK
<1>2. Committed = Upto(Len(log))
    BY DEF Committed, Upto
<1>3. \A i \in 1 .. Len(log) : log[i] \in Writes /\ log[i] \in Committed
    BY <1>1 DEF Committed
<1>4. Committed \subseteq Writes
    BY <1>3 DEF Committed
<1>5. \A i, j \in 0 .. Len(log) : i <= j => Upto(i) \subseteq Upto(j)
    BY <1>1 DEF Upto
<1>6. \A i \in 0 .. Len(log) : Upto(i) \subseteq Committed
    BY <1>1 DEF Upto, Committed
<1> QED BY <1>1, <1>2, <1>3, <1>4, <1>5, <1>6

\* A snapshot's manifests, files and rows come from the writes of its past.
LEMMA PastFacts ==
    ASSUME WType, ListInv, NameInv, NEW i \in 0 .. Len(log)
    PROVE  /\ ManifestsAt(i) \subseteq Upto(i)
           /\ FilesIn(ManifestsAt(i)) \subseteq Upto(i)
           /\ Rows(i) \subseteq Upto(i)
<1>1. Len(log) \in Nat /\ \A j, k \in 0 .. Len(log) : j <= k => Upto(j) \subseteq Upto(k)
    BY UptoFacts
<1>2. ManifestsAt(i) \subseteq Upto(i)
    BY DEF ManifestsAt, ListInv
<1>3. ASSUME NEW m \in Upto(i)
      PROVE  files[m] \subseteq Upto(i) /\ holds[m] \subseteq Upto(i)
  <2>1. PICK j \in 1 .. i : m = log[j]
      BY DEF Upto
  <2>2. j \in 1 .. Len(log) /\ j \in 0 .. Len(log) /\ j <= i
      BY <1>1
  <2>3. files[m] \subseteq Upto(j) /\ holds[m] \subseteq Upto(j)
      BY <2>1, <2>2 DEF NameInv, NameAt
  <2> QED BY <1>1, <2>2, <2>3
<1>4. FilesIn(ManifestsAt(i)) \subseteq Upto(i)
    BY <1>2, <1>3 DEF FilesIn
<1>5. Rows(i) \subseteq Upto(i)
    BY <1>3, <1>4 DEF Rows, RowsIn
<1> QED BY <1>2, <1>4, <1>5

\* Committed metadata and data files are never written again, so what a snapshot lists
\* and what a scan of it reads stay what they were.
LEMMA Stable ==
    ASSUME WType, ListInv, NameInv, \A i \in 1 .. Len(log) : log'[i] = log[i],
           \A v \in Committed : /\ list'[v] = list[v] /\ files'[v] = files[v]
                                /\ deletes'[v] = deletes[v] /\ holds'[v] = holds[v]
    PROVE  /\ \A M \in SUBSET Committed : FilesIn(M)' = FilesIn(M) /\ RowsIn(M)' = RowsIn(M)
           /\ \A i \in 0 .. Len(log) : /\ ManifestsAt(i)' = ManifestsAt(i) /\ Rows(i)' = Rows(i)
                                       /\ ManifestsAt(i) \subseteq Committed
                                       /\ Upto(i)' = Upto(i)
                                       /\ FilesIn(ManifestsAt(i))' = FilesIn(ManifestsAt(i))
<1>1. /\ Len(log) \in Nat /\ \A i \in 0 .. Len(log) : Upto(i) \subseteq Committed
      /\ \A i \in 1 .. Len(log) : log[i] \in Committed
      /\ Committed \subseteq Writes
    BY UptoFacts
<1>2. \A m \in Committed : files[m] \subseteq Committed
  <2> SUFFICES ASSUME NEW i \in 1 .. Len(log) PROVE files[log[i]] \subseteq Committed
      BY DEF Committed
  <2>1. files[log[i]] \subseteq Upto(i) /\ i \in 0 .. Len(log)
      BY <1>1 DEF NameInv, NameAt
  <2> QED BY <1>1, <2>1
<1>3. ASSUME NEW M \in SUBSET Committed
      PROVE  FilesIn(M)' = FilesIn(M) /\ RowsIn(M)' = RowsIn(M)
  <2>1. FilesIn(M)' = FilesIn(M)
      BY DEF FilesIn
  <2>2. FilesIn(M) \subseteq Committed
      BY <1>2 DEF FilesIn
  <2>3. \A f \in FilesIn(M) : holds'[f] = holds[f]
      BY <2>2
  <2>4. \A m \in M : deletes'[m] = deletes[m]
      OBVIOUS
  <2> QED BY <2>1, <2>3, <2>4 DEF RowsIn
<1>4. ASSUME NEW i \in 0 .. Len(log)
      PROVE  ManifestsAt(i)' = ManifestsAt(i) /\ ManifestsAt(i) \subseteq Committed /\ Upto(i)' = Upto(i)
  <2>1. i # 0 => i \in 1 .. Len(log)
      BY <1>1
  <2>2. ManifestsAt(i)' = ManifestsAt(i)
      BY <1>1, <2>1 DEF ManifestsAt
  <2>3. ManifestsAt(i) \subseteq Committed
      BY <1>1, PastFacts
  <2>4. Upto(i)' = Upto(i)
      BY <1>1 DEF Upto
  <2> QED BY <2>2, <2>3, <2>4
<1>5. ASSUME NEW i \in 0 .. Len(log)
      PROVE  FilesIn(ManifestsAt(i))' = FilesIn(ManifestsAt(i)) /\ Rows(i)' = Rows(i)
  <2>1. PICK M \in SUBSET Committed : M = ManifestsAt(i)
      BY <1>4
  <2>2. ManifestsAt(i)' = M
      BY <1>4, <2>1
  <2>3. FilesIn(M)' = FilesIn(M) /\ RowsIn(M)' = RowsIn(M)
      BY <1>3
  <2>4. FilesIn(ManifestsAt(i))' = FilesIn(M)
      BY <2>2, <2>3 DEF FilesIn
  <2>5. Rows(i)' = RowsIn(M)
    <3>1. Rows(i)' = RowsIn(M)'
        BY <2>2, <2>4, <2>3 DEF Rows, RowsIn
    <3> QED BY <2>3, <3>1
  <2> QED BY <2>1, <2>4, <2>5 DEF Rows
<1> QED BY <1>3, <1>4, <1>5

(***************************************************************************)
(* What a commit does to the rows.                                         *)
(***************************************************************************)
\* A row a scan reads is in a file of a manifest listed, and no delete listed names it.
LEMMA RowsMember ==
    ASSUME NEW M, NEW b
    PROVE  b \in RowsIn(M) <=>
             /\ b \in Writes
             /\ \E m \in M : \E f \in files[m] :
                   b \in holds[f] /\ \A d \in M : <<f, b>> \notin deletes[d]
BY DEF RowsIn, FilesIn

\* A manifest that names files deletes nothing, and deletes name files of the past.
LEMMA ManifestShape ==
    ASSUME NameInv, NEW i \in 1 .. Len(log)
    PROVE  /\ files[log[i]] # {} => deletes[log[i]] = {}
           /\ \A f, b : <<f, b>> \in deletes[log[i]] => f \in Upto(i - 1)
<1>1. files[log[i]] # {} => deletes[log[i]] = {}
    BY DEF NameInv, NameAt
<1>2. ASSUME NEW f, NEW b, <<f, b>> \in deletes[log[i]]
      PROVE  f \in Upto(i - 1)
  <2>1. <<f, b>>[1] \in Upto(i - 1)
      BY <1>2 DEF NameInv, NameAt
  <2> QED BY <2>1
<1> QED BY <1>1, <1>2

\* A rewrite that is carried forward reads the same rows as the snapshot it is made over
\* (Rewritten::carried, commit_rewrite).  What was added since its base names files of its
\* own, or else it is a merge of all the data manifests there were, and then none of base's
\* would be listed any more; so no delete of base is about them.
LEMMA RewriteKeepsRows ==
    ASSUME WType, OwnInv, TableInv, NEW w \in Writes, kind[w] = "rewrite",
           NEW n \in 0 .. Len(log), base[w] <= n, CarriedTo(w, n)
    PROVE  RowsIn((ManifestsAt(n) \ ManifestsAt(base[w])) \cup {w}) = Rows(n)
<1> DEFINE B == ManifestsAt(base[w])
           C == ManifestsAt(n)
           N == (C \ B) \cup {w}
<1>0. OnceInv /\ ListInv /\ NameInv
    BY DEF TableInv
<1>1. /\ files[w] = {w} /\ deletes[w] = {} /\ holds[w] = RowsIn(B) /\ FilesIn(B) # {}
      /\ B \subseteq C /\ \A m \in C \ B : deletes[m] = {}
    BY DEF OwnInv, OwnAt, Own, CarriedTo, Rows
<1>2. Len(log) \in Nat /\ base[w] \in 0 .. Len(log)
    BY DEF WType, TypeOK, StandInv, StandOK
<1>3. PICK m0 \in B : files[m0] # {}
  <2> HIDE DEF B
  <2> QED BY <1>1 DEF FilesIn
<1>4. base[w] \in 1 .. Len(log) /\ n \in 1 .. Len(log) /\ B = list[log[base[w]]] /\ C = list[log[n]]
  <2>1. base[w] # 0
      BY <1>3 DEF ManifestsAt
  <2> QED BY <1>2, <2>1 DEF ManifestsAt
<1>5. B \subseteq Upto(base[w]) /\ C \subseteq Upto(n)
    BY <1>4, <1>0 DEF ListInv
<1> HIDE DEF B, C
<1>6. ASSUME NEW m \in C \ B
      PROVE  \E j \in (base[w] + 1) .. n : m = log[j]
  <2>1. PICK j \in 1 .. n : m = log[j]
      BY <1>5 DEF Upto
  <2>2. CASE j <= base[w]
    <3>1. /\ j \in 1 .. Len(log) /\ base[w] \in j .. Len(log) /\ n \in j .. Len(log) /\ base[w] <= n
        BY <1>2, <1>4, <2>2
    <3>2. log[j] \in list[log[n]] => log[j] \in list[log[base[w]]]
        BY <1>0, <3>1 DEF ListInv
    <3> QED BY <1>4, <2>1, <3>2
  <2>3. CASE j > base[w]
      BY <1>2, <1>4, <2>1, <2>3
  <2> QED BY <1>2, <1>4, <2>2, <2>3
<1>7. PICK i0 \in 1 .. base[w] : m0 = log[i0]
    BY <1>3, <1>5 DEF Upto
<1>8. deletes[m0] = {}
  <2>1. i0 \in 1 .. Len(log)
      BY <1>2, <1>4
  <2> QED BY <1>0, <1>3, <1>7, <2>1, ManifestShape
<1>9. ASSUME NEW m \in C \ B, NEW f \in files[m]
      PROVE  f = m
  <2>1. PICK j \in (base[w] + 1) .. n : m = log[j]
      BY <1>6
  <2>2. j \in 1 .. Len(log) /\ i0 \in 1 .. Len(log) /\ i0 < j /\ j \in i0 .. Len(log) /\ n \in i0 .. Len(log) /\ j <= n
      BY <1>2, <1>4, <1>7
  <2>3. m0 \in list[m] /\ m0 # m
    <3>1. log[i0] \in list[log[n]]
        BY <1>1, <1>4, <1>7
    <3>2. log[i0] \in list[log[j]]
        BY <1>0, <2>2, <3>1 DEF ListInv
    <3>3. log[i0] # log[j]
        BY <1>0, <2>2 DEF OnceInv
    <3> QED BY <1>7, <2>1, <3>2, <3>3
  <2>4. ~(\A d \in list[m] \ {m} : deletes[d] # {})
      BY <1>8, <2>3
  <2>5. files[m] = {m} \/ files[m] = {}
      BY <1>0, <2>1, <2>2, <2>4 DEF NameInv, NameAt
  <2> QED BY <2>5
<1>10. ASSUME NEW m \in C \ B, NEW f \in files[m], NEW d \in C, NEW b
       PROVE  <<f, b>> \notin deletes[d]
  <2>1. CASE d \in C \ B
      BY <1>1, <2>1
  <2>2. CASE d \in B
    <3>1. PICK j \in (base[w] + 1) .. n : m = log[j]
        BY <1>6
    <3>2. PICK i \in 1 .. base[w] : d = log[i]
        BY <1>5, <2>2 DEF Upto
    <3>3. i \in 1 .. Len(log) /\ j \in 1 .. Len(log)
        BY <1>2, <1>4
    <3>4. log[j] \notin Upto(i - 1)
      <4> SUFFICES ASSUME NEW l \in 1 .. (i - 1), log[j] = log[l] PROVE FALSE
          BY DEF Upto
      <4>1. l \in 1 .. Len(log) /\ l # j
          BY <1>2, <1>4
      <4> QED BY <1>0, <3>3, <4>1 DEF OnceInv
    <3> QED BY <1>0, <1>9, <3>1, <3>2, <3>3, <3>4, ManifestShape
  <2> QED BY <1>1, <2>1, <2>2
<1>11. ASSUME NEW b \in RowsIn(N)
       PROVE  b \in RowsIn(C)
  <2>1. b \in Writes
      BY RowsMember
  <2>2. PICK m \in N : \E f \in files[m] : b \in holds[f] /\ \A d \in N : <<f, b>> \notin deletes[d]
      BY RowsMember, ZenonT(30)
  <2>3. CASE m = w
    <3>1. b \in RowsIn(B)
        BY <1>1, <2>2, <2>3
    <3>2. PICK m1 \in B : \E f \in files[m1] : b \in holds[f] /\ \A d \in B : <<f, b>> \notin deletes[d]
        BY <3>1, RowsMember
    <3>3. \E f \in files[m1] : b \in holds[f] /\ \A d \in C : <<f, b>> \notin deletes[d]
        BY <1>1, <3>2
    <3> QED BY <1>1, <2>1, <3>3, RowsMember
  <2>4. CASE m \in C \ B
    <3>1. \E f \in files[m] : b \in holds[f] /\ \A d \in C : <<f, b>> \notin deletes[d]
        BY <1>10, <2>2, <2>4
    <3> QED BY <2>1, <2>4, <3>1, RowsMember
  <2> QED BY <2>3, <2>4
<1>12. ASSUME NEW b \in RowsIn(C)
       PROVE  b \in RowsIn(N)
  <2>1. b \in Writes
      BY RowsMember
  <2>2. PICK m \in C : \E f \in files[m] : b \in holds[f] /\ \A d \in C : <<f, b>> \notin deletes[d]
      BY RowsMember
  <2>3. \A d \in N : deletes[d] = {}
      BY <1>1
  <2>4. CASE m \in B
    <3>1. \E f \in files[m] : b \in holds[f] /\ \A d \in B : <<f, b>> \notin deletes[d]
        BY <1>1, <2>2
    <3>2. b \in holds[w]
        BY <1>1, <2>1, <2>4, <3>1, RowsMember
    <3>3. w \in N /\ w \in files[w] /\ \A d \in N : <<w, b>> \notin deletes[d]
        BY <1>1, <2>3
    <3> HIDE DEF N
    <3> QED BY <2>1, <3>2, <3>3, RowsMember
  <2>5. CASE m \notin B
    <3>1. m \in N /\ \E f \in files[m] : b \in holds[f] /\ \A d \in N : <<f, b>> \notin deletes[d]
        BY <2>2, <2>3, <2>5
    <3> HIDE DEF N
    <3> QED BY <2>1, <3>1, RowsMember
  <2> QED BY <2>4, <2>5
<1>13. RowsIn(N) = RowsIn(C)
  <2> HIDE DEF N
  <2> QED BY <1>11, <1>12
<1> QED BY <1>13 DEF B, C, Rows

\* A data file listed alone is all that is read.
LEMMA RowsAlone ==
    ASSUME NEW w \in Writes, files[w] = {w}, holds[w] = {w}, deletes[w] = {}
    PROVE  RowsIn({w}) = {w}
<1>1. FilesIn({w}) = {w}
  <2>1. \A f : f \in FilesIn({w}) <=> f \in files[w]
      BY DEF FilesIn
  <2> QED BY <2>1
<1>2. w \in RowsIn({w})
    BY <1>1 DEF RowsIn
<1>3. ASSUME NEW b \in RowsIn({w}) PROVE b = w
  <2>1. PICK f \in FilesIn({w}) : b \in holds[f]
      BY DEF RowsIn
  <2> QED BY <1>1, <2>1
<1> QED BY <1>2, <1>3

\* A data file of the write's own, listed after all there was, adds its rows.
LEMMA AppendAddsRows ==
    ASSUME WType, ListInv, NameInv, NEW w \in Writes, NEW n \in 0 .. Len(log), w \notin Upto(n),
           files[w] = {w}, holds[w] = {w}, deletes[w] = {}
    PROVE  RowsIn(ManifestsAt(n) \cup {w}) = Rows(n) \cup {w}
<1> DEFINE C == ManifestsAt(n)
           N == C \cup {w}
<1>1. C \subseteq Upto(n) /\ Len(log) \in Nat
    BY PastFacts, UptoFacts
<1>2. ASSUME NEW d \in N, NEW b
      PROVE  <<w, b>> \notin deletes[d]
  <2>1. CASE d = w
      BY <2>1
  <2>2. CASE d \in C
    <3>1. PICK i \in 1 .. n : d = log[i]
        BY <1>1, <2>2 DEF Upto
    <3>2. i \in 1 .. Len(log) /\ i - 1 \in 0 .. Len(log) /\ i - 1 <= n
        BY <1>1
    <3>3. w \notin Upto(i - 1)
        BY <3>2, UptoFacts
    <3> QED BY <3>1, <3>2, <3>3, ManifestShape
  <2> QED BY <2>1, <2>2
<1>3. \A d \in N : d \in C \/ deletes[d] = {}
    OBVIOUS
<1>4. ASSUME NEW b \in RowsIn(N)
      PROVE  b \in RowsIn(C) \cup {w}
  <2>1. b \in Writes
      BY RowsMember
  <2>2. PICK m \in N : \E f \in files[m] : b \in holds[f] /\ \A d \in N : <<f, b>> \notin deletes[d]
    <3> HIDE DEF N
    <3> QED BY RowsMember
  <2>3. CASE m = w
      BY <2>2, <2>3
  <2>4. CASE m \in C
    <3>1. \E f \in files[m] : b \in holds[f] /\ \A d \in C : <<f, b>> \notin deletes[d]
        BY <2>2
    <3> HIDE DEF C
    <3> QED BY <2>1, <2>4, <3>1, RowsMember
  <2> QED BY <2>3, <2>4
<1>5. ASSUME NEW b \in RowsIn(C)
      PROVE  b \in RowsIn(N)
  <2>1. b \in Writes
      BY RowsMember
  <2>2. PICK m \in C : \E f \in files[m] : b \in holds[f] /\ \A d \in C : <<f, b>> \notin deletes[d]
      BY RowsMember
  <2>3. m \in N /\ \E f \in files[m] : b \in holds[f] /\ \A d \in N : <<f, b>> \notin deletes[d]
      BY <1>3, <2>2
  <2> HIDE DEF N
  <2> QED BY <2>1, <2>3, RowsMember
<1>6. w \in RowsIn(N)
  <2>1. w \in N /\ w \in files[w] /\ w \in holds[w] /\ \A d \in N : <<w, w>> \notin deletes[d]
      BY <1>2
  <2> HIDE DEF N
  <2> QED BY <2>1, RowsMember
<1>7. RowsIn(N) = RowsIn(C) \cup {w}
  <2> HIDE DEF N, C
  <2> QED BY <1>4, <1>5, <1>6
<1> QED BY <1>7 DEF Rows

(***************************************************************************)
(* The invariant is kept.                                                  *)
(***************************************************************************)
\* What is committed stays as it is.
Kept == /\ \A i \in 1 .. Len(log) : log'[i] = log[i]
        /\ \A v \in Committed : /\ list'[v] = list[v] /\ files'[v] = files[v] /\ deletes'[v] = deletes[v]
                                /\ holds'[v] = holds[v] /\ kind'[v] = kind[v] /\ base'[v] = base[v]

\* A snapshot that was there before a commit is where it was.
LEMMA OldIndex ==
    ASSUME WType, TableInv, Kept, NEW i \in 1 .. Len(log)
    PROVE  NameAt(i)' /\ ApartAt(i)' /\ CommitAt(i)'
<1> DEFINE m == log[i]
<1>0. ListInv /\ NameInv /\ ApartInv /\ CommitInv
    BY DEF TableInv
<1>1. /\ Len(log) \in Nat /\ i \in 0 .. Len(log) /\ i - 1 \in 0 .. Len(log)
      /\ m \in Committed /\ m \in Writes /\ list[m] \subseteq Committed
  <2>1. Len(log) \in Nat /\ m \in Committed /\ m \in Writes
      BY UptoFacts
  <2>2. i \in 0 .. Len(log) /\ i - 1 \in 0 .. Len(log)
      BY <2>1
  <2> QED BY <1>0, <2>1, <2>2, UptoFacts DEF ListInv
<1>2. log'[i] = m /\ list'[m] = list[m] /\ files'[m] = files[m] /\ deletes'[m] = deletes[m]
      /\ holds'[m] = holds[m] /\ kind'[m] = kind[m] /\ base'[m] = base[m]
    BY <1>1 DEF Kept
<1>3. \A v \in list[m] : files'[v] = files[v] /\ deletes'[v] = deletes[v]
    BY <1>1 DEF Kept
<1>4. /\ \A M \in SUBSET Committed : FilesIn(M)' = FilesIn(M) /\ RowsIn(M)' = RowsIn(M)
      /\ \A j \in 0 .. Len(log) : /\ ManifestsAt(j)' = ManifestsAt(j) /\ Rows(j)' = Rows(j)
                                  /\ Upto(j)' = Upto(j)
                                  /\ FilesIn(ManifestsAt(j))' = FilesIn(ManifestsAt(j))
    BY <1>0, Stable DEF Kept
<1>5. i > 1 => FilesIn(list[log[i - 1]])' = FilesIn(list[log[i - 1]])
  <2>1. i > 1 => ManifestsAt(i - 1) = list[log[i - 1]] /\ ManifestsAt(i - 1)' = list'[log'[i - 1]]
      BY <1>1 DEF ManifestsAt
  <2>2. i > 1 => FilesIn(ManifestsAt(i - 1))' = FilesIn(list[log[i - 1]])'
      BY <2>1 DEF FilesIn
  <2> QED BY <1>1, <1>4, <2>1, <2>2
<1>6. NameAt(i)'
  <2>1. NameAt(i)
      BY <1>0 DEF NameInv
  <2>2. Upto(i)' = Upto(i) /\ Upto(i - 1)' = Upto(i - 1)
      BY <1>1, <1>4
  <2> QED BY <1>2, <1>3, <1>5, <2>1, <2>2 DEF NameAt
<1>7. ApartAt(i)'
    BY <1>0, <1>2, <1>3 DEF ApartInv, ApartAt
<1>8. CommitAt(i)'
  <2>1. CommitAt(i) /\ base[m] \in 0 .. Len(log)
      BY <1>0, <1>1 DEF CommitInv, WType, StandInv, StandOK
  <2>2. ManifestsAt(i - 1)' = ManifestsAt(i - 1) /\ Rows(i - 1)' = Rows(i - 1)
        /\ ManifestsAt(base[m])' = ManifestsAt(base[m])
    <3>1. PICK n \in 0 .. Len(log) : n = base[m]
        BY <2>1
    <3>2. ManifestsAt(n)' = ManifestsAt(n)
        BY <1>4
    <3>3. ManifestsAt(base[m])' = ManifestsAt(n)'
        BY <1>2, <3>1 DEF ManifestsAt
    <3> QED BY <1>1, <1>4, <3>1, <3>2, <3>3
  <2>3. RowsIn(list[m])' = RowsIn(list[m])
    <3>1. PICK M \in SUBSET Committed : M = list[m]
        BY <1>1
    <3>2. RowsIn(list[m])' = RowsIn(M)'
        BY <1>2, <3>1 DEF RowsIn, FilesIn
    <3> QED BY <1>4, <3>1, <3>2
  <2> QED BY <1>2, <2>1, <2>2, <2>3 DEF CommitAt
<1> QED BY <1>6, <1>7, <1>8

\* No commit: the history is what it was.
LEMMA SameLog ==
    ASSUME WType, TableInv, Kept, log' = log
    PROVE  TableInv'
<1>0. OnceInv /\ ListInv
    BY DEF TableInv
<1>1. \A i \in 1 .. Len(log) : log[i] \in Committed
    BY UptoFacts
<1>2. OnceInv'
    BY <1>0 DEF OnceInv
<1>3. \A i \in 1 .. Len(log) : list'[log[i]] = list[log[i]]
    BY <1>1 DEF Kept
<1>4. ListInv'
    BY <1>0, <1>3 DEF ListInv, Upto
<1>5. NameInv' /\ ApartInv' /\ CommitInv'
    BY OldIndex DEF NameInv, ApartInv, CommitInv
<1> QED BY <1>2, <1>4, <1>5 DEF TableInv

\* A commit: what holds of the snapshots there were still does, and a manifest that the new
\* snapshot lists was listed by the one before it.
LEMMA PushTable ==
    ASSUME WType, TableInv, Kept, NEW w \in Writes, w \notin Committed, NEW n \in Nat, n = Len(log),
           NEW M \in SUBSET (ManifestsAt(n) \cup {w}), w \in M, Push(w, M),
           NameAt(n + 1)', ApartAt(n + 1)', CommitAt(n + 1)'
    PROVE  TableInv'
<1>0. OnceInv /\ ListInv /\ NameInv
    BY DEF TableInv
<1>1. TypeOK /\ n \in Nat /\ n \in 0 .. n /\ Committed \subseteq Writes /\ Upto(n) = Committed
      /\ (\A i \in 1 .. n : log[i] \in Committed)
  <2>1. TypeOK
      BY DEF WType
  <2> QED BY <2>1, UptoFacts
<1>2. ManifestsAt(n) \subseteq Committed
    BY <1>0, <1>1, PastFacts
<1>3. M \in SUBSET Writes
    BY <1>1, <1>2
<1>4. /\ Len(log') = n + 1
      /\ \A i \in 1 .. n : log'[i] = log[i] /\ list'[log[i]] = list[log[i]] /\ log[i] # w
      /\ log'[n + 1] = w /\ list'[w] = M
  <2>1. Len(log') = n + 1 /\ log'[n + 1] = w
      BY <1>1, <1>3, PushFacts
  <2>2. list'[w] = M
      BY <1>1 DEF Push, TypeOK
  <2> QED BY <1>1, <2>1, <2>2 DEF Kept
<1>5. \A i \in 1 .. (n + 1) : i \in 1 .. n \/ i = n + 1
    BY <1>1
<1>6. OnceInv'
    BY <1>0, <1>1, <1>4, <1>5 DEF OnceInv
<1>7. \A i \in 1 .. (n + 1) : i <= n => Upto(i)' = Upto(i)
    BY <1>1, <1>4 DEF Upto
<1>8. Upto(n + 1)' = Committed \cup {w}
  <2>1. Committed' = Committed \cup {w}
      BY <1>1, <1>3, PushFacts
  <2>2. Committed' = Upto(n + 1)'
      BY <1>4 DEF Upto, Committed
  <2> QED BY <2>1, <2>2
<1>9. ASSUME NEW i \in 1 .. (n + 1)
      PROVE  log'[i] \in list'[log'[i]] /\ list'[log'[i]] \subseteq Upto(i)'
  <2>1. CASE i \in 1 .. n
    <3>1. log[i] \in list[log[i]] /\ list[log[i]] \subseteq Upto(i)
        BY <1>0, <2>1 DEF ListInv
    <3>2. i <= n
        BY <2>1, <1>1
    <3> QED BY <1>4, <1>7, <2>1, <3>1, <3>2
  <2>2. CASE i = n + 1
      BY <1>2, <1>4, <1>8, <2>2
  <2> QED BY <1>5, <2>1, <2>2
<1>10. ASSUME NEW i \in 1 .. (n + 1), NEW j \in i .. (n + 1), NEW k \in i .. (n + 1), j <= k,
              log'[i] \in list'[log'[k]]
       PROVE  log'[i] \in list'[log'[j]]
  <2>1. CASE i = n + 1
    <3>1. j = k
        BY <1>1, <2>1
    <3> QED BY <1>10, <3>1
  <2>2. CASE i \in 1 .. n /\ j = n + 1
    <3>1. j = k
        BY <1>1, <1>10, <2>2
    <3> QED BY <1>10, <3>1
  <2>3. CASE i \in 1 .. n /\ j # n + 1
    <3>1. j \in i .. n /\ j \in 1 .. n /\ n \in i .. n /\ j <= n /\ n \in 1 .. n /\ n # 0
        BY <1>1, <2>3
    <3>2. CASE k = n + 1
      <4>1. log[i] \in ManifestsAt(n)
          BY <1>4, <1>10, <2>3, <3>2
      <4>2. log[i] \in list[log[n]]
          BY <3>1, <4>1 DEF ManifestsAt
      <4>3. log[i] \in list[log[j]]
          BY <1>0, <2>3, <3>1, <4>2 DEF ListInv
      <4> QED BY <1>4, <2>3, <3>1, <4>3
    <3>3. CASE k # n + 1
      <4>1. k \in i .. n /\ k \in 1 .. n
          BY <1>1, <2>3, <3>3
      <4>2. log[i] \in list[log[k]]
          BY <1>4, <1>10, <2>3, <4>1
      <4>3. log[i] \in list[log[j]]
          BY <1>0, <1>10, <2>3, <3>1, <4>1, <4>2 DEF ListInv
      <4> QED BY <1>4, <2>3, <3>1, <4>3
    <3> QED BY <3>2, <3>3
  <2> QED BY <1>5, <2>1, <2>2, <2>3
<1>11. ListInv'
    BY <1>4, <1>9, <1>10 DEF ListInv
<1>12. NameInv' /\ ApartInv' /\ CommitInv'
  <2>1. \A i \in 1 .. n : NameAt(i)' /\ ApartAt(i)' /\ CommitAt(i)'
      BY OldIndex
  <2>2. NameAt(n + 1)' /\ ApartAt(n + 1)' /\ CommitAt(n + 1)'
      OBVIOUS
  <2>3. \A i \in 1 .. (n + 1) : NameAt(i)' /\ ApartAt(i)' /\ CommitAt(i)'
      BY <1>5, <2>1, <2>2
  <2> QED BY <1>4, <2>3 DEF NameInv, ApartInv, CommitInv
<1> QED BY <1>6, <1>11, <1>12 DEF TableInv

\* A write that takes no step keeps what it has, whatever is committed meanwhile.
LEMMA OwnStable ==
    ASSUME WType, OwnInv, ListInv, NameInv, Kept, NEW v \in Writes,
           pc'[v] = pc[v] \/ (pc'[v] \notin {"idle", "attempt"} /\ pc[v] # "idle"),
           pc'[v] = "attempt" => seen'[v] = seen[v],
           kind'[v] = kind[v], base'[v] = base[v], files'[v] = files[v],
           deletes'[v] = deletes[v], holds'[v] = holds[v]
    PROVE  OwnAt(v)'
<1>1. base[v] \in 0 .. Len(log) /\ seen[v] \in 0 .. Len(log)
    BY DEF WType, StandInv, StandOK
<1>2. \A i \in 0 .. Len(log) : /\ ManifestsAt(i)' = ManifestsAt(i) /\ Rows(i)' = Rows(i)
                              /\ ManifestsAt(i) \subseteq Committed
                              /\ FilesIn(ManifestsAt(i))' = FilesIn(ManifestsAt(i))
    BY Stable DEF Kept
<1>3. PICK n \in 0 .. Len(log) : n = base[v]
    BY <1>1
<1>4. /\ Rows(base[v])' = Rows(n)' /\ ManifestsAt(base[v])' = ManifestsAt(n)'
      /\ FilesIn(ManifestsAt(base[v]))' = FilesIn(ManifestsAt(n))'
    BY <1>3 DEF Rows, ManifestsAt, FilesIn
<1>5. /\ Rows(base[v])' = Rows(base[v]) /\ ManifestsAt(base[v])' = ManifestsAt(base[v])
      /\ FilesIn(ManifestsAt(base[v]))' = FilesIn(ManifestsAt(base[v]))
    BY <1>2, <1>3, <1>4
<1>6. seen'[v] = seen[v] => (CarriedTo(v, seen[v]) => CarriedTo(v, seen[v])')
  <2> SUFFICES ASSUME seen'[v] = seen[v], CarriedTo(v, seen[v]) PROVE CarriedTo(v, seen[v])'
      OBVIOUS
  <2>1. PICK k \in 0 .. Len(log) : k = seen[v]
      BY <1>1
  <2>2. ManifestsAt(seen[v])' = ManifestsAt(k)'
      BY <2>1 DEF ManifestsAt
  <2>3. ManifestsAt(seen[v])' = ManifestsAt(seen[v]) /\ ManifestsAt(seen[v]) \subseteq Committed
      BY <1>2, <2>1, <2>2
  <2>4. \A m \in Committed : deletes'[m] = deletes[m]
      BY DEF Kept
  <2> QED BY <1>5, <2>3, <2>4 DEF CarriedTo
<1>7. OwnAt(v)
    BY DEF OwnInv
<1> QED BY <1>5, <1>6, <1>7 DEF OwnAt

\* The snapshot a commit makes.
LEMMA PushNew ==
    ASSUME WType, ListInv, NameInv, Kept, NEW w \in Writes, NEW n \in Nat, n = Len(log),
           NEW M \in SUBSET Writes, Push(w, M)
    PROVE  /\ Len(log') = n + 1 /\ log'[n + 1] = w /\ list'[w] = M
           /\ Upto(n + 1)' = Committed \cup {w} /\ Upto(n)' = Committed
           /\ ManifestsAt(n)' = ManifestsAt(n) /\ Rows(n)' = Rows(n)
           /\ FilesIn(ManifestsAt(n))' = FilesIn(ManifestsAt(n))
           /\ ManifestsAt(n + 1)' = M /\ Rows(n + 1)' = RowsIn(M)'
           /\ ManifestsAt(n) \subseteq Committed /\ FilesIn(ManifestsAt(n)) \subseteq Committed
           /\ Rows(n) \subseteq Committed
<1>1. TypeOK /\ n \in 0 .. n /\ Upto(n) = Committed
  <2>1. TypeOK
      BY DEF WType
  <2> QED BY <2>1, UptoFacts
<1>2. Len(log') = n + 1 /\ log'[n + 1] = w /\ list'[w] = M /\ Committed' = Committed \cup {w}
  <2>1. list'[w] = M
      BY <1>1 DEF TypeOK, Push
  <2> QED BY <1>1, <2>1, PushFacts
<1>3. Upto(n + 1)' = Committed \cup {w}
    BY <1>2 DEF Upto, Committed
<1>4. /\ Upto(n)' = Upto(n) /\ ManifestsAt(n)' = ManifestsAt(n) /\ Rows(n)' = Rows(n)
      /\ FilesIn(ManifestsAt(n))' = FilesIn(ManifestsAt(n))
    BY <1>1, Stable DEF Kept
<1>5. ManifestsAt(n + 1)' = M /\ Rows(n + 1)' = RowsIn(M)'
  <2>1. ManifestsAt(n + 1)' = M
      BY <1>2 DEF ManifestsAt
  <2> QED BY <2>1 DEF Rows, RowsIn, FilesIn
<1>6. ManifestsAt(n) \subseteq Committed /\ FilesIn(ManifestsAt(n)) \subseteq Committed
      /\ Rows(n) \subseteq Committed
    BY <1>1, PastFacts
<1> QED BY <1>1, <1>2, <1>3, <1>4, <1>5, <1>6

\* Engine::begin_write and compact: only what is the write's own is written.
LEMMA BeginKeeps ==
    ASSUME IInv, NEW w \in Writes, NEW c \in Contracts, NEW k \in Own, NEW p \in Policies,
           NEW rows \in SUBSET Writes, Begin(w, c, k, p, rows, Current),
           k # "rewrite" => rows = {w}, k = "rewrite" => rows = Rows(Current) /\ FilesIn(ManifestsAt(Current)) # {}
    PROVE  OwnInv' /\ TableInv' /\ Kept /\ log' = log /\ w \notin Committed
<1>1. WType /\ TypeOK /\ OwnInv /\ TableInv /\ ListInv /\ NameInv
    BY DEF IInv, WType, TableInv
<1>2. pc[w] = "idle" /\ pc' = [pc EXCEPT ![w] = "writing"] /\ kind' = [kind EXCEPT ![w] = k]
      /\ base' = [base EXCEPT ![w] = Len(log)] /\ holds' = [holds EXCEPT ![w] = rows]
      /\ files' = [files EXCEPT ![w] = {w}] /\ UNCHANGED <<log, list, deletes, seen>>
    BY DEF Begin, Current
<1>3. w \notin Committed /\ Committed \subseteq Writes
    BY <1>1, <1>2, UptoFacts DEF WType, StandInv, StandOK
<1>4. \A v \in Writes \ {w} : /\ pc'[v] = pc[v] /\ kind'[v] = kind[v] /\ base'[v] = base[v]
                              /\ holds'[v] = holds[v] /\ files'[v] = files[v] /\ deletes'[v] = deletes[v]
    BY <1>1, <1>2 DEF TypeOK
<1>5. Kept
    BY <1>2, <1>3, <1>4 DEF Kept
<1>6. TableInv'
    BY <1>1, <1>2, <1>5, SameLog
<1>7. ASSUME NEW v \in Writes
      PROVE  OwnAt(v)'
  <2>1. CASE v # w
      BY <1>1, <1>2, <1>4, <1>5, <2>1, OwnStable
  <2>2. CASE v = w
    <3>1. pc'[w] = "writing" /\ kind'[w] = k /\ base'[w] = Len(log) /\ holds'[w] = rows /\ files'[w] = {w}
          /\ deletes'[w] = deletes[w]
        BY <1>1, <1>2 DEF TypeOK
    <3>2. deletes[w] = {}
        BY <1>1, <1>2 DEF OwnInv, OwnAt
    <3>3. k = "rewrite" => rows = Rows(base[w])' /\ FilesIn(ManifestsAt(base[w]))' # {}
      <4>1. PICK n \in 0 .. Len(log) : n = Len(log)
          BY <1>1 DEF TypeOK
      <4>2. Rows(n)' = Rows(n) /\ FilesIn(ManifestsAt(n))' = FilesIn(ManifestsAt(n))
          BY <1>1, <1>5, Stable DEF Kept
      <4>3. Rows(base[w])' = Rows(n)' /\ FilesIn(ManifestsAt(base[w]))' = FilesIn(ManifestsAt(n))'
          BY <3>1, <4>1 DEF Rows, ManifestsAt, FilesIn
      <4>4. k = "rewrite" => rows = Rows(n) /\ FilesIn(ManifestsAt(n)) # {}
          BY <4>1 DEF Current
      <4> QED BY <4>2, <4>3, <4>4
    <3> QED BY <2>2, <3>1, <3>2, <3>3 DEF OwnAt, Own
  <2> QED BY <2>1, <2>2
<1> QED BY <1>2, <1>3, <1>5, <1>6, <1>7 DEF OwnInv

\* The steps that write nothing of the table, and begin no attempt.
LEMMA QuietKeeps ==
    ASSUME IInv, UNCHANGED <<log, list, files, deletes, holds, kind, base>>,
           \A v \in Writes : /\ pc'[v] = pc[v] \/ (pc'[v] \notin {"idle", "attempt"} /\ pc[v] # "idle")
                             /\ pc'[v] = "attempt" => seen'[v] = seen[v]
    PROVE  OwnInv' /\ TableInv' /\ Kept
<1>1. WType /\ OwnInv /\ TableInv /\ ListInv /\ NameInv
    BY DEF IInv, TableInv
<1>2. Kept
    BY DEF Kept
<1>3. TableInv'
    BY <1>1, <1>2, SameLog
<1>4. ASSUME NEW v \in Writes PROVE OwnAt(v)'
    BY <1>1, <1>2, OwnStable
<1> QED BY <1>2, <1>3, <1>4 DEF OwnInv

\* An attempt is made over the current snapshot, when it may be (MayAttempt).
LEMMA AttemptKeeps ==
    ASSUME IInv, NEW w \in Writes, Attempt(w)
    PROVE  OwnInv' /\ TableInv' /\ Kept
<1>1. WType /\ TypeOK /\ OwnInv /\ TableInv /\ ListInv /\ NameInv
    BY DEF IInv, WType, TableInv
<1>2. UNCHANGED <<log, list, files, deletes, holds, kind, base>> /\ pc[w] = "ready"
    BY DEF Attempt, tableVars
<1>3. CASE ~MayAttempt(w)
  <2>1. pc' = [pc EXCEPT ![w] = "conflict"] /\ seen' = seen
      BY <1>3 DEF Attempt
  <2>2. \A v \in Writes : /\ pc'[v] = pc[v] \/ (pc'[v] \notin {"idle", "attempt"} /\ pc[v] # "idle")
                          /\ pc'[v] = "attempt" => seen'[v] = seen[v]
      BY <1>1, <1>2, <2>1 DEF TypeOK
  <2> QED BY <1>2, <2>2, QuietKeeps
<1>4. CASE MayAttempt(w)
  <2>1. pc' = [pc EXCEPT ![w] = "attempt"] /\ seen' = [seen EXCEPT ![w] = Len(log)]
      BY <1>4 DEF Attempt, Current
  <2>2. Kept
      BY <1>2 DEF Kept
  <2>3. TableInv'
      BY <1>1, <1>2, <2>2, SameLog
  <2>4. ASSUME NEW v \in Writes PROVE OwnAt(v)'
    <3>1. CASE v # w
      <4>1. pc'[v] = pc[v] /\ seen'[v] = seen[v]
          BY <1>1, <2>1, <3>1 DEF TypeOK
      <4> QED BY <1>1, <1>2, <2>2, <4>1, OwnStable
    <3>2. CASE v = w
      <4>1. pc'[w] = "attempt" /\ seen'[w] = Len(log)
          BY <1>1, <2>1 DEF TypeOK
      <4>2. OwnAt(w)
          BY <1>1 DEF OwnInv
      <4>3. Rows(base[w])' = Rows(base[w]) /\ FilesIn(ManifestsAt(base[w]))' = FilesIn(ManifestsAt(base[w]))
          BY <1>2 DEF Rows, RowsIn, FilesIn, ManifestsAt
      <4>4. kind[w] = "overwrite" => base[w] = Len(log)
          BY <1>4 DEF MayAttempt, Current
      <4>5. kind[w] = "rewrite" => base[w] <= Len(log) /\ CarriedTo(w, Len(log))
        <5>1. base[w] \in 0 .. Len(log) /\ Len(log) \in Nat
            BY <1>1 DEF WType, StandInv, StandOK, TypeOK
        <5> QED BY <1>4, <5>1 DEF MayAttempt, Carries, CarriedTo, Current
      <4>6. CarriedTo(w, Len(log)) => CarriedTo(w, seen[w])'
          BY <1>2, <4>1 DEF CarriedTo, ManifestsAt
      <4> QED BY <1>2, <3>2, <4>1, <4>2, <4>3, <4>4, <4>5, <4>6 DEF OwnAt
    <3> QED BY <3>1, <3>2
  <2> QED BY <2>2, <2>3, <2>4 DEF OwnInv
<1> QED BY <1>3, <1>4

\* The catalog takes a commit of peQL's: an append is rebased over what is current, an
\* overwrite is over its base, a rewrite carries forward what came since its base.
LEMMA CommitKeeps ==
    ASSUME IInv, NEW w \in Writes, Commit(w)
    PROVE  /\ OwnInv' /\ TableInv' /\ Kept /\ w \notin Committed /\ kind[w] \in Own
           /\ kind[w] = "append" => Rows(Current)' = Rows(Current) \cup {w}
           /\ kind[w] = "overwrite" => Rows(Current)' = {w} /\ base[w] = Len(log)
           /\ kind[w] = "rewrite" => Rows(Current)' = Rows(Current)
<1>1. WType /\ TypeOK /\ OwnInv /\ TableInv /\ ListInv /\ NameInv /\ ApartInv
    BY DEF IInv, WType, TableInv
<1>2. pc[w] = "attempt" /\ Len(log) = seen[w] /\ Push(w, NewList(w))
      /\ (\E to \in {"recording", "failed"} : pc' = [pc EXCEPT ![w] = to])
      /\ seen' = [seen EXCEPT ![w] = 0] /\ UNCHANGED <<files, deletes, holds, kind, base>>
    BY DEF Commit, Current
<1>3. kind[w] \in Own /\ w \notin Committed /\ base[w] \in 0 .. Len(log) /\ Committed \subseteq Writes
    BY <1>1, <1>2, UptoFacts DEF WType, StandInv, StandOK
<1>4. PICK n \in Nat : n = Len(log)
    BY <1>1 DEF TypeOK
<1>5. PICK b \in 0 .. n : b = base[w]
    BY <1>3, <1>4
<1>6. PICK M \in SUBSET Writes : M = NewList(w)
    BY <1>1, <1>2, NewListType
<1>7. /\ kind[w] = "append"    => M = ManifestsAt(n) \cup {w}
      /\ kind[w] = "overwrite" => M = {w}
      /\ kind[w] = "rewrite"   => M = (ManifestsAt(n) \ ManifestsAt(b)) \cup {w}
    BY <1>2, <1>4, <1>5, <1>6 DEF NewList
<1>8. w \in M /\ M \in SUBSET (ManifestsAt(n) \cup {w})
    BY <1>3, <1>7 DEF Own
<1>9. Push(w, M)
    BY <1>2, <1>6
<1>10. Kept
  <2>1. \A i \in 1 .. Len(log) : log'[i] = log[i]
      BY <1>1, <1>9, PushFacts
  <2>2. \A v \in Committed : list'[v] = list[v]
      BY <1>1, <1>3, <1>9 DEF Push, TypeOK
  <2> QED BY <1>2, <2>1, <2>2 DEF Kept
<1>11. /\ Len(log') = n + 1 /\ log'[n + 1] = w /\ list'[w] = M
       /\ Upto(n + 1)' = Committed \cup {w} /\ Upto(n)' = Committed
       /\ ManifestsAt(n)' = ManifestsAt(n) /\ Rows(n)' = Rows(n)
       /\ ManifestsAt(n + 1)' = M /\ Rows(n + 1)' = RowsIn(M)'
       /\ ManifestsAt(n) \subseteq Committed /\ FilesIn(ManifestsAt(n)) \subseteq Committed
    BY <1>1, <1>4, <1>9, <1>10, PushNew
<1>12. RowsIn(M)' = RowsIn(M)
    BY <1>2 DEF RowsIn, FilesIn
<1>13. OwnAt(w)
    BY <1>1 DEF OwnInv
<1>14. /\ files[w] = {w} /\ deletes[w] = {}
       /\ kind[w] \in {"append", "overwrite"} => holds[w] = {w}
       /\ kind[w] = "rewrite" => holds[w] = Rows(b) /\ b <= n /\ CarriedTo(w, n)
       /\ kind[w] = "overwrite" => b = n
    BY <1>2, <1>3, <1>4, <1>5, <1>13 DEF OwnAt
<1>15. kind[w] = "rewrite" => RowsIn(M) = Rows(n)
    BY <1>1, <1>4, <1>5, <1>7, <1>14, RewriteKeepsRows
<1>16. kind[w] = "append" => RowsIn(M) = Rows(n) \cup {w}
  <2>1. n \in 0 .. Len(log)
      BY <1>4
  <2>2. w \notin Upto(n)
      BY <1>1, <1>3, <2>1, UptoFacts
  <2> QED BY <1>1, <1>7, <1>14, <2>1, <2>2, AppendAddsRows
<1>17. kind[w] = "overwrite" => RowsIn(M) = {w}
    BY <1>7, <1>14, RowsAlone
<1>18. Rows(b) \subseteq Committed
  <2>1. b \in 0 .. Len(log)
      BY <1>4
  <2> QED BY <1>1, <2>1, PastFacts, UptoFacts
<1>19. n + 1 - 1 = n
    BY <1>4
<1>20. NameAt(n + 1)'
  <2>1. holds[w] \subseteq Committed \cup {w}
      BY <1>3, <1>14, <1>18 DEF Own
  <2>2. /\ files'[log'[n + 1]] = {log'[n + 1]} /\ deletes'[log'[n + 1]] = {}
        /\ files'[log'[n + 1]] \subseteq Upto(n + 1)' /\ holds'[log'[n + 1]] \subseteq Upto(n + 1)'
      BY <1>2, <1>11, <1>14, <2>1
  <2> QED BY <2>2 DEF NameAt
<1>21. ApartAt(n + 1)'
  <2>1. ASSUME NEW m1 \in ManifestsAt(n), NEW m2 \in ManifestsAt(n), m1 # m2
        PROVE  files[m1] \cap files[m2] = {}
    <3>1. n # 0 /\ ManifestsAt(n) = list[log[n]] /\ n \in 1 .. Len(log)
        BY <1>4 DEF ManifestsAt
    <3> QED BY <1>1, <2>1, <3>1 DEF ApartInv, ApartAt
  <2>2. ASSUME NEW m1 \in ManifestsAt(n)
        PROVE  w \notin files[m1]
      BY <1>3, <1>11 DEF FilesIn
  <2>3. \A m1, m2 \in M : m1 # m2 => files[m1] \cap files[m2] = {}
      BY <1>8, <1>14, <2>1, <2>2
  <2> QED BY <1>2, <1>11, <2>3 DEF ApartAt
<1>22. CommitAt(n + 1)'
  <2>1. kind'[w] = kind[w] /\ base'[w] = b
      BY <1>2, <1>5
  <2>2. ManifestsAt(b)' = ManifestsAt(b)
    <3>1. b \in 0 .. Len(log)
        BY <1>4
    <3> QED BY <1>1, <1>10, <3>1, Stable DEF Kept
  <2>3. kind[w] = "rewrite" => ManifestsAt(b) \subseteq ManifestsAt(n) /\ b < n + 1
      BY <1>4, <1>5, <1>14 DEF CarriedTo
  <2>4. RowsIn(list[w])' = RowsIn(M)'
      BY <1>11 DEF RowsIn, FilesIn
  <2>5. ManifestsAt(base[w])' = ManifestsAt(b)'
      BY <2>1 DEF ManifestsAt
  <2>6. /\ kind[w] = "append"    => list'[w] = ManifestsAt(n)' \cup {w}
        /\ kind[w] = "overwrite" => list'[w] = {w}
        /\ kind[w] = "rewrite"   => /\ list'[w] = (ManifestsAt(n)' \ ManifestsAt(base[w])') \cup {w}
                                    /\ ManifestsAt(base[w])' \subseteq ManifestsAt(n)'
                                    /\ base'[w] < n + 1
                                    /\ RowsIn(list[w])' = Rows(n)'
      BY <1>7, <1>11, <1>12, <1>15, <2>1, <2>2, <2>3, <2>4, <2>5
  <2>7. ManifestsAt(n + 1 - 1)' = ManifestsAt(n)' /\ Rows(n + 1 - 1)' = Rows(n)'
      BY <1>19
  <2>8. ManifestsAt(base[log[n + 1]])' = ManifestsAt(base[w])' /\ RowsIn(list[log[n + 1]])' = RowsIn(list[w])'
      BY <1>11 DEF ManifestsAt, RowsIn, FilesIn
  <2> QED BY <1>11, <2>1, <2>6, <2>7, <2>8 DEF CommitAt
<1>23. TableInv'
    BY <1>1, <1>3, <1>4, <1>8, <1>9, <1>10, <1>20, <1>21, <1>22, PushTable
<1>24. OwnInv'
  <2>1. ASSUME NEW v \in Writes
        PROVE  OwnAt(v)'
    <3>1. pc'[v] = pc[v] \/ (pc'[v] \notin {"idle", "attempt"} /\ pc[v] # "idle")
        BY <1>1, <1>2 DEF TypeOK
    <3>2. pc'[v] = "attempt" => seen'[v] = seen[v]
        BY <1>1, <1>2 DEF TypeOK
    <3> QED BY <1>1, <1>2, <1>10, <3>1, <3>2, OwnStable
  <2> QED BY <2>1 DEF OwnInv
<1>25. Rows(Current)' = RowsIn(M) /\ Rows(Current) = Rows(n)
  <2>1. Current' = n + 1 /\ Current = n
      BY <1>4, <1>11 DEF Current
  <2>2. Rows(Current)' = Rows(n + 1)'
      BY <2>1 DEF Rows, ManifestsAt
  <2> QED BY <1>11, <1>12, <2>1, <2>2
<1> QED BY <1>3, <1>4, <1>5, <1>10, <1>14, <1>15, <1>16, <1>17, <1>23, <1>24, <1>25

\* Another engine's commit: what it reads is rows there were, and its own.
LEMMA ForeignKeeps ==
    ASSUME IInv, NEW w \in Writes, NEW n \in Nat, n = Len(log),
           NEW M \in SUBSET (ManifestsAt(n) \cup {w}), w \in M,
           NEW F \in SUBSET Writes, NEW H \in SUBSET {w}, NEW D \in SUBSET (Writes \X Writes),
           Foreign(w, M, F, H, D),
           \/ F = {w} /\ D = {}
           \/ F = {} /\ \A d \in D : d[1] \in FilesIn(ManifestsAt(n))
           \/ /\ n # 0 /\ D = {} /\ F = FilesIn(ManifestsAt(n))
              /\ \A m \in M \ {w} : deletes[m] # {},
           (M = {w} /\ F = {w}) \/ \A m \in ManifestsAt(n) : deletes[m] = {} \/ m \in M
    PROVE  /\ OwnInv' /\ TableInv' /\ Kept /\ w \notin Committed
           /\ Rows(Current)' \subseteq Rows(Current) \cup {w}
<1> DEFINE C == ManifestsAt(n)
<1>1. WType /\ TypeOK /\ OwnInv /\ TableInv /\ ListInv /\ NameInv /\ ApartInv
    BY DEF IInv, WType, TableInv
<1>2. pc[w] = "idle" /\ Push(w, M) /\ pc' = [pc EXCEPT ![w] = "foreign"]
      /\ files' = [files EXCEPT ![w] = F] /\ holds' = [holds EXCEPT ![w] = H]
      /\ deletes' = [deletes EXCEPT ![w] = D] /\ UNCHANGED <<kind, base, seen>>
    BY DEF Foreign
<1>3. kind[w] = "none" /\ w \notin Committed /\ Committed \subseteq Writes
    BY <1>1, <1>2, UptoFacts DEF WType, StandInv, StandOK
<1>4. files'[w] = F /\ holds'[w] = H /\ deletes'[w] = D
      /\ \A v \in Writes \ {w} : files'[v] = files[v] /\ holds'[v] = holds[v] /\ deletes'[v] = deletes[v]
    BY <1>1, <1>2 DEF TypeOK
<1>5. Kept
  <2>1. C \subseteq Writes
      BY <1>1, ManifestsType
  <2>2. M \in SUBSET Writes
      BY <2>1
  <2>3. \A i \in 1 .. Len(log) : log'[i] = log[i]
      BY <1>1, <1>2, <2>2, PushFacts
  <2>4. \A v \in Committed : list'[v] = list[v]
      BY <1>1, <1>2, <1>3 DEF Push, TypeOK
  <2> QED BY <1>2, <1>3, <1>4, <2>3, <2>4 DEF Kept
<1>6. C \subseteq Committed /\ FilesIn(C) \subseteq Committed
  <2>1. n \in 0 .. Len(log)
      OBVIOUS
  <2> QED BY <1>1, <2>1, PastFacts, UptoFacts
<1>7. /\ Len(log') = n + 1 /\ log'[n + 1] = w /\ list'[w] = M
      /\ Upto(n + 1)' = Committed \cup {w} /\ Upto(n)' = Committed
      /\ FilesIn(ManifestsAt(n))' = FilesIn(ManifestsAt(n)) /\ ManifestsAt(n)' = C
      /\ Rows(n + 1)' = RowsIn(M)'
  <2>1. M \in SUBSET Writes
      BY <1>3, <1>6
  <2> QED BY <1>1, <1>2, <1>5, <2>1, PushNew
<1>8. n + 1 - 1 = n
    OBVIOUS
<1> HIDE DEF C
<1>9. \A m \in C : m # w /\ m \in Writes /\ files'[m] = files[m] /\ deletes'[m] = deletes[m]
    BY <1>3, <1>4, <1>6
<1>10. NameAt(n + 1)'
  <2>1. F \subseteq Committed \cup {w} /\ \A d \in D : d[1] \in Committed
      BY <1>6 DEF C
  <2>2. /\ files'[log'[n + 1]] \subseteq Upto(n + 1)' /\ holds'[log'[n + 1]] \subseteq Upto(n + 1)'
        /\ \A d \in deletes'[log'[n + 1]] : d[1] \in Upto(n)'
      BY <1>4, <1>7, <2>1
  <2>3. n # 0 => FilesIn(list[log[n]])' = FilesIn(C)
    <3>1. n # 0 => list'[log'[n]] = ManifestsAt(n)'
        BY DEF ManifestsAt
    <3>2. n # 0 => FilesIn(list[log[n]])' = FilesIn(ManifestsAt(n))'
        BY <3>1 DEF FilesIn
    <3> QED BY <1>7, <3>2 DEF C
  <2>4. Upto(n + 1 - 1)' = Upto(n)' /\ FilesIn(list[log[n + 1 - 1]])' = FilesIn(list[log[n]])'
      BY <1>8
  <2>5. \A m \in M \ {w} : deletes'[m] = deletes[m]
      BY <1>9 DEF C
  <2>6. \/ files'[log'[n + 1]] = {log'[n + 1]} /\ deletes'[log'[n + 1]] = {}
        \/ files'[log'[n + 1]] = {}
        \/ /\ n + 1 > 1 /\ deletes'[log'[n + 1]] = {} /\ files'[log'[n + 1]] = FilesIn(list[log[n]])'
           /\ \A m \in list'[log'[n + 1]] \ {log'[n + 1]} : deletes'[m] # {}
      BY <1>4, <1>7, <2>3, <2>5 DEF C
  <2> QED BY <2>2, <2>4, <2>6 DEF NameAt
<1>11. \A m \in C : deletes[m] # {} => files[m] = {}
  <2> SUFFICES ASSUME NEW m \in C, deletes[m] # {} PROVE files[m] = {}
      OBVIOUS
  <2>1. PICK i \in 1 .. Len(log) : m = log[i]
      BY <1>6 DEF Committed
  <2> QED BY <1>1, <2>1, ManifestShape
<1>12. ApartAt(n + 1)'
  <2>1. ASSUME NEW m1 \in C, NEW m2 \in C, m1 # m2
        PROVE  files[m1] \cap files[m2] = {}
    <3>1. n # 0 /\ C = list[log[n]] /\ n \in 1 .. Len(log)
        BY DEF ManifestsAt, C
    <3> QED BY <1>1, <2>1, <3>1 DEF ApartInv, ApartAt
  <2>2. ASSUME NEW m1 \in C, m1 \in M
        PROVE  F \cap files[m1] = {}
    <3>1. w \notin files[m1]
        BY <1>3, <1>6 DEF FilesIn
    <3> QED BY <1>9, <1>11, <2>2, <3>1
  <2>3. \A m1, m2 \in M : m1 # m2 => files'[m1] \cap files'[m2] = {}
      BY <1>4, <1>9, <2>1, <2>2 DEF C
  <2> QED BY <1>7, <2>3 DEF ApartAt
<1>13. CommitAt(n + 1)'
    BY <1>2, <1>3, <1>7 DEF CommitAt
<1>14. TableInv'
    BY <1>1, <1>2, <1>3, <1>5, <1>10, <1>12, <1>13, PushTable
<1>15. OwnInv'
  <2>1. ASSUME NEW v \in Writes
        PROVE  OwnAt(v)'
    <3>1. CASE v # w
      <4>1. pc'[v] = pc[v]
          BY <1>1, <1>2, <3>1 DEF TypeOK
      <4> QED BY <1>1, <1>2, <1>4, <1>5, <3>1, <4>1, OwnStable
    <3>2. CASE v = w
      <4>1. pc'[w] = "foreign" /\ kind'[w] = "none"
          BY <1>1, <1>2, <1>3 DEF TypeOK
      <4> QED BY <3>2, <4>1 DEF OwnAt, Own
    <3> QED BY <3>1, <3>2
  <2> QED BY <2>1 DEF OwnInv
<1>16. ASSUME NEW x \in RowsIn(M)'
       PROVE  x \in RowsIn(C) \cup {w}
  <2>1. x \in Writes
      BY DEF RowsIn
  <2>2. PICK f \in FilesIn(M)' : x \in holds'[f] /\ \A m \in M : <<f, x>> \notin deletes'[m]
      BY DEF RowsIn
  <2>3. PICK m1 \in M : f \in files'[m1]
      BY DEF FilesIn
  <2>4. CASE f = w
      BY <1>4, <2>2, <2>4
  <2>5. CASE f # w
    <3>1. f \in FilesIn(C)
      <4>1. CASE m1 = w
          BY <1>4, <2>3, <2>5, <4>1 DEF C
      <4>2. CASE m1 # w
        <5>1. m1 \in C
            BY <4>2 DEF C
        <5> QED BY <1>9, <2>3, <5>1 DEF FilesIn
      <4> QED BY <4>1, <4>2
    <3>2. f \in Writes /\ holds'[f] = holds[f]
        BY <1>3, <1>4, <1>6, <2>5, <3>1
    <3>3. ~(M = {w} /\ F = {w})
        BY <1>4, <2>3, <2>5
    <3>4. \A m \in C : <<f, x>> \notin deletes[m]
        BY <1>9, <2>2, <3>3 DEF C
    <3> QED BY <2>1, <2>2, <3>1, <3>2, <3>4 DEF RowsIn
  <2> QED BY <2>4, <2>5
<1>17. Rows(Current)' = RowsIn(M)' /\ Rows(Current) = RowsIn(C)
  <2>1. Current' = n + 1 /\ Current = n
      BY <1>7 DEF Current
  <2>2. Rows(Current)' = Rows(n + 1)'
      BY <2>1 DEF Rows, ManifestsAt
  <2> QED BY <1>7, <2>1, <2>2 DEF Rows, C
<1> QED BY <1>3, <1>5, <1>14, <1>15, <1>16, <1>17

(***************************************************************************)
(* The refinement.                                                         *)
(***************************************************************************)
\* The steps between the beginning of a write and its commit, and all others that commit
\* nothing, change no row; a write that ends without a commit is out.
LEMMA QuietRefines ==
    ASSUME IInv, Kept, log' = log, UNCHANGED <<kind, base>>, NEW w \in Writes,
           \A v \in Writes \ {w} : pc'[v] = pc[v],
           \/ pc'[w] = pc[w]
           \/ /\ pc[w] \in {"writing", "ready", "attempt"}
              /\ pc'[w] \in {"ready", "attempt", "refused", "conflict", "failed", "crashed"}
           \/ pc[w] = "recording"
    PROVE  [Table!Next]_(Table!vars)
<1>1. WType /\ ListInv /\ NameInv
    BY DEF IInv, TableInv
<1>2. Committed' = Committed
    BY DEF Committed
<1>3. Rows(Current)' = Rows(Current)
  <2>1. PICK n \in 0 .. Len(log) : n = Len(log)
      BY <1>1 DEF WType, TypeOK
  <2>2. Rows(n)' = Rows(n)
      BY <1>1, Stable DEF Kept
  <2>3. Rows(Current)' = Rows(n)' /\ Rows(Current) = Rows(n)
      BY <2>1 DEF Current, Rows, ManifestsAt
  <2> QED BY <2>2, <2>3
<1>4. \A v \in Writes \ {w} : Phase(v)' = Phase(v)
    BY <1>2 DEF Phase
<1>5. Phase(w)' = Phase(w) \/ (Phase(w) = "open" /\ Phase(w)' = "out")
  <2>1. pc[w] = "recording" => w \in Committed
      BY <1>1 DEF WType, StandInv, StandOK
  <2>2. pc[w] \in {"writing", "ready", "attempt"} => w \notin Committed
      BY <1>1 DEF WType, StandInv, StandOK
  <2> QED BY <1>2, <2>1, <2>2 DEF Phase
<1> DEFINE state == [v \in Writes |-> Phase(v)]
<1>6. CASE Phase(w)' = Phase(w)
  <2>1. \A v \in Writes : Phase(v)' = Phase(v)
      BY <1>4, <1>6
  <2>2. UNCHANGED Table!vars
      BY <1>3, <2>1 DEF Table!vars
  <2> QED BY <2>2
<1>7. CASE Phase(w) = "open" /\ Phase(w)' = "out"
  <2>1. state' = [state EXCEPT ![w] = "out"]
      BY <1>4, <1>7
  <2>2. Table!Fail(w)
      BY <1>3, <1>7, <2>1 DEF Table!Fail
  <2> QED BY <2>2 DEF Table!Next
<1> QED BY <1>5, <1>6, <1>7

\* A write takes its place in the table.
LEMMA TakeRefines ==
    ASSUME IInv, NEW w \in Writes, NEW to, NEW M \in SUBSET Writes, Push(w, M), w \notin Committed,
           pc' = [pc EXCEPT ![w] = to], UNCHANGED <<kind, base>>
    PROVE  /\ pc[w] = "attempt" => Table!Take(w, "open")
           /\ pc[w] = "idle" => Table!Take(w, "idle")
<1> DEFINE state == [v \in Writes |-> Phase(v)]
<1>1. TypeOK
    BY DEF IInv, WType
<1>2. Committed' = Committed \cup {w} /\ Len(log') = Len(log) + 1
    BY <1>1, PushFacts
<1>3. Phase(w)' = "in"
    BY <1>2 DEF Phase
<1>4. \A v \in Writes \ {w} : Phase(v)' = Phase(v)
  <2>1. \A v \in Writes \ {w} : pc'[v] = pc[v] /\ (v \in Committed' <=> v \in Committed)
      BY <1>1, <1>2 DEF TypeOK
  <2> QED BY <2>1 DEF Phase
<1>5. state' = [state EXCEPT ![w] = "in"]
    BY <1>3, <1>4
<1>6. pc[w] = "attempt" => Phase(w) = "open"
    BY DEF Phase
<1>7. pc[w] = "idle" => Phase(w) = "idle"
    BY DEF Phase
<1> QED BY <1>2, <1>5, <1>6, <1>7 DEF Table!Take

\* Every step keeps the invariant, and is a step of the abstract table or none.
LEMMA StepKeeps ==
    ASSUME IInv, [Next]_vars
    PROVE  IInv' /\ Kept /\ [Table!Next]_(Table!vars)
<1>0. WType /\ TypeOK /\ OwnInv /\ TableInv /\ ListInv /\ NameInv
    BY DEF IInv, WType, TableInv
<1>1. WType'
    BY <1>0, WTypeStep
<1>2. PICK n \in Nat : n = Len(log) /\ n = Current
    BY <1>0 DEF TypeOK, Current
<1>3. ManifestsAt(n) \in SUBSET Writes /\ FilesIn(ManifestsAt(n)) \in SUBSET Writes /\ Rows(n) \in SUBSET Writes
  <2>1. n \in 0 .. Len(log)
      BY <1>2
  <2> QED BY <1>0, <2>1, ManifestsType
<1>4. ASSUME NEW w \in Writes, NEW c \in Contracts, NEW k \in Own, NEW p \in Policies,
             NEW rows \in SUBSET Writes, Begin(w, c, k, p, rows, Current),
             k # "rewrite" => rows = {w}, k = "rewrite" => rows = Rows(Current) /\ FilesIn(ManifestsAt(Current)) # {}
      PROVE  IInv' /\ Kept /\ [Table!Next]_(Table!vars)
  <2>1. OwnInv' /\ TableInv' /\ Kept /\ log' = log /\ w \notin Committed
      BY <1>4, BeginKeeps
  <2>2. pc[w] = "idle" /\ pc' = [pc EXCEPT ![w] = "writing"] /\ kind' = [kind EXCEPT ![w] = k]
        /\ base' = [base EXCEPT ![w] = n]
      BY <1>2, <1>4 DEF Begin
  <2>3. Committed' = Committed
      BY <2>1 DEF Committed
  <2>4. Phase(w) = "idle" /\ Phase(w)' = "open"
      BY <1>0, <2>1, <2>2, <2>3 DEF Phase, TypeOK
  <2>5. \A v \in Writes \ {w} : Phase(v)' = Phase(v)
      BY <1>0, <2>2, <2>3 DEF Phase, TypeOK
  <2>6. Rows(Current)' = Rows(Current)
    <3>1. Rows(n)' = Rows(n)
      <4>1. n \in 0 .. Len(log)
          BY <1>2
      <4> QED BY <1>0, <2>1, <4>1, Stable DEF Kept
    <3>2. Rows(Current)' = Rows(n)' /\ Rows(Current) = Rows(n)
        BY <1>2, <2>1 DEF Current, Rows, ManifestsAt
    <3> QED BY <3>1, <3>2
  <2> DEFINE state == [v \in Writes |-> Phase(v)]
  <2>7. state' = [state EXCEPT ![w] = "open"] /\ state[w] = "idle"
      BY <2>4, <2>5
  <2>8. Table!Begin(w, k)
      BY <1>2, <2>1, <2>2, <2>6, <2>7 DEF Table!Begin
  <2> QED BY <1>1, <2>1, <2>8 DEF Table!Next, IInv, Own
<1>5. ASSUME NEW w \in Writes, NEW c \in Contracts, NEW k \in Kinds, NEW p \in Policies, BeginWrite(w, c, k, p)
      PROVE  IInv' /\ Kept /\ [Table!Next]_(Table!vars)
  <2>1. k \in Own /\ {w} \in SUBSET Writes /\ k # "rewrite"
      BY DEF Kinds, Own
  <2> QED BY <1>4, <1>5, <2>1 DEF BeginWrite
<1>6. ASSUME NEW w \in Writes, NEW c \in Contracts, Compact(w, c)
      PROVE  IInv' /\ Kept /\ [Table!Next]_(Table!vars)
  <2>1. "rewrite" \in Own /\ "warn" \in Policies /\ Rows(Current) \in SUBSET Writes
      BY <1>2, <1>3 DEF Own, Policies
  <2>2. Begin(w, c, "rewrite", "warn", Rows(Current), Current) /\ FilesIn(ManifestsAt(Current)) # {}
      BY <1>6, FS_EmptySet DEF Compact
  <2> QED BY <1>4, <2>1, <2>2
<1>7. ASSUME NEW w \in Writes, UNCHANGED <<log, list, files, deletes, holds, kind, base>>,
             \A v \in Writes \ {w} : pc'[v] = pc[v] /\ seen'[v] = seen[v],
             \/ pc'[w] = pc[w] /\ seen'[w] = seen[w]
             \/ pc[w] \in {"writing", "ready", "attempt"} /\ pc'[w] \in {"ready", "refused", "conflict", "failed", "crashed"}
             \/ pc[w] = "recording" /\ pc'[w] \in {"recording", "done", "crashed"}
      PROVE  IInv' /\ Kept /\ [Table!Next]_(Table!vars)
  <2>1. \A v \in Writes : /\ pc'[v] = pc[v] \/ (pc'[v] \notin {"idle", "attempt"} /\ pc[v] # "idle")
                          /\ pc'[v] = "attempt" => seen'[v] = seen[v]
      BY <1>7
  <2>2. OwnInv' /\ TableInv' /\ Kept
      BY <1>7, <2>1, QuietKeeps
  <2>3. [Table!Next]_(Table!vars)
      BY <1>7, <2>2, QuietRefines
  <2> QED BY <1>1, <2>2, <2>3 DEF IInv
<1>8. ASSUME UNCHANGED <<log, list, files, deletes, holds, kind, base, pc, seen>>
      PROVE  IInv' /\ Kept /\ [Table!Next]_(Table!vars)
  <2>1. CASE Writes # {}
      BY <1>7, <1>8, <2>1
  <2>2. CASE Writes = {}
    <3>1. OwnInv' /\ TableInv' /\ Kept
      <4>1. \A v \in Writes : /\ pc'[v] = pc[v] \/ (pc'[v] \notin {"idle", "attempt"} /\ pc[v] # "idle")
                              /\ pc'[v] = "attempt" => seen'[v] = seen[v]
          BY <1>8
      <4> QED BY <1>8, <4>1, QuietKeeps
    <3>2. Rows(Current)' = Rows(Current)
        BY <2>2 DEF Rows, RowsIn
    <3>3. UNCHANGED Table!vars
        BY <1>8, <2>2, <3>2 DEF Table!vars
    <3> QED BY <1>1, <3>1, <3>3 DEF IInv
  <2> QED BY <2>1, <2>2
<1>9. ASSUME NEW w \in Writes, Finish(w) \/ Refused(w) \/ Fail(w) \/ Crash(w) \/ Recorded(w)
      PROVE  IInv' /\ Kept /\ [Table!Next]_(Table!vars)
  <2>1. UNCHANGED <<log, list, files, deletes, holds, kind, base>>
      BY <1>9 DEF Finish, Refused, Fail, Crash, Recorded, tableVars
  <2>2. CASE Finish(w)
    <3>1. pc[w] = "writing" /\ seen' = seen
          /\ \E to \in {"refused", "ready", "conflict"} : pc' = [pc EXCEPT ![w] = to]
        BY <2>2 DEF Finish
    <3> QED BY <1>0, <1>7, <2>1, <3>1 DEF TypeOK
  <2>3. CASE Refused(w)
    <3>1. pc[w] = "attempt" /\ seen' = [seen EXCEPT ![w] = 0]
          /\ \E to \in {"ready", "conflict"} : pc' = [pc EXCEPT ![w] = to]
        BY <2>3 DEF Refused
    <3> QED BY <1>0, <1>7, <2>1, <3>1 DEF TypeOK
  <2>6. CASE Fail(w)
    <3>1. pc[w] \in {"writing", "ready", "attempt"} /\ seen' = [seen EXCEPT ![w] = 0]
          /\ pc' = [pc EXCEPT ![w] = "failed"]
        BY <2>6 DEF Fail
    <3> QED BY <1>0, <1>7, <2>1, <3>1 DEF TypeOK
  <2>4. CASE Crash(w)
    <3>1. pc[w] \in {"writing", "ready", "attempt", "recording"} /\ seen' = [seen EXCEPT ![w] = 0]
          /\ pc' = [pc EXCEPT ![w] = "crashed"]
        BY <2>4 DEF Crash
    <3> QED BY <1>0, <1>7, <2>1, <3>1 DEF TypeOK
  <2>5. CASE Recorded(w)
    <3>1. seen' = seen /\ (pc' = pc \/ pc' = [pc EXCEPT ![w] = "done"])
        BY <2>5 DEF Recorded
    <3>2. pc[w] = "recording"
      <4>1. w \in Procs /\ task[w].stage \in {"replay", "unknown", "err"}
          BY <2>5 DEF Recorded, Ended, Computed, Procs
      <4>2. TaskOK(w, task[w])
          BY <1>0, <4>1 DEF WType, TaskInv
      <4> QED BY <4>1, <4>2 DEF TaskOK
    <3> QED BY <1>0, <1>7, <2>1, <3>1, <3>2 DEF TypeOK
  <2> QED BY <1>9, <2>2, <2>3, <2>4, <2>5, <2>6
<1>10. ASSUME NEW w \in Writes, Attempt(w)
       PROVE  IInv' /\ Kept /\ [Table!Next]_(Table!vars)
  <2>1. OwnInv' /\ TableInv' /\ Kept
      BY <1>10, AttemptKeeps
  <2>2. UNCHANGED <<log, kind, base>> /\ pc[w] = "ready"
        /\ \E to \in {"attempt", "conflict"} : pc' = [pc EXCEPT ![w] = to]
      BY <1>10 DEF Attempt, tableVars
  <2>3. pc'[w] \in {"attempt", "conflict"} /\ \A v \in Writes \ {w} : pc'[v] = pc[v]
      BY <1>0, <2>2 DEF TypeOK
  <2>4. [Table!Next]_(Table!vars)
      BY <2>1, <2>2, <2>3, QuietRefines
  <2> QED BY <1>1, <2>1, <2>4 DEF IInv
<1>11. ASSUME NEW w \in Writes, Commit(w)
       PROVE  IInv' /\ Kept /\ [Table!Next]_(Table!vars)
  <2>1. /\ OwnInv' /\ TableInv' /\ Kept /\ w \notin Committed /\ kind[w] \in Own
        /\ kind[w] = "append" => Rows(Current)' = Rows(Current) \cup {w}
        /\ kind[w] = "overwrite" => Rows(Current)' = {w} /\ base[w] = Len(log)
        /\ kind[w] = "rewrite" => Rows(Current)' = Rows(Current)
      BY <1>11, CommitKeeps
  <2>2. pc[w] = "attempt" /\ Push(w, NewList(w))
        /\ (\E to \in {"recording", "failed"} : pc' = [pc EXCEPT ![w] = to])
        /\ UNCHANGED <<kind, base>>
      BY <1>11 DEF Commit
  <2>3. PICK M \in SUBSET Writes : M = NewList(w)
      BY <1>0, <2>2, NewListType
  <2>4. Table!Take(w, "open")
      BY <2>1, <2>2, <2>3, TakeRefines
  <2>5. Table!AppendRows(w) \/ Table!ReplaceRows(w) \/ Table!RewriteRows(w)
      BY <2>1, <2>4 DEF Table!AppendRows, Table!ReplaceRows, Table!RewriteRows, Own
  <2> QED BY <1>1, <2>1, <2>5 DEF Table!Next, IInv
<1>12. ASSUME NEW w \in Writes, NEW M \in SUBSET (ManifestsAt(n) \cup {w}), w \in M,
              NEW F \in SUBSET Writes, NEW H \in SUBSET {w}, NEW D \in SUBSET (Writes \X Writes),
              Foreign(w, M, F, H, D),
              \/ F = {w} /\ D = {}
              \/ F = {} /\ \A d \in D : d[1] \in FilesIn(ManifestsAt(n))
              \/ /\ n # 0 /\ D = {} /\ F = FilesIn(ManifestsAt(n))
                 /\ \A m \in M \ {w} : deletes[m] # {},
              (M = {w} /\ F = {w}) \/ \A m \in ManifestsAt(n) : deletes[m] = {} \/ m \in M
       PROVE  IInv' /\ Kept /\ [Table!Next]_(Table!vars)
  <2>1. /\ OwnInv' /\ TableInv' /\ Kept /\ w \notin Committed
        /\ Rows(Current)' \subseteq Rows(Current) \cup {w}
      BY <1>2, <1>12, ForeignKeeps
  <2>2. pc[w] = "idle" /\ Push(w, M) /\ pc' = [pc EXCEPT ![w] = "foreign"] /\ UNCHANGED <<kind, base>>
      BY <1>12 DEF Foreign
  <2>3. M \in SUBSET Writes
      BY <1>3
  <2>4. Table!Take(w, "idle")
      BY <2>1, <2>2, <2>3, TakeRefines
  <2>5. Table!Other(w)
      BY <2>1, <2>4 DEF Table!Other
  <2> QED BY <1>1, <2>1, <2>5 DEF Table!Next, IInv
<1>13. CASE Outside
  <2>1. ASSUME NEW w \in Writes, ForeignAppend(w)
        PROVE  IInv' /\ Kept /\ [Table!Next]_(Table!vars)
    <3> DEFINE M == ManifestsAt(n) \cup {w}
               F == {w}
               D == {}
    <3>1. Foreign(w, M, F, F, D)
        BY <1>2, <2>1 DEF ForeignAppend
    <3>2. M \in SUBSET (ManifestsAt(n) \cup {w}) /\ w \in M /\ F \in SUBSET Writes /\ F \in SUBSET {w}
          /\ (\A m \in ManifestsAt(n) : deletes[m] = {} \/ m \in M)
          /\ F = {w} /\ D = {} /\ D \in SUBSET (Writes \X Writes)
        OBVIOUS
    <3> HIDE DEF M, F, D
    <3> QED BY <1>12, <3>1, <3>2
  <2>2. ASSUME NEW w \in Writes, ForeignReplace(w)
        PROVE  IInv' /\ Kept /\ [Table!Next]_(Table!vars)
    <3> DEFINE F == {w}
               D == {}
    <3>1. Foreign(w, F, F, F, D)
        BY <1>2, <2>2 DEF ForeignReplace
    <3>2. F \in SUBSET (ManifestsAt(n) \cup {w}) /\ w \in F /\ F \in SUBSET Writes /\ F \in SUBSET {w}
          /\ F = {w} /\ D = {} /\ D \in SUBSET (Writes \X Writes)
        OBVIOUS
    <3> HIDE DEF F, D
    <3> QED BY <1>12, <3>1, <3>2
  <2>3. ASSUME NEW w \in Writes, ForeignMerge(w)
        PROVE  IInv' /\ Kept /\ [Table!Next]_(Table!vars)
    <3> DEFINE M == {m \in ManifestsAt(n) : deletes[m] # {}} \cup {w}
    <3>1. n # 0 /\ Foreign(w, M, FilesIn(ManifestsAt(n)), {}, {})
        BY <1>2, <2>3 DEF ForeignMerge
    <3>2. M \in SUBSET (ManifestsAt(n) \cup {w}) /\ w \in M /\ (\A m \in M \ {w} : deletes[m] # {})
          /\ \A m \in ManifestsAt(n) : deletes[m] = {} \/ m \in M
        OBVIOUS
    <3> HIDE DEF M
    <3> QED BY <1>3, <1>12, <3>1, <3>2
  <2>4. ASSUME NEW w \in Writes, NEW f \in Writes, NEW b \in Writes, ForeignDelete(w, f, b)
        PROVE  IInv' /\ Kept /\ [Table!Next]_(Table!vars)
    <3> DEFINE D == {<<f, b>>}
    <3>1. Foreign(w, ManifestsAt(n) \cup {w}, {}, {}, D) /\ f \in FilesIn(ManifestsAt(n))
        BY <1>2, <2>4 DEF ForeignDelete
    <3>2. D \in SUBSET (Writes \X Writes) /\ \A d \in D : d[1] \in FilesIn(ManifestsAt(n))
        BY <3>1
    <3> HIDE DEF D
    <3> QED BY <1>12, <3>1, <3>2
  <2>5. ASSUME NEW s \in live, Expire(s)
        PROVE  IInv' /\ Kept /\ [Table!Next]_(Table!vars)
      BY <1>8, <2>5 DEF Expire, writeVars
  <2> QED BY <1>13, <2>1, <2>2, <2>3, <2>4, <2>5 DEF Outside
<1>14. CASE \/ \E w \in Writes, c \in Contracts : RecordNext(w, c)
            \/ \E p \in Procs : Replay(p)
            \/ \E r \in Readers, c \in Contracts : EnsureManifest(r, c) \/ Validate(r, c)
            \/ \E r \in Readers, c \in Contracts, s \in live : EnsureManifestAsOf(r, c, s)
            \/ \E r \in Readers : Answered(r) \/ Failed(r) \/ Scan(r) \/ Save(r) \/ Cancel(r)
            \/ \E c \in Contracts, k \in Comps : Register(c, k)
            \/ UNCHANGED vars
  <2>1. UNCHANGED <<log, list, files, deletes, holds, kind, base, pc, seen>>
      BY <1>14 DEF RecordNext, Replay, EnsureManifest, Validate, EnsureManifestAsOf, Start, Answered, Failed,
                   Scan, Save, Cancel, Register, vars, tableVars, writeVars
  <2> QED BY <1>8, <2>1
<1>15. Writes \subseteq Procs /\ Readers \subseteq Procs
    BY DEF Procs
<1> QED BY <1>5, <1>6, <1>9, <1>10, <1>11, <1>13, <1>14, <1>15 DEF Next, Write, Read

\* A table without a snapshot.
LEMMA IInvInit == Init => IInv
<1> SUFFICES ASSUME Init PROVE IInv
    OBVIOUS
<1>1. WType
    BY WTypeInit
<1>2. Len(log) = 0
    BY DEF Init
<1>3. TableInv
    BY <1>2 DEF TableInv, OnceInv, ListInv, NameInv, ApartInv, CommitInv
<1>4. OwnInv
    BY DEF Init, OwnInv, OwnAt, Own
<1> QED BY <1>1, <1>3, <1>4 DEF IInv

\* The commit protocol implements AbstractTable: an append adds its rows to whatever is
\* current when the catalog takes it, an overwrite replaces exactly the version it began
\* from, a rewrite changes no row, and a write that ends without a commit changes nothing,
\* in every interleaving with other writers, crashes, retries and other engines.
THEOREM CommitsRefine == Spec => ImplementsTable
<1>1. Init => Table!Init
  <2> SUFFICES ASSUME Init PROVE Table!Init
      OBVIOUS
  <2>1. Len(log) = 0 /\ Committed = {}
      BY DEF Init, Committed
  <2>2. Rows(Current) = {}
      BY <2>1 DEF Rows, RowsIn, FilesIn, ManifestsAt, Current
  <2>3. \A w \in Writes : Phase(w) = "idle"
      BY <2>1 DEF Phase, Init
  <2> QED BY <2>1, <2>2, <2>3 DEF Init, Table!Init
<1> QED BY <1>1, IInvInit, StepKeeps, PTL DEF Spec, ImplementsTable, Table!Spec
=============================================================================

---------------------------- MODULE IcebergTable ----------------------------
(***************************************************************************)
(* Writes, compactions and facts over one Iceberg table that several       *)
(* contracts are bound to (src/src/iceberg_table.rs, the Iceberg arms of   *)
(* src/src/engine.rs, src/src/facts.rs).                                   *)
(*                                                                         *)
(* A write is a process of its own: its id names its data directory, its   *)
(* manifest and, once it commits, its snapshot (the write id is in the     *)
(* snapshot's summary), so one set, Writes, names all four.  Snapshots are *)
(* also numbered by their place in the table's history `log': number 0 is  *)
(* "no snapshot", Len(log) is the current one.  Every commit is made over  *)
(* the current snapshot, so the history is a line.                         *)
(*                                                                         *)
(* Rows are abstracted to batches: the batch w is the rows write w brings, *)
(* a compaction's file holds the batches of the files it replaces.  What a *)
(* validation counts over a set of batches is given by RowCount and        *)
(* FailCount, which add up over disjoint sets as counts of rows do.        *)
(***************************************************************************)
EXTENDS Integers, Sequences, FiniteSets

CONSTANTS
    Writes,      \* write ids: peQL's writes, compactions, other engines' commits
    Contracts,   \* the contracts bound to the table
    Comps,       \* compilation hashes a contract may be registered under
    Readers,     \* tasks of the engine that read or validate
    NumRetries,  \* commit.retry.num-retries of the table
    RowCount,    \* RowCount[B]: the rows of the batches B
    FailCount,   \* FailCount[k][B]: the rows of B that break a rule under k
    Guarantee,   \* Guarantee[k][B]: whether k's data guarantee holds of B
    None         \* Rust's Option::None

ASSUME WritesAssumption == IsFiniteSet(Writes) /\ None \notin Writes
ASSUME RetriesAssumption == NumRetries \in Nat
ASSUME CompsAssumption == None \notin Comps
ASSUME ProcsAssumption == Readers \cap Writes = {}

\* A count over two disjoint sets of batches is the sum of the counts.
Additive(f) ==
    \A A, B \in SUBSET Writes : A \cap B = {} => f[A \cup B] = f[A] + f[B]

ASSUME RowsAssumption ==
    /\ RowCount \in [SUBSET Writes -> Nat]
    /\ Additive(RowCount)
ASSUME FailsAssumption ==
    /\ FailCount \in [Comps -> [SUBSET Writes -> Nat]]
    /\ \A k \in Comps : Additive(FailCount[k])
ASSUME GuaranteeAssumption == Guarantee \in [Comps -> [SUBSET Writes -> BOOLEAN]]

VARIABLES
    (* The table, as the catalog and the store hold it. *)
    log,      \* the write that made each snapshot, oldest first
    live,     \* the snapshots the table's metadata still names
    list,     \* list[w]: the manifests the snapshot of w lists
    files,    \* files[m]: the data files manifest m names
    deletes,  \* deletes[m]: the <<data file, batch>> manifest m deletes; {} for data
    holds,    \* holds[f]: the batches data file f holds
    facts,    \* facts[c][w]: c's recorded facts of the snapshot of w
    wfacts,   \* wfacts[w][c]: the compilation w's facts under c were made under
    (* The engine. *)
    comp,     \* comp[c]: the compilation c is registered under
    cached,   \* cached[c]: iceberg_manifests
    (* The writes. *)
    pc, kind, by, policy, base, seen, retried,
    (* Tasks that compute facts: a write after its commit, a reader. *)
    task

tableVars  == <<log, live, list, files, deletes, holds>>
factVars   == <<facts, wfacts>>
engineVars == <<comp, cached>>
writeVars  == <<pc, kind, by, policy, base, seen, retried>>
vars == <<tableVars, factVars, engineVars, writeVars, task>>

(***************************************************************************)
(* The table                                                               *)
(***************************************************************************)
Current == Len(log)

\* The manifests snapshot number s lists.
ManifestsAt(s) == IF s = 0 THEN {} ELSE list[log[s]]

\* IcebergLocation::files: the data files alive in a list of manifests.
FilesIn(M) == UNION {files[m] : m \in M}

\* What a scan of a list of manifests reads: the rows of its data files that no
\* delete file of the list deletes.  A delete names the file the row is in.
RowsIn(M) == {b \in Writes : \E f \in FilesIn(M) :
                 b \in holds[f] /\ \A m \in M : <<f, b>> \notin deletes[m]}

Rows(s) == RowsIn(ManifestsAt(s))

(***************************************************************************)
(* Facts: what one contract knows of one snapshot (Manifest), and what a   *)
(* write does to it (facts.rs).                                            *)
(***************************************************************************)
Manifest == [snap : Writes, comp : Comps, rows : Nat, fails : Nat,
             files : SUBSET Writes, decided : BOOLEAN \cup {None}]

ASSUME NoneAssumption == None \notin Manifest

\* The facts of a write's own rows, as a manifest (Engine::write_facts).
WriteFacts(w, k) ==
    [snap |-> w, comp |-> k, rows |-> RowCount[holds[w]],
     fails |-> FailCount[k][holds[w]], files |-> files[w], decided |-> None]

\* The files a rewrite replaced: those of the snapshot it read.
Removed(w) == FilesIn(ManifestsAt(base[w]))

\* The rows the listed files hold, by their footers: deletes do not count.
FooterRows(F) == RowCount[UNION {holds[f] : f \in F}]

\* Mutant of Answer: facts of another compilation are combined all the same.
AnswerAnyBefore(k, before, w, c) ==
    IF wfacts[w][c] # k THEN "unknown"
    ELSE IF kind[w] = "rewrite" /\ before = None THEN "err"
    ELSE "known"

\* after_write, what it answers for k's facts `before' and write w under contract
\* c: Ok(Some), Ok(None) (facts of another compilation) or Err.
Answer(k, before, w, c) ==
    IF wfacts[w][c] # k THEN "unknown"
    ELSE IF kind[w] = "overwrite" \/ (kind[w] = "append" /\ before = None) THEN "known"
    ELSE IF before = None THEN "err"
    ELSE IF before.comp # k THEN "unknown"
    ELSE IF kind[w] = "append" THEN "known"
    ELSE IF /\ Removed(w) \subseteq before.files
            /\ FooterRows(Removed(w)) = RowCount[holds[w]]
         THEN "known" ELSE "err"

\* after_write, the facts it gives when it gives some.  An append adds its counts
\* and files and carries the last decision forward; a rewrite changes the files
\* only; data replaced whole, or that had none, has only the write's own facts.
AfterWrite(k, before, w) ==
    LET own == WriteFacts(w, k)
    IN  IF kind[w] = "overwrite" \/ before = None THEN own
        ELSE IF kind[w] = "append"
        THEN [own EXCEPT !.rows    = before.rows + @,
                         !.fails   = before.fails + @,
                         !.files   = before.files \cup @,
                         !.decided = before.decided]
        ELSE [before EXCEPT !.snap  = w,
                            !.files = (@ \ Removed(w)) \cup own.files]

\* What a validation of the whole of snapshot s finds under k (Engine::refresh).
Validated(k, s) ==
    [snap |-> log[s], comp |-> k, rows |-> RowCount[Rows(s)],
     fails |-> FailCount[k][Rows(s)], files |-> FilesIn(ManifestsAt(s)),
     decided |-> Guarantee[k][Rows(s)]]

-----------------------------------------------------------------------------
(***************************************************************************)
(* Initial state: a table just created, no snapshot.                       *)
(***************************************************************************)
Procs == Writes \cup Readers

Idle == [stage |-> "idle", use |-> "none", contract |-> None, comp |-> None,
         target |-> 0, next |-> 0, known |-> None, md |-> {}, todo |-> {}]

Init ==
    /\ log = <<>>
    /\ live = {}
    /\ list    = [w \in Writes |-> {}]
    /\ files   = [w \in Writes |-> {}]
    /\ deletes = [w \in Writes |-> {}]
    /\ holds   = [w \in Writes |-> {}]
    /\ facts   = [c \in Contracts |-> [w \in Writes |-> None]]
    /\ wfacts  = [w \in Writes |-> [c \in Contracts |-> None]]
    /\ comp \in [Contracts -> Comps]
    /\ cached  = [c \in Contracts |-> None]
    /\ pc      = [w \in Writes |-> "idle"]
    /\ kind    = [w \in Writes |-> "none"]
    /\ by      = [w \in Writes |-> None]
    /\ policy  = [w \in Writes |-> "warn"]
    /\ base    = [w \in Writes |-> 0]
    /\ seen    = [w \in Writes |-> 0]
    /\ retried = [w \in Writes |-> 0]
    /\ task    = [p \in Procs |-> Idle]

(***************************************************************************)
(* Beginning and finishing a write                                         *)
(***************************************************************************)
\* Begin a write of kind k: the contract is taken as it is registered now, the
\* base is the current snapshot, the rows go to the write's own data file.
Begin(w, c, k, p, rows, from) ==
    /\ pc[w] = "idle"
    /\ pc'     = [pc EXCEPT ![w] = "writing"]
    /\ kind'   = [kind EXCEPT ![w] = k]
    /\ by'     = [by EXCEPT ![w] = [contract |-> c, comp |-> comp[c]]]
    /\ policy' = [policy EXCEPT ![w] = p]
    /\ base'   = [base EXCEPT ![w] = from]
    /\ holds'  = [holds EXCEPT ![w] = rows]
    /\ files'  = [files EXCEPT ![w] = {w}]
    /\ UNCHANGED <<log, live, list, deletes, factVars, engineVars, seen, retried, task>>

\* Engine::begin_write and write_part.  Under `exclude' the rows that break a
\* rule are split off before they are written: the batch is the rows kept.
BeginWrite(w, c, k, p) == Begin(w, c, k, p, {w}, Current)

\* Engine::compact: nothing to do below two files; otherwise every row of the
\* current snapshot is copied, and only `warn' is asked of the copy.
Compact(w, c) ==
    /\ Cardinality(FilesIn(ManifestsAt(Current))) >= 2
    /\ Begin(w, c, "rewrite", "warn", Rows(Current), Current)

\* IcebergWrite::commit loads the table.  An overwrite must find it at its base
\* (commit_overwrite); a rewrite must find the snapshot it read (Rewritten::of).
MayOpen(w) ==
    CASE kind[w] = "append"    -> TRUE
      [] kind[w] = "overwrite" -> Current = base[w]
      [] kind[w] = "rewrite"   -> base[w] \in live

\* Engine::finish_write up to the first attempt to commit.  Under `refuse', broken
\* rows end the write.  Its facts are made under its own contract as it was when the
\* write began, and under every other contract of the table as it is now; they are
\* stored before the commit, and nobody reads them until the snapshot that names
\* the write is there.
Finish(w) ==
    /\ pc[w] = "writing"
    /\ \/ /\ policy[w] = "refuse" /\ FailCount[by[w].comp][holds[w]] > 0
          /\ pc' = [pc EXCEPT ![w] = "refused"]
          /\ UNCHANGED wfacts
       \/ /\ ~(policy[w] = "refuse" /\ FailCount[by[w].comp][holds[w]] > 0)
          /\ wfacts' = [wfacts EXCEPT ![w] = [c \in Contracts |->
                 IF c = by[w].contract THEN by[w].comp ELSE comp[c]]]
          /\ pc' = [pc EXCEPT ![w] = IF MayOpen(w) THEN "ready" ELSE "conflict"]
    /\ UNCHANGED <<tableVars, facts, engineVars, kind, by, policy, base, seen, retried, task>>

(***************************************************************************)
(* Committing                                                              *)
(***************************************************************************)
\* Mutant of Carries: delete files added since are carried like any manifest.
CarriesDeletes(w) ==
    /\ (base[w] + 1) .. Current \subseteq live
    /\ ManifestsAt(base[w]) \subseteq ManifestsAt(Current)

\* Rewritten::carried: the rewrite of `base' may be made over the current snapshot
\* when base is an ancestor of it that the metadata still leads to, every manifest
\* of base is still listed, and no manifest added since holds deletes.
Carries(w) ==
    /\ (base[w] + 1) .. Current \subseteq live
    /\ ManifestsAt(base[w]) \subseteq ManifestsAt(Current)
    /\ \A m \in ManifestsAt(Current) \ ManifestsAt(base[w]) : deletes[m] = {}

\* The table is loaded again for an attempt.  An append is made over whatever is
\* current (the Iceberg crate's own fast_append); an overwrite only over its base
\* (Pinned::load_table); a rewrite over what it can carry forward (commit_rewrite).
MayAttempt(w) ==
    CASE kind[w] = "append"    -> TRUE
      [] kind[w] = "overwrite" -> Current = base[w]
      [] kind[w] = "rewrite"   -> Carries(w)

Attempt(w) ==
    /\ pc[w] = "ready"
    /\ IF MayAttempt(w)
       THEN /\ pc'   = [pc EXCEPT ![w] = "attempt"]
            /\ seen' = [seen EXCEPT ![w] = Current]
            /\ UNCHANGED retried
       ELSE /\ pc'      = [pc EXCEPT ![w] = "conflict"]
            /\ retried' = [retried EXCEPT ![w] = 0]
            /\ UNCHANGED seen
    /\ UNCHANGED <<tableVars, factVars, engineVars, kind, by, policy, base, task>>

\* The manifests the snapshot of w lists when it is committed over `seen'.
NewList(w) ==
    CASE kind[w] = "append"    -> ManifestsAt(seen[w]) \cup {w}
      [] kind[w] = "overwrite" -> {w}
      [] kind[w] = "rewrite"   -> (ManifestsAt(seen[w]) \ ManifestsAt(base[w])) \cup {w}

\* The table's pointer moves to a snapshot of w listing M.
Push(w, M) ==
    /\ log'  = Append(log, w)
    /\ live' = live \cup {Len(log) + 1}
    /\ list' = [list EXCEPT ![w] = M]

\* Mutant of Commit: a commit whose list cannot be removed is called a conflict.
CommitOrConflict(w) ==
    /\ pc[w] = "attempt"
    /\ Current = seen[w]
    /\ Push(w, NewList(w))
    /\ pc' = [pc EXCEPT ![w] = "conflict"]
    /\ seen'    = [seen EXCEPT ![w] = 0]
    /\ retried' = [retried EXCEPT ![w] = 0]
    /\ UNCHANGED <<files, deletes, holds, factVars, engineVars, kind, by, policy, base, task>>

\* The catalog takes the commit: it checks that the current snapshot is the one
\* the commit was produced over as it moves the pointer.  What follows records the
\* facts of the new snapshot for each contract, over the table as committed; or the
\* write ends in an error all the same, when the manifest list the commit was
\* produced over cannot be removed or the catalog's answer does not arrive.
Commit(w) ==
    /\ pc[w] = "attempt"
    /\ Current = seen[w]
    /\ Push(w, NewList(w))
    /\ \/ /\ pc' = [pc EXCEPT ![w] = "recording"]
          /\ task' = [task EXCEPT ![w] =
                [Idle EXCEPT !.stage = "next", !.target = Len(log) + 1,
                             !.md = live', !.todo = Contracts]]
       \/ pc' = [pc EXCEPT ![w] = "failed"] /\ UNCHANGED task
    /\ seen'    = [seen EXCEPT ![w] = 0]
    /\ retried' = [retried EXCEPT ![w] = 0]
    /\ UNCHANGED <<files, deletes, holds, factVars, engineVars, kind, by, policy, base>>

\* Mutant of MayRetry: one retry too many.
MayRetryOnceMore(w) == kind[w] # "overwrite" /\ retried[w] <= NumRetries

\* Retrying::wait.
MayRetry(w) == kind[w] # "overwrite" /\ retried[w] < NumRetries

\* The catalog refuses the commit: the table moved.  An overwrite is a conflict;
\* an append (in the crate) and a rewrite are computed again over the table as it
\* is now, unless the retries or the total time (not modelled: either may come
\* first) are used up.
Refused(w) ==
    /\ pc[w] = "attempt"
    /\ Current # seen[w]
    /\ \/ /\ MayRetry(w)
          /\ retried' = [retried EXCEPT ![w] = @ + 1]
          /\ pc' = [pc EXCEPT ![w] = "ready"]
       \/ /\ pc' = [pc EXCEPT ![w] = "conflict"]
          /\ retried' = [retried EXCEPT ![w] = 0]
    /\ seen' = [seen EXCEPT ![w] = 0]
    /\ UNCHANGED <<tableVars, factVars, engineVars, kind, by, policy, base, task>>

(***************************************************************************)
(* Facts of a snapshot (Engine::iceberg_facts): a walk back to the nearest *)
(* snapshot with recorded facts, or to a write that replaced everything,   *)
(* then the facts of each write since, applied and saved one by one.       *)
(***************************************************************************)
\* Where the walk back from snapshot number s stops; 0 when it runs off the first
\* snapshot.  md is the set of snapshots of the metadata the task loaded.
StopsAt(c, md, j) ==
    \/ j \notin md
    \/ facts[c][log[j]] # None
    \/ wfacts[log[j]][c] = None
    \/ kind[log[j]] = "overwrite"

WalkEnd(c, md, s) ==
    CHOOSE j \in 0 .. s : /\ j = 0 \/ StopsAt(c, md, j)
                          /\ \A i \in (j + 1) .. s : ~StopsAt(c, md, i)

\* Mutant of Walk: the write of the snapshot whose facts were found is replayed too.
WalkAgain(t) ==
    LET j == WalkEnd(t.contract, t.md, t.target)
        found == j # 0 /\ j \in t.md /\ facts[t.contract][log[j]] # None
        lost  == j # 0 /\ ~found /\ (j \notin t.md \/ wfacts[log[j]][t.contract] = None)
    IN  IF found THEN [t EXCEPT !.stage = "replay", !.next = j,
                                !.known = facts[t.contract][log[j]]]
        ELSE IF lost THEN [t EXCEPT !.stage = "unknown", !.next = 0, !.known = None]
        ELSE [t EXCEPT !.stage = "replay", !.next = IF j = 0 THEN 1 ELSE j, !.known = None]

\* The read half of iceberg_facts, for task t.  Without facts to start from (an
\* expired snapshot, or one peQL did not write under the contract) nothing is known
\* but by validation.  The reads of one walk are one step.
Walk(t) ==
    LET j == WalkEnd(t.contract, t.md, t.target)
        found == j # 0 /\ j \in t.md /\ facts[t.contract][log[j]] # None
        lost  == j # 0 /\ ~found /\ (j \notin t.md \/ wfacts[log[j]][t.contract] = None)
    IN  IF found THEN [t EXCEPT !.stage = "replay", !.next = j + 1,
                                !.known = facts[t.contract][log[j]]]
        ELSE IF lost THEN [t EXCEPT !.stage = "unknown", !.next = 0, !.known = None]
        ELSE [t EXCEPT !.stage = "replay", !.next = IF j = 0 THEN 1 ELSE j, !.known = None]

\* The write half: the facts of the next snapshot on the way, saved under it.
Replay(p) ==
    LET t == task[p]
        w == log[t.next]
        m == AfterWrite(t.comp, t.known, w)
        answer == Answer(t.comp, t.known, w, t.contract)
    IN  /\ t.stage = "replay"
        /\ t.next <= t.target
        /\ IF answer = "known"
           THEN /\ facts' = [facts EXCEPT ![t.contract][w] = m]
                /\ task' = [task EXCEPT ![p].known = m, ![p].next = @ + 1]
           ELSE /\ task' = [task EXCEPT ![p].stage = answer]
                /\ UNCHANGED facts
        /\ UNCHANGED <<tableVars, wfacts, engineVars, writeVars>>

\* The facts are computed (or the replay gave none, or failed).
Computed(t) == t.stage = "replay" /\ t.next > t.target
Ended(t)    == Computed(t) \/ t.stage \in {"unknown", "err"}

(***************************************************************************)
(* A write after its commit: facts for each contract, its own task         *)
(* (Engine::publish_write).  A failure is logged and the write stands.     *)
(***************************************************************************)
RecordNext(w, c) ==
    LET t == task[w]
    IN  /\ t.stage = "next"
        /\ c \in t.todo
        /\ task' = [task EXCEPT ![w] =
              Walk([t EXCEPT !.contract = c, !.comp = wfacts[w][c], !.todo = @ \ {c}])]
        /\ UNCHANGED <<tableVars, factVars, engineVars, writeVars>>

\* The engine's cached facts follow (the committed table's current snapshot is always the
\* one committed); after the last contract the report is returned.
Recorded(w) ==
    LET t == task[w]
    IN  /\ Ended(t)
        /\ cached' = [cached EXCEPT ![t.contract] = IF Computed(t) THEN t.known ELSE None]
        /\ IF t.todo = {}
           THEN /\ pc' = [pc EXCEPT ![w] = "done"]
                /\ task' = [task EXCEPT ![w] = Idle]
           ELSE /\ task' = [task EXCEPT ![w].stage = "next"]
                /\ UNCHANGED pc
        /\ UNCHANGED <<tableVars, factVars, comp, kind, by, policy, base, seen, retried>>

(***************************************************************************)
(* Readers                                                                 *)
(***************************************************************************)
Asked(c, u, s) == [Idle EXCEPT !.use = u, !.contract = c, !.comp = comp[c],
                              !.target = s, !.md = live]

Start(r, t) ==
    /\ task[r] = Idle
    /\ task' = [task EXCEPT ![r] = t]
    /\ UNCHANGED <<tableVars, factVars, engineVars, writeVars>>

\* Engine::ensure_manifest: the facts of the current snapshot; with no snapshot
\* the cached facts are dropped.
EnsureManifest(r, c) ==
    \/ Current # 0 /\ Start(r, Walk(Asked(c, "current", Current)))
    \/ /\ Current = 0
       /\ task[r] = Idle
       /\ cached' = [cached EXCEPT ![c] = None]
       /\ UNCHANGED <<tableVars, factVars, comp, writeVars, task>>

\* Engine::ensure_manifest_as_of: the facts of a snapshot the query names.
EnsureManifestAsOf(r, c, s) == s \in live /\ Start(r, Walk(Asked(c, "asof", s)))

\* Engine::validate: the whole of the snapshot current when it is scanned.
Validate(r, c) ==
    Current # 0 /\ Start(r, [Asked(c, "validate", 0) EXCEPT !.stage = "unknown"])

\* The facts a reader wanted are there: ensure_manifest caches them.
Answered(r) ==
    LET t == task[r]
    IN  /\ Computed(t)
        /\ t.use \in {"current", "asof"}
        /\ cached' = IF t.use = "current" THEN [cached EXCEPT ![t.contract] = t.known]
                                          ELSE cached
        /\ task' = [task EXCEPT ![r] = Idle]
        /\ UNCHANGED <<tableVars, factVars, comp, writeVars>>

\* The replay failed, or the snapshot is gone: the error is the read's.
Failed(r) ==
    /\ r \in Readers
    /\ task[r].stage = "err"
    /\ task' = [task EXCEPT ![r] = Idle]
    /\ UNCHANGED <<tableVars, factVars, engineVars, writeVars>>

\* Mutant of Scan: a snapshot that is gone is waited for.
ScanAgain(r) ==
    LET t == task[r]
        s == IF t.use = "validate" THEN Current ELSE t.target
        k == comp[t.contract]
    IN  /\ r \in Readers
        /\ t.stage = "unknown"
        /\ s \in live
        /\ task' = [task EXCEPT ![r].stage = "scanned", ![r].target = s, ![r].comp = k,
                                ![r].known = Validated(k, s)]
        /\ UNCHANGED <<tableVars, factVars, engineVars, writeVars>>

\* Engine::refresh, the scan: the contract as registered now, over the snapshot
\* asked for (the current one for a validation), if the table still has it.
Scan(r) ==
    LET t == task[r]
        s == IF t.use = "validate" THEN Current ELSE t.target
        k == comp[t.contract]
    IN  /\ r \in Readers
        /\ t.stage = "unknown"
        /\ task' = [task EXCEPT ![r] =
              IF s \in live THEN [t EXCEPT !.stage = "scanned", !.target = s, !.comp = k,
                                           !.known = Validated(k, s)]
              ELSE [t EXCEPT !.stage = "err"]]
        /\ UNCHANGED <<tableVars, factVars, engineVars, writeVars>>

\* Mutant of Save: the facts are saved under the snapshot that is current by then.
SaveAtCurrent(r) ==
    LET t == task[r]
    IN  /\ t.stage = "scanned"
        /\ facts' = [facts EXCEPT ![t.contract][log[Current]] = t.known]
        /\ cached' = [cached EXCEPT ![t.contract] = t.known]
        /\ task' = [task EXCEPT ![r] = Idle]
        /\ UNCHANGED <<tableVars, wfacts, comp, writeVars>>

\* Engine::refresh, the rest: the table is loaded again and the facts saved under
\* the snapshot scanned, and cached when it is still the current one.
Save(r) ==
    LET t == task[r]
        s == t.target
    IN  /\ t.stage = "scanned"
        /\ IF s \in live
           THEN /\ facts' = [facts EXCEPT ![t.contract][log[s]] = t.known]
                /\ cached' = IF s = Current THEN [cached EXCEPT ![t.contract] = t.known]
                                            ELSE cached
           ELSE UNCHANGED <<facts, cached>>
        /\ task' = [task EXCEPT ![r] = Idle]
        /\ UNCHANGED <<tableVars, wfacts, comp, writeVars>>

(***************************************************************************)
(* The rest of the world                                                   *)
(***************************************************************************)
\* A contract is registered again under another compilation.
Register(c, k) ==
    /\ comp[c] # k
    /\ comp' = [comp EXCEPT ![c] = k]
    /\ UNCHANGED <<tableVars, factVars, cached, writeVars, task>>

\* The write ends in an error before the catalog took its commit: a file, its facts
\* or a manifest list cannot be written, read or removed, the table is gone.
Fail(w) ==
    /\ pc[w] \in {"writing", "ready", "attempt"}
    /\ pc' = [pc EXCEPT ![w] = "failed"]
    /\ seen'    = [seen EXCEPT ![w] = 0]
    /\ retried' = [retried EXCEPT ![w] = 0]
    /\ UNCHANGED <<tableVars, factVars, engineVars, kind, by, policy, base, task>>

\* The process of a write stops.
Crash(w) ==
    /\ pc[w] \in {"writing", "ready", "attempt", "recording"}
    /\ pc' = [pc EXCEPT ![w] = "crashed"]
    /\ task'    = [task EXCEPT ![w] = Idle]
    /\ seen'    = [seen EXCEPT ![w] = 0]
    /\ retried' = [retried EXCEPT ![w] = 0]
    /\ UNCHANGED <<tableVars, factVars, engineVars, kind, by, policy, base>>

\* A reader's future is dropped (its client went away).
Cancel(r) ==
    /\ task[r] # Idle
    /\ task' = [task EXCEPT ![r] = Idle]
    /\ UNCHANGED <<tableVars, factVars, engineVars, writeVars>>

\* Table maintenance forgets a snapshot other than the current one.
Expire(s) ==
    /\ s \in live \ {Current}
    /\ live' = live \ {s}
    /\ UNCHANGED <<log, list, files, deletes, holds, factVars, engineVars, writeVars, task>>

\* Another engine commits to the table, leaving no peQL facts: M is the manifest
\* list, F the data files its manifest names, H the rows of its own file, D the
\* rows it deletes.
Foreign(w, M, F, H, D) ==
    /\ pc[w] = "idle"
    /\ pc'      = [pc EXCEPT ![w] = "foreign"]
    /\ files'   = [files EXCEPT ![w] = F]
    /\ holds'   = [holds EXCEPT ![w] = H]
    /\ deletes' = [deletes EXCEPT ![w] = D]
    /\ Push(w, M)
    /\ UNCHANGED <<factVars, engineVars, kind, by, policy, base, seen, retried, task>>

ForeignAppend(w)  == Foreign(w, ManifestsAt(Current) \cup {w}, {w}, {w}, {})
ForeignReplace(w) == Foreign(w, {w}, {w}, {w}, {})
ForeignDelete(w, f, b) ==
    /\ f \in FilesIn(ManifestsAt(Current))
    /\ b \in Rows(Current) \cap holds[f]
    /\ Foreign(w, ManifestsAt(Current) \cup {w}, {}, {}, {<<f, b>>})
\* The data manifests rewritten into one; the data files stay.
ForeignMerge(w) ==
    LET D == {m \in ManifestsAt(Current) : deletes[m] # {}}
    IN  /\ Current # 0
        /\ Foreign(w, D \cup {w}, FilesIn(ManifestsAt(Current)), {}, {})

-----------------------------------------------------------------------------
Kinds    == {"append", "overwrite"}
Policies == {"refuse", "warn"}

Write(w) ==
    \/ Finish(w) \/ Attempt(w) \/ Commit(w) \/ Refused(w)
    \/ \E c \in Contracts : RecordNext(w, c)
    \/ Recorded(w) \/ Replay(w)

Read(r) == Replay(r) \/ Answered(r) \/ Failed(r) \/ Scan(r) \/ Save(r)

Outside ==
    \/ \E w \in Writes : ForeignAppend(w) \/ ForeignReplace(w) \/ ForeignMerge(w)
    \/ \E w, f, b \in Writes : ForeignDelete(w, f, b)
    \/ \E s \in live : Expire(s)

Next ==
    \/ \E w \in Writes, c \in Contracts, k \in Kinds, p \in Policies : BeginWrite(w, c, k, p)
    \/ \E w \in Writes, c \in Contracts : Compact(w, c)
    \/ \E w \in Writes : Write(w) \/ Fail(w) \/ Crash(w)
    \/ \E r \in Readers, c \in Contracts : EnsureManifest(r, c) \/ Validate(r, c)
    \/ \E r \in Readers, c \in Contracts, s \in live : EnsureManifestAsOf(r, c, s)
    \/ \E r \in Readers : Read(r) \/ Cancel(r)
    \/ \E c \in Contracts, k \in Comps : Register(c, k)
    \/ Outside

Spec == Init /\ [][Next]_vars

\* The runtime polls every read until it ends; nothing makes a write go on, another
\* engine commit, a snapshot expire, a client ask or a process stop.
FairSpec == Spec /\ \A r \in Readers : WF_vars(Read(r))

-----------------------------------------------------------------------------
(***************************************************************************)
(* Properties                                                              *)
(***************************************************************************)
PCs    == {"idle", "writing", "ready", "attempt", "recording",
           "done", "refused", "conflict", "failed", "crashed", "foreign"}
Stages == {"idle", "next", "replay", "unknown", "err", "scanned"}

Tasks == [stage : Stages, use : {"none", "current", "asof", "validate"},
          contract : Contracts \cup {None}, comp : Comps \cup {None}, target : Nat,
          next : Nat, known : Manifest \cup {None}, md : SUBSET Nat,
          todo : SUBSET Contracts]

\* The state is well typed.
TypeOK ==
    /\ log \in Seq(Writes)
    /\ live \subseteq 1 .. Len(log)
    /\ list \in [Writes -> SUBSET Writes]
    /\ files \in [Writes -> SUBSET Writes]
    /\ deletes \in [Writes -> SUBSET (Writes \X Writes)]
    /\ holds \in [Writes -> SUBSET Writes]
    /\ facts \in [Contracts -> [Writes -> Manifest \cup {None}]]
    /\ wfacts \in [Writes -> [Contracts -> Comps \cup {None}]]
    /\ comp \in [Contracts -> Comps]
    /\ cached \in [Contracts -> Manifest \cup {None}]
    /\ pc \in [Writes -> PCs]
    /\ kind \in [Writes -> {"none", "append", "overwrite", "rewrite"}]
    /\ by \in [Writes -> [contract : Contracts, comp : Comps] \cup {None}]
    /\ policy \in [Writes -> Policies]
    /\ base \in [Writes -> Nat]
    /\ seen \in [Writes -> Nat]
    /\ retried \in [Writes -> 0 .. NumRetries]
    /\ task \in [Procs -> Tasks]

Committed == {log[i] : i \in 1 .. Len(log)}

\* m says of its snapshot what a validation of the whole snapshot would.
Describes(m) ==
    /\ m.snap \in Committed
    /\ m.rows  = RowCount[RowsIn(list[m.snap])]
    /\ m.fails = FailCount[m.comp][RowsIn(list[m.snap])]
    /\ m.files = FilesIn(list[m.snap])

\* The table as its writers and readers see it.
Phase(w) ==
    IF w \in Committed THEN "in"
    ELSE IF pc[w] = "idle" THEN "idle"
    ELSE IF pc[w] \in {"writing", "ready", "attempt"} THEN "open" ELSE "out"

Table == INSTANCE AbstractTable
    WITH rows <- Rows(Current), version <- Len(log),
         state <- [w \in Writes |-> Phase(w)], began <- base

\* The commit protocol (appends rebased by the crate, overwrites pinned to their
\* base, rewrites carrying forward what was appended) implements AbstractTable: no
\* interleaving of writers, retries, crashes and other engines loses an append,
\* overwrites a version it did not begin from, or changes a row by a rewrite.
ImplementsTable == Table!Spec

\* Facts recorded for a snapshot, computed from its parent's and the write's alone
\* (facts::after_write, Engine::iceberg_facts), are what a validation of the whole
\* snapshot counts, whatever commits, expiries, crashes and registrations came
\* between the walk and each save.
FactsDescribeTheirSnapshot ==
    \A c \in Contracts, w \in Writes :
        facts[c][w] # None => facts[c][w].snap = w /\ Describes(facts[c][w])

\* The facts an engine answers reads from (iceberg_manifests) describe the snapshot
\* they name, which the read is then pinned to.
CachedFactsDescribeTheirSnapshot ==
    \A c \in Contracts : cached[c] # None => Describes(cached[c])

\* A guarantee's decision in a snapshot's facts was made by a validation of it or of
\* an ancestor, and only appends and rewrites came since: never a write that
\* replaced the data the decision was about (facts::after_write).
DecisionsAreAboutTheData ==
    \A c \in Contracts, i \in 1 .. Len(log) :
        LET m == facts[c][log[i]]
        IN  m # None /\ m.decided # None =>
              \E j \in 1 .. i : /\ m.decided = Guarantee[m.comp][Rows(j)]
                                /\ \A n \in (j + 1) .. i : kind[log[n]] \in {"append", "rewrite"}

\* A write that reported a refusal or a conflict left nothing in the table, and one
\* that reported its snapshot is in the table's history.  Any other error leaves open
\* whether the write is in the table, and so does a stopped process; but a write that
\* is in it, whatever its caller was told, has its own facts stored under every
\* contract, so a read can record the facts of its snapshot (Engine::publish_write).
ReportsAreTrue ==
    \A w \in Writes :
        /\ pc[w] \in {"refused", "conflict"} => w \notin Committed
        /\ pc[w] = "done" => w \in Committed
        /\ w \in Committed /\ pc[w] # "foreign" =>
              \A c \in Contracts : wfacts[w][c] # None

\* A validation's decision is kept: once a snapshot's facts hold a decision under a
\* compilation, they hold it until facts under another compilation replace them
\* (the manifest keeps each guarantee's last decision until the next `validate').
DecisionsAreKept ==
    [][\A c \in Contracts, w \in Writes :
          LET m == facts[c][w]
              n == facts'[c][w]
          IN  m # None /\ m.decided # None /\ n.comp = m.comp => n.decided # None]_vars

\* The facts of a rewrite's snapshot are its parent's with the files replaced: no
\* task that computes facts of a snapshot the table has fails over a rewrite it finds in
\* the table's history.
RewritesHaveFacts == \A p \in Procs : task[p].stage = "err" => task[p].target \notin live

\* Every read of facts ends.
ReadsEnd == \A r \in Readers : task[r] # Idle ~> task[r] = Idle
=============================================================================

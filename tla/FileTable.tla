----------------------------- MODULE FileTable -----------------------------
(***************************************************************************)
(* A directory of Parquet files, or a prefix of an object store, that      *)
(* several contracts are bound to: how a write publishes its files and     *)
(* each contract's manifest (the Local and Object arms of                  *)
(* Engine::publish_write), how a validation records one (Engine::refresh), *)
(* and how a read decides from a manifest whether the flags stored in the  *)
(* files stand for the rules (flags_current).  Nothing serialises writes,  *)
(* validations and reads: each loads, lists and saves on its own.          *)
(*                                                                         *)
(* A write's id names its file; of the several files of a write the model  *)
(* has one.  A rule is the set of files whose rows break it.  The flags of *)
(* a file are in columns named by the ids of the rules it was written      *)
(* under (`_c_' and the id), whatever contract they are of, and the file   *)
(* carries the hash of that contract's document: a contract that calls     *)
(* functions may be compiled again, with other rules, from the same        *)
(* document.  Of the statistics a manifest keeps, the model has the rate   *)
(* of nulls of a column: a double from 0 to 1, here a multiple of          *)
(* 1 / Scale, from which combined_stats recovers the count.                *)
(***************************************************************************)
EXTENDS Integers, FiniteSets, FiniteSetsExt

CONSTANTS
    Writes,     \* write ids
    Contracts,  \* the contracts bound to the directory
    Comps,      \* the compilations a contract may be registered under
    Readers,    \* tasks of the engine that query or validate
    Rows,       \* Rows[w]: the rows of w's file
    Nulls,      \* Nulls[w]: how many of them have a null
    Scale,      \* the precision of a rate
    Rules,      \* Rules[k][i]: the files whose rows break the rule that k calls i
    Hash,       \* Hash[c][k]: the contract_hash of c compiled as k
    Unknown,    \* files are there and nothing is known of them
    None

ASSUME RulesAssumption == \A k \in Comps : \A i \in DOMAIN Rules[k] : Rules[k][i] \subseteq Writes
ASSUME WritesAssumption == IsFiniteSet(Writes)
ASSUME RowsAssumption ==
    Rows \in [Writes -> Nat \ {0}] /\ Nulls \in [Writes -> Nat] /\ \A w \in Writes : Nulls[w] <= Rows[w]
ASSUME OptionAssumption == Unknown # None

VARIABLES
    remote,    \* whether the binding is in an object store
    files,     \* the files under the binding
    manifest,  \* manifest[c]: c's manifest, beside the files
    cached,    \* cached[c]: object_manifests, for a binding in an object store
    comp,      \* comp[c]: the compilation c is registered under
    (* The writes. *)
    pc,
    by,        \* by[w]: the contract w writes under, as it was when w began; it is
               \* stamped on the file, whose flag columns are computed under it
    job,       \* job[w]: what the call that writes w holds, while it runs
    (* The readers. *)
    task

dirVars   == <<files, manifest, cached>>
writeVars == <<pc, by, job>>
vars == <<remote, dirVars, comp, writeVars, task>>

Manifest == [comp : Comps, files : SUBSET Writes, rows : Nat, fails : Nat, rate : 0 .. Scale]

\* The files whose rows break a rule of a compilation.
Breaks == [k \in Comps |-> UNION {Rules[k][i] : i \in DOMAIN Rules[k]}]

Total(n, F) == MapThenSumSet(LAMBDA f : n[f], F)

\* There are fewer rows than a rate can tell apart.
ASSUME ScaleAssumption == Scale \in Nat /\ Total(Rows, Writes) < Scale

\* a / b to the nearest whole number (f64::round).
Rounded(a, b) == (2 * a + b) \div (2 * b)

\* n nulls among so many rows, as a rate.
Rate(n, rows) == IF rows > 0 THEN Rounded(n * Scale, rows) ELSE 0

\* What a contract compiled as k counts over the rows of the files F, listing L.
Counted(k, F, L) ==
    [comp |-> k, files |-> L, rows |-> Total(Rows, F), fails |-> Total(Rows, F \cap Breaks[k]),
     rate |-> Rate(Total(Nulls, F), Total(Rows, F))]

\* What a write holds: the compilations its facts are made under (bound), what each
\* contract knew when it began to publish (before), the contracts whose manifests are
\* yet to be loaded or saved (todo), the one in hand (at) and the files an overwrite has
\* yet to remove (doomed).
NoJob == [kind |-> "none", policy |-> "warn", bound |-> None, before |-> None,
          todo |-> {}, at |-> None, doomed |-> {}]

Idle == [stage |-> "idle", use |-> "none", contract |-> None, comp |-> None,
         refuse |-> FALSE, stored |-> FALSE, seen |-> {}, found |-> None]

\* The directory is empty, or holds files written elsewhere.
Init ==
    /\ remote \in BOOLEAN
    /\ files \in {{}} \cup {{w} : w \in Writes}
    /\ manifest = [c \in Contracts |-> None]
    /\ cached   = [c \in Contracts |-> None]
    /\ comp \in [Contracts -> Comps]
    /\ pc     = [w \in Writes |-> IF w \in files THEN "elsewhere" ELSE "idle"]
    /\ by     = [w \in Writes |-> None]
    /\ job    = [w \in Writes |-> NoJob]
    /\ task   = [r \in Readers |-> Idle]

\* The write goes on with the job j, or is over and leaves nothing behind.
Goes(w, to, j) ==
    /\ pc'  = [pc EXCEPT ![w] = to]
    /\ job' = [job EXCEPT ![w] = j]

(***************************************************************************)
(* Writing                                                                 *)
(***************************************************************************)
\* Engine::begin and write_part: the file is written apart, where no reader looks.  (A
\* write under `exclude' leaves out the rows that break a rule before it stages them: it
\* is a write of rows that break none.)
BeginWrite(w, c, k, p) ==
    /\ pc[w] = "idle"
    /\ Goes(w, "writing", [NoJob EXCEPT !.kind = k, !.policy = p])
    /\ by' = [by EXCEPT ![w] = [contract |-> c, comp |-> comp[c]]]
    /\ UNCHANGED <<remote, dirVars, comp, task>>

\* The contracts as a write binds them: the writer's as it was when the write began.
Bound(w) == [c \in Contracts |-> IF c = by[w].contract THEN by[w].comp ELSE comp[c]]

\* Engine::finish_write: every contract bound to the directory validates the rows, and
\* a row that breaks the writer's refuses a write that asked to be refused.  An
\* overwrite looks up nothing before it.
FinishWrite(w) ==
    LET j == job[w]
        refused == j.policy = "refuse" /\ w \in Breaks[by[w].comp]
    IN  /\ pc[w] = "writing"
        /\ \/ refused /\ Goes(w, "refused", NoJob)
           \/ /\ ~refused
              /\ Goes(w, IF j.kind = "overwrite" THEN "list" ELSE "load",
                      [j EXCEPT !.bound = Bound(w), !.before = [c \in Contracts |-> None],
                                !.todo = Contracts])
        /\ UNCHANGED <<remote, dirVars, comp, by, task>>

\* The contracts are taken one by one, the writer's first.
Turn(w, c) ==
    c \in job[w].todo /\ (by[w].contract \in job[w].todo => c = by[w].contract)

\* One contract's knowledge is loaded: on to the next, or to publish the file.
Loaded(w, j) == Goes(w, IF j.todo = {} THEN "install" ELSE "load", [j EXCEPT !.at = None])

\* What contract c knows of the directory: its manifest, or, after a look at the files,
\* that it is empty or nothing.
Load(w, c) ==
    LET j == [job[w] EXCEPT !.todo = @ \ {c}, !.at = c]
    IN  /\ pc[w] = "load"
        /\ Turn(w, c)
        /\ IF manifest[c] = None THEN Goes(w, "look", j)
           ELSE Loaded(w, [j EXCEPT !.before[c] = manifest[c]])
        /\ UNCHANGED <<remote, dirVars, comp, by, task>>

\* What is known before a write of the files F, that have no manifest.
Before(F) == IF F = {} THEN None ELSE Unknown

Look(w) ==
    LET j == job[w]
    IN  /\ pc[w] = "look"
        /\ Loaded(w, [j EXCEPT !.before[j.at] = Before(files)])
        /\ UNCHANGED <<remote, dirVars, comp, by, task>>

\* An overwrite lists the files, then removes them one by one; on disk, one that
\* another overwrite removed first is an error, at which it stops.
List(w) ==
    /\ pc[w] = "list"
    /\ Goes(w, IF files = {} THEN "install" ELSE "remove", [job[w] EXCEPT !.doomed = files])
    /\ UNCHANGED <<remote, dirVars, comp, by, task>>

RemoveFile(w, f) ==
    LET j == job[w]
    IN  /\ pc[w] = "remove"
        /\ f \in j.doomed
        /\ f \in files \/ remote
        /\ files' = files \ {f}
        /\ Goes(w, IF j.doomed = {f} THEN "install" ELSE "remove", [j EXCEPT !.doomed = @ \ {f}])
        /\ UNCHANGED <<remote, manifest, cached, comp, by, task>>

\* The file is renamed, or uploaded, into place.
Install(w) ==
    /\ pc[w] = "install"
    /\ files' = files \cup {w}
    /\ Goes(w, "save", [job[w] EXCEPT !.todo = Contracts])
    /\ UNCHANGED <<remote, manifest, cached, comp, by, task>>

\* Mutant of Recovered: the part after the point is dropped.
RecoveredDown(rate, rows) == (rate * rows) \div Scale

\* combined_stats: how many nulls a rate stands for.
Recovered(rate, rows) == Rounded(rate * rows, Scale)

\* What a contract knows of the rows of two manifests together.
Combined(b, m) ==
    [m EXCEPT !.files = b.files \cup @, !.rows = b.rows + @, !.fails = b.fails + @,
              !.rate = Rate(Recovered(b.rate, b.rows) + Recovered(@, m.rows), b.rows + m.rows)]

\* Mutant of After: an append adds to facts made under another compilation.
AfterAny(k, b, w) ==
    LET own == Counted(k, {w}, {w})
    IN  IF b = Unknown THEN None
        ELSE IF b = None THEN own
        ELSE Combined(b, own)

\* facts::after_write: what a contract compiled as k knows after the write w, from what
\* it knew before.
After(k, b, w) ==
    LET own == Counted(k, {w}, {w})
    IN  IF b = None THEN own
        ELSE IF b = Unknown \/ b.comp # k THEN None
        ELSE Combined(b, own)

\* One contract's facts are saved: on to the next, or the write is done.
Saved(w, j) == IF j.todo = {} THEN Goes(w, "done", NoJob)
                              ELSE Goes(w, "save", [j EXCEPT !.at = None])

\* The manifest is saved whole, or removed when nothing is known; for an object store it
\* is then kept in memory too.  After the last one the write reports.
SaveFacts(w, c) ==
    LET j == [job[w] EXCEPT !.todo = @ \ {c}, !.at = c]
    IN  /\ pc[w] = "save"
        /\ Turn(w, c)
        /\ manifest' = [manifest EXCEPT ![c] = After(j.bound[c], j.before[c], w)]
        /\ IF remote THEN Goes(w, "keep", j) ELSE Saved(w, j)
        /\ UNCHANGED <<remote, files, cached, comp, by, task>>

KeepFacts(w) ==
    LET j == job[w]
    IN  /\ pc[w] = "keep"
        /\ cached' = [cached EXCEPT ![j.at] = After(j.bound[j.at], j.before[j.at], w)]
        /\ Saved(w, j)
        /\ UNCHANGED <<remote, files, manifest, comp, by, task>>

\* The operations that are publishing.
Publishing == {w \in Writes : pc[w] \in {"load", "look", "list", "remove", "install",
                                         "save", "keep"}}

\* Mutant of Stop: what the write has staged is left behind.
StopKeeping(w) ==
    /\ pc[w] = "writing" \/ w \in Publishing
    /\ Goes(w, IF w \in Publishing THEN "torn" ELSE "stopped", job[w])
    /\ UNCHANGED <<remote, dirVars, comp, by, task>>

\* The process stops, or a file or an object cannot be written or removed: what was
\* published stays, the rest of the write's files are dropped with it (Staged::drop).
Stop(w) ==
    /\ pc[w] = "writing" \/ w \in Publishing
    /\ Goes(w, IF w \in Publishing THEN "torn" ELSE "stopped", NoJob)
    /\ UNCHANGED <<remote, dirVars, comp, by, task>>

(***************************************************************************)
(* Validating and reading                                                  *)
(***************************************************************************)
Becomes(r, t) ==
    /\ task' = [task EXCEPT ![r] = t]
    /\ UNCHANGED <<remote, files, comp, writeVars>>

\* Engine::validate, and a query as it begins to prepare.
Validate(r, c) ==
    /\ task[r] = Idle
    /\ Becomes(r, [Idle EXCEPT !.stage = "scan", !.use = "validate", !.contract = c])
    /\ UNCHANGED <<manifest, cached>>

Query(r, c, x) ==
    /\ task[r] = Idle
    /\ Becomes(r, [Idle EXCEPT !.stage = "ensure", !.use = "query", !.contract = c, !.refuse = x])
    /\ UNCHANGED <<manifest, cached>>

\* Engine::ensure_manifest: files without a manifest are validated whole; the manifest of
\* a binding in an object store is read again and kept.
EnsureManifest(r) ==
    LET t == task[r]
        m == manifest[t.contract]
    IN  /\ t.stage = "ensure"
        /\ Becomes(r, IF m = None THEN [t EXCEPT !.stage = "look"]
                      ELSE IF remote THEN [t EXCEPT !.stage = "keep", !.found = m]
                      ELSE [t EXCEPT !.stage = "resolve"])
        /\ UNCHANGED <<manifest, cached>>

LookForFiles(r) ==
    /\ task[r].stage = "look"
    /\ Becomes(r, [task[r] EXCEPT !.stage = IF files = {} THEN "resolve" ELSE "scan"])
    /\ UNCHANGED <<manifest, cached>>

\* Engine::refresh, by way of Engine::whole: the rows are scanned, then the files are
\* listed for their entries, then the manifest is saved.
Scan(r) ==
    LET t == task[r]
    IN  /\ t.stage = "scan"
        /\ Becomes(r, [t EXCEPT !.stage = "entries", !.comp = comp[t.contract], !.seen = files])
        /\ UNCHANGED <<manifest, cached>>

Entries(r) ==
    LET t == task[r]
    IN  /\ t.stage = "entries"
        /\ Becomes(r, [t EXCEPT !.stage = "record", !.found = Counted(t.comp, t.seen, files)])
        /\ UNCHANGED <<manifest, cached>>

\* A validation is over with its facts on record; a query goes on.
Recorded(t) == IF t.use = "validate" THEN Idle
               ELSE [t EXCEPT !.stage = "resolve", !.comp = None, !.seen = {}, !.found = None]

Record(r) ==
    LET t == task[r]
    IN  /\ t.stage = "record"
        /\ manifest' = [manifest EXCEPT ![t.contract] = t.found]
        /\ Becomes(r, IF remote THEN [t EXCEPT !.stage = "keep"] ELSE Recorded(t))
        /\ UNCHANGED cached

\* The manifest recorded, or read again, is the one this engine resolves by.
KeepManifest(r) ==
    LET t == task[r]
    IN  /\ t.stage = "keep"
        /\ cached' = [cached EXCEPT ![t.contract] = t.found]
        /\ Becomes(r, Recorded(t))
        /\ UNCHANGED manifest

\* Whether file f carries the hash of contract c compiled as k (CONTRACT_HASH_KEY); one
\* written elsewhere carries none.
Stamped(f, c, k) == by[f] # None /\ Hash[by[f].contract][by[f].comp] = Hash[c][k]

\* Mutant of FlagsCurrent: one file written under the contract is enough.
FlagsCurrentSome(m, c, k) == \E f \in m.files : Stamped(f, c, k)

\* Manifest::flags_current: every file listed was written under this contract hash.
FlagsCurrent(m, c, k) == m.files # {} /\ \A f \in m.files : Stamped(f, c, k)

\* Engine::resolve_with, over Engine::manifest.  Rows that break a rule refuse a read
\* that asked to be refused; without a manifest nothing was written.
Resolve(r) ==
    LET t == task[r]
        c == t.contract
        m == IF remote THEN cached[c] ELSE manifest[c]
    IN  /\ t.stage = "resolve"
        /\ Becomes(r, IF m = None \/ (t.refuse /\ m.fails > 0) THEN Idle
                      ELSE [t EXCEPT !.stage = "view", !.refuse = FALSE,
                                     !.stored = FlagsCurrent(m, c, comp[c])])
        /\ UNCHANGED <<manifest, cached>>

\* Engine::contract_view: the rules of the contract as it is now, or the flag columns
\* that stand for them.
View(r) ==
    LET t == task[r]
    IN  /\ t.stage = "view"
        /\ Becomes(r, [t EXCEPT !.stage = "read", !.comp = comp[t.contract]])
        /\ UNCHANGED <<manifest, cached>>

\* Whether a read under rules compiled as k keeps the rows of file f: by the rules, or by
\* the flags in the file.  A flag column that the file has not is null, and drops the row.
Keeps(f, k, stored) ==
    IF stored THEN \A i \in DOMAIN Rules[k] :
                      /\ by[f] # None /\ i \in DOMAIN Rules[by[f].comp]
                      /\ f \notin Rules[by[f].comp][i]
              ELSE f \notin Breaks[k]

\* The plan lists the files and runs.
Read(r) ==
    LET t == task[r]
    IN  /\ t.stage = "read"
        /\ Becomes(r, [t EXCEPT !.stage = "answered",
                                !.seen = {f \in files : Keeps(f, t.comp, t.stored)}])
        /\ UNCHANGED <<manifest, cached>>

\* The caller has the answer.
Leave(r) ==
    /\ task[r].stage = "answered"
    /\ Becomes(r, Idle)
    /\ UNCHANGED <<manifest, cached>>

\* A contract is registered again under another compilation.
Register(c, k) ==
    /\ comp[c] # k
    /\ comp' = [comp EXCEPT ![c] = k]
    /\ UNCHANGED <<remote, dirVars, writeVars, task>>

-----------------------------------------------------------------------------
Kinds    == {"append", "overwrite"}
Policies == {"refuse", "warn"}

Next ==
    \/ \E w \in Writes, c \in Contracts, k \in Kinds, p \in Policies : BeginWrite(w, c, k, p)
    \/ \E w \in Writes : FinishWrite(w) \/ Look(w) \/ List(w) \/ Install(w) \/ KeepFacts(w)
                          \/ Stop(w)
    \/ \E w \in Writes, c \in Contracts : Load(w, c) \/ SaveFacts(w, c)
    \/ \E w, f \in Writes : RemoveFile(w, f)
    \/ \E r \in Readers, c \in Contracts : Validate(r, c)
    \/ \E r \in Readers, c \in Contracts, x \in BOOLEAN : Query(r, c, x)
    \/ \E r \in Readers : EnsureManifest(r) \/ LookForFiles(r) \/ Scan(r) \/ Entries(r)
                          \/ Record(r) \/ KeepManifest(r)
                          \/ Resolve(r) \/ View(r) \/ Read(r) \/ Leave(r)
    \/ \E c \in Contracts, k \in Comps : Register(c, k)

Spec == Init /\ [][Next]_vars

-----------------------------------------------------------------------------
PCs == {"idle", "writing", "load", "look", "list", "remove", "install", "save", "keep",
        "done", "refused", "stopped", "torn", "elsewhere"}
Stages == {"idle", "ensure", "look", "scan", "entries", "record", "keep", "resolve", "view",
           "read", "answered"}

Over   == {"idle", "done", "refused", "stopped", "torn", "elsewhere"}

\* The state is well typed, and a write holds what it has staged and bound exactly as
\* long as it runs (Staged::drop).
TypeOK ==
    /\ remote \in BOOLEAN
    /\ files \subseteq Writes
    /\ manifest \in [Contracts -> Manifest \cup {None}]
    /\ cached \in [Contracts -> Manifest \cup {None}]
    /\ comp \in [Contracts -> Comps]
    /\ pc \in [Writes -> PCs]
    /\ by \in [Writes -> [contract : Contracts, comp : Comps] \cup {None}]
    /\ job \in [Writes -> [kind : Kinds \cup {"none"}, policy : Policies,
                           bound : [Contracts -> Comps] \cup {None},
                           before : [Contracts -> Manifest \cup {None, Unknown}] \cup {None},
                           todo : SUBSET Contracts, at : Contracts \cup {None}, doomed : SUBSET Writes]]
    /\ \A w \in Writes : job[w] = NoJob <=> pc[w] \in Over
    /\ task \in [Readers -> [stage : Stages, use : {"none", "query", "validate"},
                             contract : Contracts \cup {None}, comp : Comps \cup {None},
                             refuse : BOOLEAN, stored : BOOLEAN, seen : SUBSET Writes,
                             found : Manifest \cup {None}]]

\* The validations under way, and the writes that stopped halfway.
Refreshing == {r \in Readers : task[r].stage \in {"scan", "entries", "record"}}
Torn       == {w \in Writes : pc[w] = "torn"}

\* Whenever nothing is being published or validated, a manifest, computed from the last
\* one and the write alone (after_write) or by a validation, counts the rows of the files
\* it lists, and has the rate of their nulls, for every contract bound to them.  It lists
\* the files that are there; after a write that stopped halfway it may miss that write's
\* file, and list files that the write removed (publish_write), but never miscount or
\* miss another's.
ManifestsDescribeFiles ==
    Publishing = {} /\ Refreshing = {} =>
        \A c \in Contracts : manifest[c] # None =>
            /\ manifest[c] = Counted(manifest[c].comp, manifest[c].files, manifest[c].files)
            /\ files \ manifest[c].files \subseteq Torn
            /\ Torn = {} => manifest[c].files = files

\* A read never returns a row that breaks its contract (violation.rs), whether the
\* rules are evaluated or the flags in the files stand for them, and whatever was
\* published between the moment that was decided and the read.  (After a write that
\* stopped halfway it may: the manifest does not list that write's file, and says that
\* the flags stand for the rules when in this file they do not.)
AnswersKeepTheContract ==
    \A r \in Readers : task[r].stage = "answered" /\ Torn = {} =>
        task[r].seen \cap Breaks[task[r].comp] = {}

-----------------------------------------------------------------------------
\* What an answer taken from flags rests on besides.  Two compilations agree when they
\* mean the same by the rule ids they share.
Agree(k, l) == \A i \in DOMAIN Rules[k] \cap DOMAIN Rules[l] : Rules[k][i] = Rules[l][i]

\* A contract_hash tells rules apart: no function was changed under a document.
HashesTell ==
    \A c, d \in Contracts, k, l \in Comps : Hash[c][k] = Hash[d][l] => Agree(k, l)

\* A write and a query or a validation that run at once are under rules that agree.
Agreed ==
    \A w \in Writes, r \in Readers : pc[w] \notin Over /\ task[r].stage # "idle" =>
        Agree(by[w].comp, comp[task[r].contract])
=============================================================================

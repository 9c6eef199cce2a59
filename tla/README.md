# A TLA+ verification project for peQL

peQL is a query engine that lets callers read data only through *contracts*:
compiled documents that say who may read, which rows and columns, with which
noise, and what the data must satisfy.  This directory holds TLA+ modules that
model the parts of the engine in which concurrency, failure and ordering decide
whether it is correct, the TLC configurations that check them on small
instances, and TLAPS proofs of the most important properties for instances of
any size.  Paths below are relative to the repository (`src/...` is the Rust
crate).

## 1. Inventory

| Part | Source | State it keeps | Operations | Modelled in |
|---|---|---|---|---|
| Iceberg commits | `src/iceberg_table.rs`, `src/engine.rs` | the table's snapshots, manifest lists and manifests, in the catalog and the store; per write its base, kind, attempts | begin, change the schema, finish, commit (append, overwrite, rewrite), retry, compact | `IcebergTable`, `AbstractTable`, `CommitLoop` |
| Iceberg facts | `src/engine.rs`, `src/facts.rs`, `src/manifest.rs` | facts per contract and snapshot, facts per write, `iceberg_manifests` in memory | walk and replay, record after a write, validate, ensure for a read (current or as of) | `IcebergTable` |
| Files on disk / in an object store | `src/engine.rs`, `src/binding.rs`, `src/object_binding.rs`, `src/manifest.rs` | the files, one manifest per contract, `object_manifests` in memory | publish a write, validate, resolve and read | `FileTable` |
| Privacy budgets | `src/budget.rs`, `src/atomic.rs` | limits and spending, in memory under a lock and in `budgets.json` | open, charge_all, set_limit, save | `BudgetLedger`, `Workspace` |
| Query path | `src/engine.rs`, `src/audit.rs`, `src/envelope.rs` | per query what it resolved, its plan, its charges; the audit log | query, query_as_of, spooled query, plan, check | `QueryPath` |
| Query cache | `src/cache.rs` | answers by key, LRU with limits on age, entries and bytes | get, put, invalidate | `QueryPath` (what an entry holds), `Delivery` (which entries) |
| Row violations | `src/violation.rs` | none | refuse, exclude, warn on write; exclude, refuse on read | guards in `IcebergTable`, `FileTable` |
| Contract store | `src/store.rs` | versions, stale versions and audiences in memory; `v<n>.peql.json` and `published.json` on disk | put, publish, unpublish, open | `Workspace`, `ContractNames` |
| Function store | `src/functions.rs` | registry and modules in memory under two locks; `.wasm` and `.json` on disk | register, adopt, modules_for, open | `Workspace` |
| Suppression | `src/shape.rs` | the first k rows of a stream | hold, release | `Delivery` |
| Column statistics | `src/facts.rs` (`combined_stats`) | none | merge two sets of statistics | counts and the null rate in `FileTable` |
| Signer | `src/signer.rs` | a connection per envelope | exchange under a timeout | `Delivery`; a step of `QueryPath` |
| Flight server | `src/flight.rs` | the spool file of an answer; prepared handles | run, stream, check | the stream in `Delivery`; a mode of `QueryPath` |
| Gate, plan guard | `src/gate.rs`, `src/guard.rs` | none | check a statement, rewrite and check a plan | no (pure, see section 7) |
| Vector search, view hash, formats, Lance, CLI, Python | ... | none of their own | adapters and conversions | no |

**Interactions.**  A query calls the contract store (`visible`, `get`), then the
binding of the contract for its manifest (`ensure_manifest`, which may validate
the whole data and record what it finds), then resolves by that manifest, builds
the contract's view, applies the shapes, looks in the cache, charges the budget
ledger, runs, has the envelope signed and writes the audit record.  A write
stages files apart, validates them under *every* contract bound to the same
data, publishes them (a commit to the catalog, a rename, an upload) and records
facts for each contract.  Writes, validations, reads, registrations and sharing
run concurrently on one engine, in several engines on one machine, and, for
Iceberg, next to engines that are not peQL; the only locks are around in-memory
maps.  What keeps them apart is the catalog's compare-and-swap, the renames of
whole files, and the order in which the code does things.  That order is what
the modules model.

**What makes each part correct.**  No commit loses, repeats or resurrects a row,
and every report is true; facts computed from a parent's facts are what a scan
would have found; a manifest lists the files that are there; no read returns a
row that breaks the contract it is read under; paid epsilon stays paid, and no
answer goes over a limit; what a process serves (contracts, audiences,
functions) is what a restart would load, and a workspace that was closed opens
again; a result below the suppression threshold is withheld whole, wherever its
batches fall; an answer leaves with its own signature or not at all, and every
query ends whatever the signer does; an answer holds every write finished before it was
asked for, was paid for, recorded, visible to its caller, selected for that caller and no
other, and governed by the contract its envelope names.

The hazards, each at its line, are in `PROJECT.json` with the properties that
cover them or the reason none does.

## 2. The modules

**`AbstractTable`** is what a table promises its writers: rows change by whole
writes, an append adds its rows to whatever is there, an overwrite replaces
exactly the version it began from, a rewrite changes no row, a write that ended
outside the table never gets in.

**`IcebergTable`** models one Iceberg table, the contracts bound to it, and
peQL's writes and reads over it.  A write id names its data file, its manifest
and its snapshot.  `log` is the history; `list`, `files`, `deletes`, `holds` are
the manifest lists, manifests, position deletes and data files; rows are batches
(the batch *w* is what write *w* brings), and `RowCount` and `FailCount` are
additive counts over sets of batches.  Actions follow the code:
`BeginWrite`/`Compact` (`Engine::begin`, `compact`), `Finish` (`finish_write`:
refuse, make facts under every bound contract, load the table), `Attempt`
(reload, decide whether the commit may be made over the current snapshot:
`Pinned::load_table`, `Rewritten::carried`), `Commit` and `Refused` (the
catalog's check, `Retrying::wait`), `RecordNext`/`Replay`/`Recorded`
(`publish_write` after the commit, `iceberg_facts`), and for readers
`EnsureManifest`, `EnsureManifestAsOf`, `Validate`, `Scan`, `Save`, `Answered`,
`Failed`, `Cancel`.  A write may end in an error at any step (`Fail`), and, which is
the case a caller has to know of, after the catalog took its commit: `Commit` has the
alternative in which the temporary manifest list cannot be removed or the catalog's
answer is lost, and the caller gets an error.  `Crash`, `Register`, `Expire` and other engines' commits
(append, replace, position deletes, merged manifests) may come between any two.
The reads of one walk back (`Walk`) are one step; each save is a step of its own.
The total time of a commit's retries is abstracted here: a refused commit may stop
retrying at once.  The crate's fast append retries like a rewrite.

**`CommitLoop`** is the loop of a schema change (`evolve`) and of a rewrite's commit
(`commit_rewrite`) on its own, with the waits and the clock of `CommitRetry`, under
other writers that never stop: `Load`, `Take`, `Refuse`, `Wait` (`Retrying::wait`,
`wait_for`), `Fail`, and `Move` by the others.  The table is what it means to the loop:
open to the change, spoilt for it, or changed already.

**`FileTable`** models a directory or object prefix that several contracts share:
`BeginWrite`, `FinishWrite`, then, file by file and manifest by manifest in the
code's order, `Load`/`Look` (what each contract knew), `List`/`RemoveFile` (an
overwrite), `Install`, `SaveFacts`/`KeepFacts`; `Stop` anywhere.  Readers run
`EnsureManifest`, `LookForFiles`, `Scan`, `Entries`, `Record`, `KeepManifest`,
`Resolve` (with `FlagsCurrent`), `View`, `Read`.  Whether the binding is local or
remote is a variable fixed at the start; a remote one has the manifests kept in
memory besides.  A compilation has rules by id (`Rules[k][i]`, the files whose rows
break it): flags are stored in a column per rule id, and read by that name whoever
stored them (`Keeps`), nulls where there is none.  A file is stamped with the hash of its
contract (`Hash[c][k]`), which is all `FlagsCurrent` compares.  A file has some rows,
some of which break rules or have a null; a manifest has the counts and the null *rate*, a fixed-point number
of `Scale` steps, from which an append recovers the count of nulls by rounding
(`Recovered`, `Combined`) as `combined_stats` does.  A write that stops while it
publishes is *torn*: its file, or what an overwrite has removed, stays as it is,
and other writes and validations go on over it.  A write has one file: the code
renames or uploads several one by one (`src/engine.rs:1155`, `src/object_binding.rs:281`),
and what a stop between two of them leaves is, to manifests and flags, a torn write
with less in it.

**`BudgetLedger`** models engines (processes) over one `budgets.json`:
`Open`, `ChargeAll` and `SetLimit` under the lock, `Save` (whole ledger, renamed
into place), `SaveFails`, `Answered`, `Stop` at any point.  `paid`, `owed` and
`top` are history.  Epsilon is a natural number.  Which charges a query has comes
from `parcel_runtime`, outside the repository: one amount per budget
(`docs/execution.md:50`).

**`Workspace`** extends `BudgetLedger` to the whole of `_peql/`: the same engines
open and stop, and with them the contract store and the function store.  Threads
(`call`) run `RegisterContract`, `Bundle`; `RegisterCompiled`, `Take`; `PutFile`,
`Unstale`, `Serve` (the three steps of `DirStore::put`); `RegisterFunction`,
`Insert`, `Push` (`FunctionStore::load`, one step per lock), then
`TruncateModule`, `WriteModule`, `TruncateRecord`, `WriteRecord`; `Publish` and
`Unpublish`, then `TruncateNames`, `WriteNames`.  `std::fs::write` is a truncation
and a write, and a write over what another call has put there since may leave a
mixture (`Over`); a stored contract is renamed into place in one step.
`OpenWorkspace` loads what is there or fails, `StopWorkspace` ends every call
where it is, `WriteFails` fails any write, `Upgrade` makes stored contracts stale.
`excused` is history: which kinds of damage overlapping, failed or interrupted
calls may have done.  The code has no defence against those, so the properties
say exactly what holds without them, and each names the excuse it needs.

**`ContractNames`** is the conversion between a contract's name and its directory's
(`contract_dir`, `decode`), on sequences of characters.  `Workspace` has one contract,
whose name is the constant `Name`, and loads its audiences only when the name comes
back from the directory (`Returns`).

**`Delivery`** models how a planned query's rows reach its caller: batches of rows
through `SuppressExec` (`Batch`, `End`), collected and kept in the cache, written
to a spool file, or taken at once by an executor of the plan; the signer's
connection (`Sign`, `SignerAnswers`, `Signed`, `NotSigned`); the record, the
Flight stream (`Record`, `Stream`), failures and clients that go away (`Fails`).
The cache (`Get`, `Put`, `InvalidateContract`, `InvalidateAll`, `Tick`) is a
sequence by order of use, with the byte count the code keeps by hand.  A row is a
byte and time is in ticks.

**`QueryPath`** models queries over one contract step by step: `Ask`, `Look`,
`Resolve`, `View`, `Shape` (each looks the contract up anew, as `prepare` does),
`Check`, `Hit`, `Plan` (physical plan, then `charge_all`), `Run`, `Sign`,
`Audit`, `Fail`, `Drop`, with `Evict`, `Register`, `Publish`, `Unpublish`, and a
write's `Install`, `Written`, `WriteStops`.  A compilation is what it allows and
the epsilon of the noise it adds and the values its parameters are bound to for each
caller (`Params`), by which rows are selected and answers are keyed; data is counted
in versions.  What the manifest
says about the data (not servable, excluded rows) is a failure that may happen.

**`MC*`** give the constants values and bound the runs with a conjunct on the
next-state relation (`Bounds'`).

**`*Proofs`** hold the theorems about the module they are named for, and
**`FiniteSums`** the facts about finite sets and sums over them that several use.

The modules are kept separate because they meet at narrow interfaces, each of
which one side states and the other uses: `QueryPath.Plan` uses of the ledger
that charging is atomic and within the limit (`BudgetLedger`); its `Install` /
`Written` are the two steps of `FileTable`'s publication; its `Evict` is whatever
`Delivery`'s cache does to lose an entry, its `Sign` and `Run` the whole of
`Delivery`'s exchange and execution; its `Register`, `Publish` and `Unpublish` are
the last step in memory of `Workspace`'s calls.  The ledger and the stores share
the process, and that composition is `Workspace`.

## 3. The runs

Every bound is a named constant of the MC module, and each run's properties are
each shown to be able to fail: `PROJECT.json` names a mutant of the code's
definition for which TLC finds a counterexample.

| Run | Question | Instance and why it is enough |
|---|---|---|
| `iceberg_commits` | Is the table changed only as `AbstractTable` allows, and is every report true, whatever races? | Four writes, three of peQL and one of another engine, two open at once, one retry, one crash. A lost append, a resurrected delete or a stale overwrite needs a base, a rewrite or overwrite, and one commit in between. |
| `iceberg_facts` | Are recorded and cached facts, and the decisions in them, what a scan of their snapshot gives? | Three writes, one reader, one foreign commit of any kind. A wrong count needs one snapshot known, one write replayed and one change in between. |
| `iceberg_reads` | Are facts of different compilations ever combined, and does every read of facts end? | One write of peQL and one of another engine, a reader, two compilations registered at every step, an expiry. One snapshot known, one write to replay and one registration in between are what it takes to mix facts; the theorem has any number of each, and of contracts. |
| `commit_retries` | Does a commit end when the table moves under every attempt, in time and with a true answer? | Up to three retries, waits that double to their maximum, no wait at all, delays up to half the total time; other writers without bound. |
| `workspace_restarts` | Do spending, all-or-none and limits survive crashes and failed saves, and are contracts, audiences and functions what they were after a restart? | One engine; two callers, two budgets, limits raised and lowered; two threads, one version of a contract, two documents (one calls the function), two tenants, two modules, one upgrade, one kind of damage. A lost update, a half-written pair of files or a stale memory needs two calls, or one and a stop. |
| `query_answers` | Are answers fresh, paid for, on record, given only to the audience, selected for their caller, and governed by the compilation their envelope names? | Two queries, at most one of them spooled, planned or checked, with a cache, two compilations, two callers, a write that reports or stops, registration and sharing at every step. |
| `file_writes` | Do manifests describe the files, with exact counts of nulls, and do reads keep the contract? | Two writes, two contracts, two compilations, one reader, local and remote, one file written elsewhere; one publisher or validator at a time, one write that stops anywhere, two writes open at once, registration between queries; hashes and rule ids that tell rules apart (`Agreed`). |
| `delivery` | Are small results withheld, the cache within its bounds and its time, answers certified, and does every query end? | Two queries of any mode, results up to three rows in batches up to two about a threshold of two, a cache of one entry and two bytes, a time to live of one tick, a signer or none. |

Four further runs are expected to be violated; they are the findings below.
Deadlock checking is off where the system may stop: all writes, queries and the
bounded outside events are used up.

**What the bounds leave out.**  `MCWorkspace` lets a behaviour use either the
ledger or the stores, which share only the process; and either the function or
sharing and upgrades, which touch no common variable; the other tenant wants the
function only where there is no contract.  The theorems of section 5 hold without
these bounds.  `MCDelivery` (`Together`) runs queries that use the cache
apart from those that do not, the latter over an empty cache: spooled answers and
plans do not touch it.  `MCFileTable` runs no query and registers no contract once a write is torn: what
such a query could record is what a validation records, and `AnswersKeepTheContract`
is stated for directories without torn writes (finding 4 says why).
It registers contracts again only under the stricter compilation: flags of a stricter
one do no harm.  `MCQueryPath` changes the files only among queries the cache may
answer and while the contract is shared.

**Symmetry** exchanges only what the constants do not tell apart (writes not in
`Bad`, queries, callers other than the owner, budgets, contracts) and is used in
no run that checks liveness.

**Fairness** (`FairSpec`, run `iceberg_reads`): weak fairness of each reader's own
steps, since the async runtime polls every task until it ends, and every await in
them is on the store or the catalog, which answer or fail.  Nothing is assumed of
writes, other engines, expiry, clients or crashes, and beginning is not fair either.

In `CommitLoop` (run `commit_retries`): weak fairness of the loop's own steps, for the
same reason.  Other writers are under no fairness, and may move the table for ever:
what ends the loop is the count of retries, since a table may ask for no wait at all.

In `Delivery` (run `delivery`): weak fairness of what the engine does for each
query that is not a plan handed out, namely executing, signing or timing out, and
recording: the runtime polls the task, the input of a plan ends, and tokio's timer
goes off.  Nothing is assumed of the signer, which may never answer, of the
client, which may never read its stream, or of whoever executes a plan.

## 4. Findings

Each is a run that TLC must find violated, against a sentence of the repository.

1. `iceberg_decisions`: `iceberg_facts` reads a snapshot's facts, awaits, and
   saves without looking again (`src/engine.rs:1313`).  A validation that decides
   a guarantee for that snapshot in between loses its decision, though
   `docs/reference.md:110` says it is kept "until the next `validate`".
2. `iceberg_rewrite_facts`: compacting a validated snapshot with another engine's
   position deletes makes every computation of the new snapshot's facts fail
   (`src/facts.rs:180`): the footers of the replaced files count deleted rows.
3. `budget_two_engines`: a second process over the workspace saves the whole
   ledger as it read it (`src/budget.rs:110`), and spending is forgotten.
4. `file_answers`: between a rename and the save of the manifest
   (`src/engine.rs:1161`), a read after a re-registration takes flags stored
   under the old compilation for the new one, and returns rows that break the
   contract, against `src/violation.rs:7`.  The same sentence fails in two more ways,
   which TLC finds with other constants of `MCFileTable`:
   - a function is registered again and the same document after it (`Hash <- InFunction`,
     `Agreeing = TRUE`): the compilation is another, `contract_hash` is not, and
     `flags_current` (`src/manifest.rs:185`) trusts flags the old function computed;
   - another contract over the directory has a rule of the same id, and publishes a file
     between a query's decision to trust flags and its listing of the files (two
     contracts, `Again = FALSE`): the column is named by the id (`src/binding.rs:159`).

What the models show besides; the properties are stated so that they say what does
hold:

- `GovernedAsReported` is about answers drawn by a query during whose preparation
  the contract was not registered again (`steady`): `prepare` looks it up four
  times (`src/engine.rs:1928`).  Nor is `AnswersAreForTheCaller` about others: the key's
  parameters are those of the fourth lookup (`src/engine.rs:1937`), so two callers whom
  a new compilation binds alike may share an entry made under the old one.
- Two writes that publish at once (`MaxBusy = 2`): the manifest saved last lists only
  its own write's file (`src/engine.rs:1141`), though `src/engine.rs:985` says that facts
  "become what they were combined with the write's".
- A validation scans the rows and lists the files after (`src/engine.rs:1539`); a file
  published in between is listed and not counted, though `docs/execution.md:29` says
  that `validate` "recomputes a manifest from the whole dataset".  One published before
  it saves is written out of the manifest.
- An error other than a conflict or a refusal leaves it open whether the write is in
  the table: `file_io().delete` may fail after the catalog took the commit
  (`src/iceberg_table.rs:1187`, `:1101`).  `ReportsAreTrue` says that a conflict and a
  refusal do mean that it is not.
- A file of a write that stopped after its rename stays out of the
  manifests that already existed, and what an overwrite removed before it stopped
  stays counted, until something is written or validated over it.
- Two calls of `publish` or `unpublish` at once can leave `published.json` without
  the change of one, and a crash between its truncation and its write leaves a
  workspace that does not open (`src/store.rs:240`).
- A crash between the writes of a function's two files, where it had been
  registered before, leaves a workspace that does not open
  (`src/functions.rs:107`); so do two tenants that register one name at once
  (`src/functions.rs:76`), both of whom are told that they have it.
- Two loads of one name at once may leave the registry with one module and the
  list of modules with the other; a function that came with a compiled contract
  (`register_compiled`) is not stored and is gone after a restart, the contract
  that is pinned to it is not.
- A contract whose name has `__` or `_/` has its audiences loaded under another name
  (`src/store.rs:199`; `Name <- Underlined` in `MCWorkspace`): sharing it ends with the
  process, and `peql publish` of it, which is a process of its own, has no effect after it ends.
- Two names that differ in `/` and `__` have one directory, and their versions
  overwrite each other; the files of manifests and facts are named in the same way
  (`src/manifest.rs:154`, `src/object_binding.rs:166`, `src/iceberg_table.rs:291`).

## 5. The proofs

`BudgetLedgerProofs` proves, for any sets of callers, budgets, charges and
limits, and under `OneEngine` (at most one engine exists; finding 3 shows the
assumption is needed), `TypeOK`, `SpendingIsKept`, `NothingElseIsSpent` and
`AnswersWithinLimit`.  None is inductive: they speak of the file, and the file is
overwritten from memory.  `IInv` adds `LockInv` (a stopped engine holds no charge,
a free lock is `Free`) and, for each account, `AccountInv`: memory lies between
what was paid plus what is pending and what was paid or is owed; once the ledger
was saved the file covers the pending charge too; neither memory, the file nor a
limit in them is above the highest limit there was.  Opening takes memory from
the file, saving the file from memory, so each needs the other's bound.

`QueryPathProofs` proves, for any sets of queries, callers and compilations and
any rules, `TypeOK`, `ReadsSeeFinishedWrites`, `NoiseIsPaidFor`,
`AnswersAreOnRecord`, `AnswersWereVisible`, `GovernedAsReported` and
`AnswersAreForTheCaller`.  `IInv` is the conjunction of

- `TypeOK` and `StageInv`: what a query holds at each step (the type alone allows
  a query at `run` without an answer);
- `SeenInv`: versions only grow along asked, resolved, drawn; and every *cache
  entry* is at least as new as its key says, since a hit is only compared by key.
  A plan is stamped with the manifest read before the files are listed, never after;
- `PaidInv`: every batch, held or cached, was drawn by a query past planning that
  paid exactly its noise, and whoever holds another's batches paid nothing;
- `RecordInv`: what left the engine is on record with what was paid;
- `SightInv`: a caller who passed `visible`, or could pass it now, has been
  visible at some moment since asking.

The steps `StageStep`, `SeenStep`, `PaidStep`, `RecordStep` and `SightStep` take
one conjunct each, action by action, and use of the others only what they name.
`GovernInv`, for `GovernedAsReported`, is added on top: a steady query's lookups
so far agree, and a batch, held or cached, of a steady draw was made under the
compilation its key names.  `OwnInv`, for `AnswersAreForTheCaller`, says the same of
parameters: a steady query's fingerprint is what its compilation binds for its caller,
and the batches of a steady draw were bound to the values in their key.

It also proves `LedgerIsExact`, that an account holds the sum of what its caller's
queries paid, within the limit.  `LedgerInv` adds that the queries a caller has asked
are finitely many and that an idle one is not among them: asking adds a term of zero
to a finite sum, planning changes one term.

`WorkspaceProofs` proves that `Workspace` implements `BudgetLedger`
(`WorkspaceHasALedger`: every step of the workspace is a step of the ledger or
none), so that the ledger's theorems hold of it, and, under `OneEngine` and for
any versions, documents, tenants, modules and number of calls, `StoreTypeOK`,
`ContractsOutliveTheProcess`, `AudiencesOutliveTheProcess`,
`FunctionsOutliveTheProcess`, `WorkspaceOpensAgain`, `BundlesMatchPins` and the action
property `NamesStayWithTheirOwner`.  Those speak of the moments when nothing is under way;
`WInv` says what holds in between:

- `WType`: the types, and what a call holds at each of its steps (`CallInv`), in
  particular that a contract being registered was compiled by this process's
  parcel, which is why what is put is not stale;
- `ContractInv`: a version with no call between its file and its memory is served
  as it would be loaded (`Served`); one with such a call is on disk what the call
  holds;
- `AudienceInv`: while one call saves the audiences, the file is truncated and the
  call holds what memory holds;
- `FunctionInv`: one call at a time brings a function, it is the registry's owner
  who brings it, at most one tenant has a record, and outside that call's writes
  record and module agree; `Brought` says how far the call has come;
- `KeptInv`: memory holds what is on disk until the call inserts, and the call's
  own function from its insert to its last write;
- `BundleInv`: while a contract is pinned and not yet bundled nobody brings a
  function, and a registry between an insert and its push apart has the module of
  its entry, so that what `modules_for` finds is what was pinned.

`AudiencesOutliveTheProcess` holds for a contract whose name comes back from its
directory (`Returns(Name)`, a hypothesis of the theorem; `MCWorkspace`'s assumption
`NamesReturn`, which TLC evaluates for all names of up to six characters, says which
names those are).

Each is shown by a frame lemma (a step that touches none of its variables) and one
step per action that does.

`IcebergTableProofs` proves, for any writes, readers, contracts, compilations and
limit of retries, `TypeOK`, `ReportsAreTrue` and that `IcebergTable` implements
`AbstractTable` (`CommitsRefine`, the run's `ImplementsTable`: every step is a step of
the abstract table or none).  `WType` is the types with `StandInv` and `TaskInv`, what
a write or a task holds at each of its steps.  `IInv` adds, about the history:

- `OnceInv`: every write is in the log once;
- `ListInv`: a snapshot lists its own manifest and others of its past, and a
  manifest once dropped does not come back;
- `NameInv`, `ApartInv`: what a manifest names (its write's own file, deletes and no
  file, or, after another engine merged the manifests, the files of those it
  replaced), and that the manifests of one snapshot have no file in common;
- `CommitInv`: what peQL's own commits did to the manifests and the rows;
- `OwnInv`: a write's file is its own, and at `attempt` an overwrite has seen the very
  snapshot it began from, a rewrite one it can be carried to.

A write decides against a snapshot that may be stale when it commits; the catalog
refuses unless that snapshot is still the current one, so `OwnInv` at `attempt` is
what makes the commit one that `AbstractTable` allows.  A rewrite changes no row
because its base's manifests are all still listed and no delete came after
(`Rewritten::carried`), and a manifest that came back would break that.

`IcebergFactsProofs` proves `FactsDescribeTheirSnapshot`,
`CachedFactsDescribeTheirSnapshot` and `DecisionsAreAboutTheData` from
`FInv == IInv /\ FactsInv /\ CachedInv /\ KnowsInv`: the facts recorded, the facts the
engine answers from, and what a task knows in the middle of a replay (the facts of
the snapshot before the next one, or nothing where the next write needs nothing) say
what a validation of the whole snapshot would have.  The counts are additive over
disjoint sets of rows (`IcebergTable`'s assumptions), and `IInv` says that an append's
rows are new.

`DeliveryProofs` proves, for any queries, contracts, limits `K` and bounds of the
cache, `TypeOK`, `SmallResultsAreWithheld`, `NothingIsSeenBelowK`,
`CacheKeepsItsBounds`, `HitsAreFresh` and `AnswersAreCertified`.  `Inv` is

- `CacheInv`: each key is in the cache once, the byte count kept by hand is the
  weight of the entries, both bounds hold, and every entry's rows are withheld already
  and it is exactly as old as it says;
- `QueriesInv`: for each query `JobOK`: how the rows let out and held back add up to
  those counted, what the caller has seen of them at each step, and that the
  connection to the signer carries this query's own request and an answer to it.

The cache is a sequence that is filtered and weighed.  `Those` and `Weight` are
recursive functions, and lemmas by induction on the length say what dropping,
appending and evicting do to the keys and to the weight.

`FileTableProofs` proves, for any writes, contracts, compilations, readers and sizes
of files:

- `TypeOK`, of every execution: a rounded rate lies between 0 and `Scale`, and the
  nulls recovered from it between 0 and the rows;
- `ManifestsDescribeFiles`, of `SerialSpec`: the executions in which at most one
  publication or validation is under way (`Alone`), as in `file_writes`.  Without
  that it does not hold (section 4);
- `AnswersKeepTheContract`, of `CalmSpec` and under `HashesTell`: besides, a contract is
  registered again only while no query runs, a write and a query that run at once are
  under rules that agree on the rule ids they share (`Agreed`), and equal hashes mean
  rules that agree.  Finding 4, with what is said there, shows that these are needed.

Writes may be open, and queries run, in any number.  `ManifestInv` is about the middle
of a publication: every manifest counts the files it lists (`Exact`) and misses only
those torn or being published; `Publishes` says how far the write has come: what it
loaded is about the files that are there (`Ready`), then about those and its own
(`Added`), and the contracts not left to save have manifests that list them all
(`Covers`); `Refreshes` says the same of a validation.  That `after_write` computes an
exact manifest from an exact one is arithmetic: with fewer rows than `Scale` the count
recovered from a rounded rate is the count it was made from, and the totals add up
because the write's file is not among those listed.  `AnswerInv` calls a file
`Old` when it was written under rules that disagree with the contract's.  The only
file a manifest may miss is being published, and so is not `Old` by `Agreed`: the
manifest a query resolves by lists every `Old` file, and their stamps, by
`HashesTell`, say that the flags are not current.

`FiniteSums` has induction over the natural numbers and over finite sets in a form
the provers can use (about a set in place of a predicate), and from it that a sum by
`MapThenSumSet` over a finite set is a natural number, is any one term and the sum
of the others, and depends on its terms alone.

The assumptions on the constants are the named `ASSUME`s of the modules, which TLC
evaluates in every run.

**Only model-checked**: liveness (`ReadsEnd`, `CommitsEnd`, `QueriesEnd`: fairness is
out of the prover's reach), the retry loop (`CommitLoop`) and the names
(`ContractNames`), and the four findings, whose counterexamples are TLC's.

## 6. Plan

Done: the inventory, the core modules, the stores and their restarts
(`Workspace`), suppression, the cache, the signer and the stream (`Delivery`),
the null rate (`FileTable`), the retry loop (`CommitLoop`), the names
(`ContractNames`), the proofs of every safety property the passing runs of the other
modules check.  Next, in this order:

1. Which columns a schema change adds at `begin_write`, and creation of the table.
2. Queries over two contracts with one budget, and snapshots named by the query,
   in `QueryPath`.

## 7. Not modelled

- The content of rows and of SQL, and the rewriting of plans (`gate.rs`,
  `guard.rs`, `vector.rs`): sequential functions of one plan without state of
  their own, over DataFusion's plan types; a model would repeat their case
  analysis node by node.  Their refusals are failures of `QueryPath`.
- Hashes and their collisions, the view hash, result formats, Lance, the wire
  formats of Flight and of the signer, the command line and the Python bindings:
  conversions and adapters.
- Minimum and maximum of a column (`extreme`): comparisons of parcel's values.
- The cache's counters of hits and
  misses, partitioned layouts, the cleaning of staged files.

`parcel` itself (compilation, rules, shapes, verifying a module) is outside the
repository.

----------------------------- MODULE Workspace -----------------------------
(***************************************************************************)
(* A workspace on disk (Engine::open): beside the ledger of BudgetLedger,  *)
(* whose engines and whose opening and stopping it shares, the contract    *)
(* store (src/src/store.rs, DirStore over MemoryStore) and the function    *)
(* store (src/src/functions.rs).  One contract, in several versions, and   *)
(* one function name, which several tenants may want.                      *)
(*                                                                         *)
(* Calls run on threads of an engine.  Each lock is held for one step, and *)
(* no lock spans memory and disk.  A stored contract is renamed into place *)
(* (atomic.rs); published.json and a function's two files are truncated    *)
(* and then written (std::fs::write), and a write over bytes another call  *)
(* put there since may leave a mixture of the two.                         *)
(***************************************************************************)
EXTENDS BudgetLedger, ContractNames, FiniteSets

CONSTANTS
    Name,       \* the name of the contract
    Calls,      \* threads that register and share
    Versions,   \* the versions of the contract
    Docs,       \* the documents it may be registered from
    Uses,       \* the documents that call the function
    Tenants,    \* who may own the function, or be shared the contract
    Owner,      \* the tenant that owns the contract
    Hashes,     \* the modules of the function, by hash
    Truncated,  \* a file emptied, or written in part
    Mixed       \* a file two calls wrote over each other

ASSUME OwnerAssumption == Owner \in Tenants /\ Uses \subseteq Docs
ASSUME NameAssumption == Name \in Seq(Chars)
ASSUME NamesAssumption == None \notin Engines \cup Versions \cup Tenants
ASSUME BrokenAssumption ==
    /\ \A x \in {Truncated, Mixed, None} : x \notin Hashes /\ \A A \in SUBSET Tenants : x # A
    /\ Truncated # Mixed /\ None \notin {Truncated, Mixed}

VARIABLES
    parcel,     \* the version of parcel the engines are built with
    stored,     \* stored[v]: v<version>.peql.json
    published,  \* published.json
    module,     \* module[t]: functions/<t>/<name>.wasm
    record,     \* record[t]: functions/<t>/<name>.json, the hash in it
    store,      \* store[e]: what e holds in memory
    call,       \* call[c]: what the thread is doing
    excused     \* history: what overlapping, failed or cut short calls may have left

diskVars == <<stored, published, module, record>>
storeVars == <<parcel, diskVars, store, call, excused>>

\* A registered version: its document, the parcel that compiled it, the hash of the
\* function it is pinned to and the modules its bundle carries (StoredContract).
Contract == [doc : Docs, parcel : Nat, pin : Hashes \cup {None}, bundle : SUBSET Hashes]
Entry    == [owner : Tenants, hash : Hashes]

ASSUME NoneAssumption == None \notin Contract \cup Entry

\* MemoryStore's contents, the stale versions, and FunctionStore's registry and modules.
Blank == [versions |-> [v \in Versions |-> None], audiences |-> {}, stale |-> {},
          registry |-> None, modules |-> [t \in Tenants |-> None]]

NoCall == [at |-> "idle", engine |-> None, version |-> None, contract |-> None,
           tenant |-> None, hash |-> None, names |-> {}]

WInit ==
    /\ Init
    /\ parcel = 0
    /\ stored = [v \in Versions |-> None]
    /\ published = None
    /\ module = [t \in Tenants |-> None] /\ record = [t \in Tenants |-> None]
    /\ store = [e \in Engines |-> Blank]
    /\ call = [c \in Calls |-> NoCall]
    /\ excused = {}

(***************************************************************************)
(* Opening and stopping                                                    *)
(***************************************************************************)
\* store::load, Registered::from_compiled.
Loads(k) == k # None /\ k.parcel = parcel

\* DirStore::open: what loads is served, what does not is stale, and the audiences stand
\* for either.  A version carries the name of its contract; the audiences are published
\* under the name the directory decodes to, which may be another contract's.
LoadedVersions  == [v \in Versions |-> IF Loads(stored[v]) THEN stored[v] ELSE None]
StaleVersions   == {v \in Versions : stored[v] # None /\ ~Loads(stored[v])}
LoadedAudiences == IF published = None \/ ~Returns(Name) THEN {} ELSE published

\* FunctionStore::open: every function with a record, which must load with the hash
\* recorded; a module without a record is not looked at.
Recorded == {t \in Tenants : record[t] # None}
LoadedRegistry ==
    IF Recorded = {} THEN None
    ELSE LET t == CHOOSE t \in Recorded : TRUE IN [owner |-> t, hash |-> record[t]]
LoadedModules == [t \in Tenants |-> IF t \in Recorded THEN module[t] ELSE None]

\* The workspace opens: every file that is not a contract loads, and no two tenants have
\* the name (FunctionStore::load).
Opens ==
    /\ published \notin {Truncated, Mixed}
    /\ \A t \in Recorded : record[t] \in Hashes /\ module[t] = record[t]
    /\ Cardinality(Recorded) <= 1

\* Engine::open: the contracts, the functions, the budgets.  One that fails is an error,
\* and nothing is open.
OpenWorkspace(e) ==
    /\ Opens
    /\ Open(e)
    /\ store' = [store EXCEPT ![e] =
           [versions |-> LoadedVersions, audiences |-> LoadedAudiences,
            stale |-> StaleVersions, registry |-> LoadedRegistry, modules |-> LoadedModules]]
    /\ UNCHANGED <<parcel, diskVars, call, excused>>

\* The calls that are writing published.json, and those that have begun to replace a
\* function's files and have not replaced both.
Publishing == {c \in Calls : call[c].at = "names2"}
Saving     == {c \in Calls : call[c].at \in {"module2", "record", "record2"}}

\* Mutant of StopWorkspace: calls go on without their engine.
StopOnly(e) ==
    /\ Stop(e)
    /\ store' = [store EXCEPT ![e] = Blank]
    /\ UNCHANGED <<parcel, diskVars, call, excused>>

\* The process ends, at any point of its calls.
StopWorkspace(e) ==
    LET mine == {c \in Calls : call[c].engine = e}
    IN  /\ Stop(e)
        /\ store' = [store EXCEPT ![e] = Blank]
        /\ call' = [c \in Calls |-> IF c \in mine THEN NoCall ELSE call[c]]
        /\ excused' = excused \cup (IF mine \cap Publishing # {} THEN {"audiences"} ELSE {})
                              \cup (IF mine \cap Saving # {} THEN {"functions"} ELSE {})
        /\ UNCHANGED <<parcel, diskVars>>

\* peQL is upgraded while nothing runs.
Upgrade ==
    /\ up = {}
    /\ parcel' = parcel + 1
    /\ UNCHANGED <<vars, diskVars, store, call, excused>>

(***************************************************************************)
(* Calls                                                                   *)
(***************************************************************************)
Idle(c, e) == call[c] = NoCall /\ e \in up

Becomes(c, r) == call' = [call EXCEPT ![c] = r] /\ UNCHANGED <<vars, parcel>>

\* c's call goes on at `to', or is over.
Goes(c, to) == Becomes(c, IF to = "idle" THEN NoCall ELSE [call[c] EXCEPT !.at = to])

\* What c's engine holds becomes s; the disk is not touched.
Holds(c, s) == store' = [store EXCEPT ![call[c].engine] = s] /\ UNCHANGED <<diskVars, excused>>

Mem(c) == store[call[c].engine]

Excuse(X) == excused' = excused \cup X

\* Loads and registrations of a contract under way.
Loading    == {c \in Calls : call[c].tenant # None}
Bundling   == {c \in Calls : call[c].at = "bundle"}
Putting(v) == {c \in Calls : call[c].version = v}

\* Engine::register_contract as far as it compiles: a document that calls the function
\* is pinned to it as the owner sees it (registry_for), or is refused.
RegisterContract(c, e, v, d) ==
    LET f == store[e].registry
        k == [doc |-> d, parcel |-> parcel, pin |-> IF d \in Uses THEN f.hash ELSE None,
              bundle |-> {}]
    IN  /\ Idle(c, e)
        /\ d \in Uses => f # None /\ f.owner = Owner
        /\ Becomes(c, [NoCall EXCEPT !.at = "bundle", !.engine = e, !.version = v,
                                     !.contract = k])
        /\ Excuse((IF Putting(v) # {} THEN {"contracts"} ELSE {})
                  \cup (IF Loading # {} THEN {"bundles"} ELSE {}))
        /\ UNCHANGED <<diskVars, store>>

\* FunctionStore::modules_for, under both read locks.
Bundle(c) ==
    LET k == call[c].contract
        f == Mem(c).registry
        m == IF f # None /\ f.hash = k.pin THEN Mem(c).modules[f.owner] ELSE None
    IN  /\ call[c].at = "bundle"
        /\ Becomes(c, [call[c] EXCEPT !.at = "file", !.contract.bundle = {m} \ {None}])
        /\ UNCHANGED <<diskVars, store, excused>>

\* Engine::register_compiled: a contract compiled elsewhere, with the module it is pinned
\* to, which is adopted: loaded as registering it would, and not stored.
RegisterCompiled(c, e, v, d, h) ==
    LET f == store[e].registry
        k == IF d \in Uses THEN [doc |-> d, parcel |-> parcel, pin |-> h, bundle |-> {h}]
                          ELSE [doc |-> d, parcel |-> parcel, pin |-> None, bundle |-> {}]
    IN  /\ Idle(c, e)
        /\ d \in Uses /\ f # None => f.owner = Owner
        /\ Becomes(c, [NoCall EXCEPT
               !.at = IF d \in Uses THEN "insert" ELSE "take", !.engine = e, !.version = v,
               !.contract = k, !.hash = k.pin, !.tenant = IF d \in Uses THEN Owner ELSE None])
        /\ Excuse((IF Putting(v) # {} THEN {"contracts"} ELSE {})
                  \cup (IF d \in Uses THEN {"adopted"} ELSE {})
                  \cup (IF d \in Uses /\ Loading # {} THEN {"functions"} ELSE {})
                  \cup (IF d \in Uses /\ Bundling # {} THEN {"bundles"} ELSE {}))
        /\ UNCHANGED <<diskVars, store>>

\* Registered::from_compiled: bytes of another parcel, or of another contract, are
\* refused, with their functions loaded.
Take(c) ==
    /\ call[c].at = "take"
    /\ Goes(c, "file") \/ Goes(c, "idle")
    /\ UNCHANGED <<diskVars, store, excused>>

\* DirStore::put: the file, then the stale entry, then the memory.
PutFile(c) ==
    /\ call[c].at = "file"
    /\ stored' = [stored EXCEPT ![call[c].version] = call[c].contract]
    /\ Goes(c, "unstale")
    /\ UNCHANGED <<published, module, record, store, excused>>

\* Mutant of Unstale: the version stays on the list of the stale.
UnstaleNothing(c) ==
    /\ call[c].at = "unstale"
    /\ Holds(c, Mem(c))
    /\ Goes(c, "serve")

Unstale(c) ==
    /\ call[c].at = "unstale"
    /\ Holds(c, [Mem(c) EXCEPT !.stale = @ \ {call[c].version}])
    /\ Goes(c, "serve")

Serve(c) ==
    /\ call[c].at = "serve"
    /\ Holds(c, [Mem(c) EXCEPT !.versions[call[c].version] = call[c].contract])
    /\ Goes(c, "idle")

\* Mutant of RegisterFunction: nobody asks who has the name.
RegisterFunctionAnyway(c, e, t, h) ==
    /\ Idle(c, e)
    /\ Becomes(c, [NoCall EXCEPT !.at = "insert", !.engine = e, !.tenant = t, !.hash = h])
    /\ Excuse((IF Loading # {} THEN {"functions"} ELSE {})
              \cup (IF Bundling # {} THEN {"bundles"} ELSE {}))
    /\ UNCHANGED <<diskVars, store>>

\* FunctionStore::register and load: the owner of the name is checked under the read
\* lock; then the module is verified, which takes a while.
RegisterFunction(c, e, t, h) ==
    LET f == store[e].registry
    IN  /\ Idle(c, e)
        /\ f # None => f.owner = t
        /\ Becomes(c, [NoCall EXCEPT !.at = "insert", !.engine = e, !.tenant = t, !.hash = h])
        /\ Excuse((IF Loading # {} THEN {"functions"} ELSE {})
                  \cup (IF Bundling # {} THEN {"bundles"} ELSE {}))
        /\ UNCHANGED <<diskVars, store>>

\* Mutant of Insert: a name that has an entry keeps it.
InsertOnce(c) ==
    LET r == call[c]
    IN  /\ r.at = "insert"
        /\ Holds(c, [Mem(c) EXCEPT !.registry = IF @ # None THEN @
                                  ELSE [owner |-> r.tenant, hash |-> r.hash]])
        /\ Goes(c, "push")

Insert(c) ==
    LET r == call[c]
    IN  /\ r.at = "insert"
        /\ Holds(c, [Mem(c) EXCEPT !.registry = [owner |-> r.tenant, hash |-> r.hash]])
        /\ Goes(c, "push")

\* Mutant of Push: the module registered before stays first.
PushLast(c) ==
    LET r == call[c]
    IN  /\ r.at = "push"
        /\ Holds(c, [Mem(c) EXCEPT !.modules[r.tenant] = IF @ = None THEN r.hash ELSE @])
        /\ Goes(c, IF r.contract = None THEN "module" ELSE "take")

\* The end of load, and of an adoption; register goes on to store.
Push(c) ==
    LET r == call[c]
    IN  /\ r.at = "push"
        /\ Holds(c, [Mem(c) EXCEPT !.modules[r.tenant] = r.hash])
        /\ Goes(c, IF r.contract = None THEN "module" ELSE "take")

\* What a file holds after `new' is written to it, which held `now'.
Over(now, new) == IF now \in {Truncated, new} THEN {new} ELSE {new, Mixed}

TruncateModule(c) ==
    /\ call[c].at = "module"
    /\ module' = [module EXCEPT ![call[c].tenant] = Truncated]
    /\ Goes(c, "module2")
    /\ UNCHANGED <<stored, published, record, store, excused>>

WriteModule(c) ==
    LET r == call[c]
    IN  /\ r.at = "module2"
        /\ \E x \in Over(module[r.tenant], r.hash) : module' = [module EXCEPT ![r.tenant] = x]
        /\ Goes(c, "record")
        /\ UNCHANGED <<stored, published, record, store, excused>>

TruncateRecord(c) ==
    /\ call[c].at = "record"
    /\ record' = [record EXCEPT ![call[c].tenant] = Truncated]
    /\ Goes(c, "record2")
    /\ UNCHANGED <<stored, published, module, store, excused>>

WriteRecord(c) ==
    LET r == call[c]
    IN  /\ r.at = "record2"
        /\ \E x \in Over(record[r.tenant], r.hash) : record' = [record EXCEPT ![r.tenant] = x]
        /\ Goes(c, "idle")
        /\ UNCHANGED <<stored, published, module, store, excused>>

\* Engine::publish, of a contract that is registered, and unpublish, of any: the memory
\* first.
Share(c, e, A) ==
    /\ Idle(c, e)
    /\ store' = [store EXCEPT ![e].audiences = A]
    /\ Becomes(c, [NoCall EXCEPT !.at = "names", !.engine = e])
    /\ Excuse(IF \E o \in Calls : call[o].at \in {"names", "names2"} THEN {"audiences"} ELSE {})
    /\ UNCHANGED diskVars

Publish(c, e, a) ==
    /\ \E v \in Versions : store[e].versions[v] # None
    /\ Share(c, e, store[e].audiences \cup {a})

\* Mutant of Unpublish: what was removed is not saved.
UnpublishUnsaved(c, e, a) ==
    /\ Idle(c, e)
    /\ store' = [store EXCEPT ![e].audiences = @ \ {a}]
    /\ UNCHANGED <<vars, parcel, diskVars, call, excused>>

Unpublish(c, e, a) == Share(c, e, store[e].audiences \ {a})

\* DirStore::save_audiences: the audiences as they are now, read and then written.
TruncateNames(c) ==
    /\ call[c].at = "names"
    /\ published' = Truncated
    /\ Becomes(c, [call[c] EXCEPT !.at = "names2", !.names = Mem(c).audiences])
    /\ UNCHANGED <<stored, module, record, store, excused>>

WriteNames(c) ==
    /\ call[c].at = "names2"
    /\ published' \in Over(published, call[c].names)
    /\ Goes(c, "idle")
    /\ UNCHANGED <<stored, module, record, store, excused>>

\* A file cannot be written: the call is an error, and what it did stays done.
WriteFails(c) ==
    /\ call[c].at \in {"file", "names", "names2", "module", "module2", "record", "record2"}
    /\ Goes(c, "idle")
    /\ Excuse(CASE call[c].at = "file" -> {}
                [] call[c].at \in {"names", "names2"} -> {"audiences"}
                [] OTHER -> {"functions"})
    /\ UNCHANGED <<diskVars, store>>

-----------------------------------------------------------------------------
Step(c) ==
    \/ Bundle(c) \/ Take(c) \/ PutFile(c) \/ Unstale(c) \/ Serve(c)
    \/ Insert(c) \/ Push(c) \/ TruncateModule(c) \/ WriteModule(c)
    \/ TruncateRecord(c) \/ WriteRecord(c) \/ TruncateNames(c) \/ WriteNames(c)
    \/ WriteFails(c)

Ask(c, e) ==
    \/ \E v \in Versions, d \in Docs : RegisterContract(c, e, v, d)
    \/ \E v \in Versions, d \in Docs, h \in Hashes : RegisterCompiled(c, e, v, d, h)
    \/ \E t \in Tenants, h \in Hashes : RegisterFunction(c, e, t, h)
    \/ \E a \in Tenants : Publish(c, e, a) \/ Unpublish(c, e, a)

\* The ledger's own steps.
LedgerStep ==
    /\ \E e \in Engines :
          \/ Save(e) \/ SaveFails(e) \/ Answered(e)
          \/ \E c \in Callers, ch \in Charges : ChargeAll(e, c, ch)
          \/ \E b \in Budgets, n \in Limits : SetLimit(e, b, n)
    /\ UNCHANGED storeVars

WNext ==
    \/ \E e \in Engines : OpenWorkspace(e) \/ StopWorkspace(e)
    \/ Upgrade
    \/ \E c \in Calls, e \in Engines : Ask(c, e)
    \/ \E c \in Calls : Step(c)
    \/ LedgerStep

WSpec == WInit /\ [][WNext]_<<vars, storeVars>>

-----------------------------------------------------------------------------
Excuses == {"contracts", "audiences", "functions", "adopted", "bundles"}

Stages == {"idle", "bundle", "take", "file", "unstale", "serve", "insert", "push", "module",
           "module2", "record", "record2", "names", "names2"}

\* The state of the stores is well typed, and an engine that is not open holds nothing
\* and makes no call.
StoreTypeOK ==
    /\ parcel \in Nat
    /\ stored \in [Versions -> Contract \cup {None}]
    /\ published \in {None, Truncated, Mixed} \/ published \in SUBSET Tenants
    /\ module \in [Tenants -> Hashes \cup {None, Truncated, Mixed}]
    /\ record \in [Tenants -> Hashes \cup {None, Truncated, Mixed}]
    /\ store \in [Engines -> [versions : [Versions -> Contract \cup {None}],
                              audiences : SUBSET Tenants, stale : SUBSET Versions,
                              registry : Entry \cup {None},
                              modules : [Tenants -> Hashes \cup {None}]]]
    /\ \A c \in Calls : call[c].at \in Stages /\ (call[c].at # "idle" => call[c].engine \in up)
    /\ \A e \in Engines \ up : store[e] = Blank
    /\ excused \subseteq Excuses

\* A version whose registration is over is served as it is on disk, so that a restart
\* serves the same versions and calls the same ones stale ("loaded as it was stored"),
\* whatever crashed or failed to be written; unless two registrations of one version
\* overlapped.
ContractsOutliveTheProcess ==
    \A e \in up, v \in Versions : Putting(v) = {} /\ "contracts" \notin excused =>
        /\ store[e].versions[v] = LoadedVersions[v]
        /\ v \in store[e].stale <=> v \in StaleVersions

\* Whom a contract is shared with is the same after a restart, unless two calls that
\* share or unshare it overlapped, or one was cut short or failed.
AudiencesOutliveTheProcess ==
    \A e \in up :
        (\A c \in Calls : call[c].at \notin {"names", "names2"}) /\ "audiences" \notin excused =>
            store[e].audiences = LoadedAudiences

\* A function registered is the one a restart loads, module and all ("a reopened
\* workspace reloads the functions from storage"), unless registrations overlapped, or
\* one was cut short or failed, or a function came with a compiled contract.
FunctionsOutliveTheProcess ==
    \A e \in up : Loading = {} /\ excused \cap {"functions", "adopted"} = {} =>
        store[e].registry = LoadedRegistry /\ store[e].modules = LoadedModules

\* A workspace that was closed, or whose process stopped anywhere but between the first
\* and the last write of published.json or of a function's files, opens again, and so
\* does one with a contract that no longer loads.
WorkspaceOpensAgain ==
    up = {} /\ excused \cap {"audiences", "functions"} = {} => Opens

\* The bundle a contract is served and stored with carries the module it is pinned to
\* and no other, unless the function was registered while the contract was, or twice at
\* once.
BundlesMatchPins ==
    excused \cap {"bundles", "functions"} = {} =>
        \A e \in up, v \in Versions :
            \A k \in {store[e].versions[v], stored[v]} \ {None} : k.bundle = {k.pin} \ {None}

\* A function name stays with the tenant that has it (tests/wasm.rs: "Nor can a tenant
\* register ... a function name another tenant owns"), as long as no two registrations
\* overlapped.
NamesStayWithTheirOwner ==
    [][\A e \in up \cap up' : store[e].registry # None /\ "functions" \notin excused' =>
           store'[e].registry.owner = store[e].registry.owner]_<<vars, storeVars>>
=============================================================================

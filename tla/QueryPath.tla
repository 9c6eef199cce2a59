------------------------------ MODULE QueryPath ------------------------------
(***************************************************************************)
(* The life of a query in one engine (src/src/engine.rs: prepare, planned, *)
(* run, spool, plan_as_of, check; src/src/cache.rs, audit.rs, envelope.rs),*)
(* over one contract, while the contract is registered again, shared and   *)
(* unshared, and written to.                                               *)
(*                                                                         *)
(* The engine runs queries on a pool of threads, and between the steps of  *)
(* one query anything may happen.  prepare looks the contract up anew in   *)
(* each of its steps: `visible', `resolve_with', `contract_view', `get'.   *)
(* A compilation stands for the rules it holds; the noise its shapes add   *)
(* for a caller is the epsilon it costs, Noise[k][c], 0 for none.  Data is *)
(* counted in versions: `data' is that of the files, `stamp' that of the   *)
(* manifest (its data hash and write time), which a write records last.    *)
(***************************************************************************)
EXTENDS Integers, FiniteSets, FiniteSetsExt

CONSTANTS
    Queries,   \* attempts: each has an audit id of its own
    Callers,
    Owner,     \* the caller whose tenant owns the contract
    Comps,     \* the compilations the contract may be registered under
    Allows,    \* Allows[k][c]: whether k's decide rules admit caller c
    Noise,     \* Noise[k][c]: the epsilon of the shapes k applies to c
    Params,    \* Params[k][c]: the values that k's parameters are bound to for c
    Limit,     \* epsilon a caller may spend
    None

ASSUME OwnerAssumption == Owner \in Callers
ASSUME RulesAssumption ==
    /\ Allows \in [Comps -> [Callers -> BOOLEAN]]
    /\ Noise \in [Comps -> [Callers -> Nat]]
    /\ Limit \in Nat
    /\ None \notin Comps \cup Queries

VARIABLES
    comp,      \* the compilation the contract is registered under
    audience,  \* the callers it is shared with
    data,      \* the version of the files
    stamp,     \* the version the manifest describes
    writing,   \* whether a write has changed the files and not yet the manifest
    cache,     \* the entries: the batches of an answer, by key
    spent,     \* spent[c]: the ledger
    audit,     \* audit[q]: the record of q
    pc,        \* where q is
    asked,     \* asked[q]: who asked, how, and the version written then
    could,     \* history: whether the caller could see the contract since it asked
    steady,    \* history: whether the contract stayed as it was while q was prepared
    res,       \* res[q]: the resolution the envelope and the audit record report
    view,      \* view[q]: the compilation of the plan that stands in for the contract
    noise,     \* noise[q]: the noise of the shapes applied to the plan
    fingerprint,  \* fingerprint[q]: the values of the parameters in q's cache key
    ans,       \* ans[q]: the batches
    paid       \* paid[q]: what q charged

engineVars == <<comp, audience, data, stamp, writing>>
queryVars  == <<asked, res, view, noise, fingerprint, ans, paid>>
history    == <<could, steady>>
vars == <<engineVars, cache, spent, audit, pc, queryVars, history>>

\* query and query_as_of; query_spooled (Flight), which has no cache; plan; check.
Modes == {"query", "spool", "plan", "check"}

\* What a query asks, what it resolves to, and what is recorded of it (AuditRecord).
Asks        == [caller : Callers, mode : Modes, since : Nat]
Resolutions == [comp : Comps, shapes : Nat, stamp : Nat]
Records     == [outcome : {"signed", "planned", "failed"}, comp : Comps \cup {None},
                charges : Nat]

ASSUME NoneAssumption == None \notin Asks \cup Records

\* Everything an answer depends on (CacheKey): the compilation resolved, its
\* parameters for the caller, the shapes resolved, and the manifest's data.
Bindings == {Params[k][c] : k \in Comps, c \in Callers}
Keys == [comp : Comps, params : Bindings, shapes : Nat, stamp : Nat]

\* Batches: the view they were read through and what its parameters were bound to, the
\* noise in them, the version of the files read, and the execution that drew the noise.
Batches == [view : Comps, bound : Bindings, noise : Nat, data : Nat, draw : Queries]

Init ==
    /\ comp \in Comps
    /\ audience = {}
    /\ data = 0 /\ stamp = 0 /\ writing = FALSE
    /\ cache  = {}
    /\ spent  = [c \in Callers |-> 0]
    /\ audit  = [q \in Queries |-> None]
    /\ pc     = [q \in Queries |-> "idle"]
    /\ asked  = [q \in Queries |-> None]
    /\ could  = [q \in Queries |-> FALSE]
    /\ steady = [q \in Queries |-> TRUE]
    /\ res    = [q \in Queries |-> None]
    /\ view   = [q \in Queries |-> None]
    /\ noise  = [q \in Queries |-> 0]
    /\ fingerprint = [q \in Queries |-> None]
    /\ ans    = [q \in Queries |-> None]
    /\ paid   = [q \in Queries |-> 0]

Caller(q) == asked[q].caller

\* Mutant of Visible: nobody asks whom the contract is shared with.
VisibleToAll(c) == c \in Callers

\* Engine::visible.
Visible(c) == c = Owner \/ c \in audience

(***************************************************************************)
(* Asking and preparing (Engine::prepare)                                  *)
(***************************************************************************)
\* The next step of q is at `to'.
Goes(q, to) == pc' = [pc EXCEPT ![q] = to]

\* q ends at `at': what it had prepared is gone.
Leaves(q, at) ==
    /\ Goes(q, at)
    /\ res'   = [res EXCEPT ![q] = None]
    /\ view'  = [view EXCEPT ![q] = None]
    /\ noise' = [noise EXCEPT ![q] = 0]
    /\ fingerprint' = [fingerprint EXCEPT ![q] = None]
    /\ ans'   = [ans EXCEPT ![q] = None]
    /\ UNCHANGED <<engineVars, cache, spent, asked, paid, history>>

\* Mutant of Fail: a failure gives the epsilon back, charged or not.
FailRefunds(q) ==
    /\ pc[q] \in {"asked", "resolve", "view", "shape", "prepared", "run", "answer"}
    /\ Goes(q, "failed")
    /\ spent' = [spent EXCEPT ![Caller(q)] = @ - noise[q]]
    /\ UNCHANGED <<engineVars, cache, audit, queryVars, history>>

\* A refusal or an error, which each step may meet, and a step whose guard does not
\* hold always does: the statement guard, visibility, decide rules, the manifest's
\* facts (not modelled), the binding, the plan guard and the shapes, ungated scans,
\* an exhausted budget, execution, the signer.  It is audited next.
Fail(q) ==
    /\ pc[q] \in {"asked", "resolve", "view", "shape", "prepared", "run", "answer"}
    /\ Leaves(q, "failed")
    /\ UNCHANGED audit

Ask(q, c, m) ==
    /\ pc[q] = "idle"
    /\ Goes(q, "asked")
    /\ asked' = [asked EXCEPT ![q] = [caller |-> c, mode |-> m, since |-> stamp]]
    /\ could' = [could EXCEPT ![q] = (c = Owner \/ c \in audience)]
    /\ UNCHANGED <<engineVars, cache, spent, audit, res, view, noise, fingerprint, ans, paid, steady>>

\* The first look at the contract; then its manifest is ensured, which waits.
Look(q) ==
    /\ pc[q] = "asked"
    /\ Visible(Caller(q))
    /\ Goes(q, "resolve")
    /\ UNCHANGED <<engineVars, cache, spent, audit, queryVars, history>>

\* resolve_with: the contract as it is now decides, over the manifest as it is now.
Resolve(q) ==
    LET k == comp
        c == Caller(q)
    IN  /\ pc[q] = "resolve"
        /\ Visible(c) /\ Allows[k][c]
        /\ res' = [res EXCEPT ![q] = [comp |-> k, shapes |-> Noise[k][c], stamp |-> stamp]]
        /\ Goes(q, "view")
        /\ UNCHANGED <<engineVars, cache, spent, audit, asked, view, noise, fingerprint, ans, paid,
                       history>>

\* contract_view, which looks the contract up again and waits for its table.
View(q) ==
    /\ pc[q] = "view"
    /\ Visible(Caller(q))
    /\ view' = [view EXCEPT ![q] = comp]
    /\ Goes(q, "shape")
    /\ UNCHANGED <<engineVars, cache, spent, audit, asked, res, noise, fingerprint, ans, paid, history>>

\* The shapes of the contract as it is now are applied to the plan, and its parameters
\* for the caller go into the key (params_fingerprint).
Shape(q) ==
    /\ pc[q] = "shape"
    /\ noise' = [noise EXCEPT ![q] = Noise[comp][Caller(q)]]
    /\ fingerprint' = [fingerprint EXCEPT ![q] = Params[comp][Caller(q)]]
    /\ Goes(q, "prepared")
    /\ UNCHANGED <<engineVars, cache, spent, audit, asked, res, view, ans, paid, history>>

\* check ends here; only a check that fails is audited.
Check(q) ==
    /\ pc[q] = "prepared" /\ asked[q].mode = "check"
    /\ Goes(q, "checked")
    /\ UNCHANGED <<engineVars, cache, spent, audit, queryVars, history>>

(***************************************************************************)
(* The cache                                                               *)
(***************************************************************************)
\* Mutant of Key: the key leaves the data out.
KeyOfRules(q) ==
    [comp |-> res[q].comp, params |-> fingerprint[q], shapes |-> res[q].shapes, stamp |-> 0]

\* Mutant of Key: the key leaves the compilation out.
KeyOfData(q) ==
    [comp |-> CHOOSE k \in Comps : TRUE, params |-> fingerprint[q],
     shapes |-> res[q].shapes, stamp |-> res[q].stamp]

\* Mutant of Key: the key leaves the caller's parameters out.
KeyOfAnyone(q) ==
    [comp |-> res[q].comp, params |-> CHOOSE p \in Bindings : TRUE,
     shapes |-> res[q].shapes, stamp |-> res[q].stamp]

\* CacheKey::new, of the fingerprint prepare makes.
Key(q) ==
    [comp |-> res[q].comp, params |-> fingerprint[q],
     shapes |-> res[q].shapes, stamp |-> res[q].stamp]

\* QueryCache::get: a hit is the answer, nothing is planned and nothing charged.
Hit(q) ==
    /\ pc[q] = "prepared" /\ asked[q].mode = "query"
    /\ \E e \in cache : e.key = Key(q) /\ ans' = [ans EXCEPT ![q] = e.batches]
    /\ Goes(q, "answer")
    /\ UNCHANGED <<engineVars, cache, spent, audit, asked, res, view, noise, fingerprint, paid, history>>

\* An entry is past its time, or makes room for another.
Evict(e) ==
    /\ cache' = cache \ {e}
    /\ UNCHANGED <<engineVars, spent, audit, pc, queryVars, history>>

(***************************************************************************)
(* Planning and running                                                    *)
(***************************************************************************)
\* What the plan gives: the view's rows, for the parameters bound to the caller
\* (contract_view), with the noise of the shapes, of the files as they are now.
Planned(q) == [view |-> view[q], bound |-> Params[view[q]][Caller(q)], noise |-> noise[q],
               data |-> data, draw |-> q]

\* Mutant of Plan: an exhausted budget refuses nothing and is charged nothing.
PlanUncharged(q) ==
    LET c == Caller(q)
        fits == spent[c] + noise[q] <= Limit
    IN  /\ pc[q] = "prepared" /\ asked[q].mode # "check"
        /\ spent' = IF fits THEN [spent EXCEPT ![c] = @ + noise[q]] ELSE spent
        /\ paid' = IF fits THEN [paid EXCEPT ![q] = noise[q]] ELSE paid
        /\ ans' = [ans EXCEPT ![q] = Planned(q)]
        /\ Goes(q, IF asked[q].mode = "plan" THEN "planned" ELSE "run")
        /\ UNCHANGED <<engineVars, cache, audit, asked, res, view, noise, fingerprint, history>>

\* Mutant of Plan: the limit is not looked at.
PlanOverLimit(q) ==
    LET c == Caller(q)
    IN  /\ pc[q] = "prepared" /\ asked[q].mode # "check"
        /\ spent' = [spent EXCEPT ![c] = @ + noise[q]]
        /\ paid' = [paid EXCEPT ![q] = noise[q]]
        /\ ans' = [ans EXCEPT ![q] = Planned(q)]
        /\ Goes(q, IF asked[q].mode = "plan" THEN "planned" ELSE "run")
        /\ UNCHANGED <<engineVars, cache, audit, asked, res, view, noise, fingerprint, history>>

\* A miss (or a mode without a cache) is planned: physical lists the files the plan
\* will read, then charge_all takes the epsilon.
Plan(q) ==
    LET c == Caller(q)
    IN  /\ pc[q] = "prepared" /\ asked[q].mode # "check"
        /\ asked[q].mode = "query" => \A e \in cache : e.key # Key(q)
        /\ spent[c] + noise[q] <= Limit
        /\ spent' = [spent EXCEPT ![c] = @ + noise[q]]
        /\ paid' = [paid EXCEPT ![q] = noise[q]]
        /\ ans' = [ans EXCEPT ![q] = Planned(q)]
        /\ Goes(q, IF asked[q].mode = "plan" THEN "planned" ELSE "run")
        /\ UNCHANGED <<engineVars, cache, audit, asked, res, view, noise, fingerprint, history>>

\* The plan is run.  Only run caches its batches; spool writes them to a file.
Run(q) ==
    /\ pc[q] = "run"
    /\ Goes(q, "answer")
    /\ cache' = IF asked[q].mode = "query"
                THEN {e \in cache : e.key # Key(q)} \cup {[key |-> Key(q), batches |-> ans[q]]}
                ELSE cache
    /\ UNCHANGED <<engineVars, spent, audit, queryVars, history>>

\* The signer signs the envelope.
Sign(q) ==
    /\ pc[q] = "answer"
    /\ Goes(q, "signed")
    /\ UNCHANGED <<engineVars, cache, spent, audit, queryVars, history>>

\* What the record of q says: a refusal or a failure names no contract and no charge.
Record(q, o) ==
    [outcome |-> o,
     comp    |-> IF o \in {"signed", "planned"} THEN res[q].comp ELSE None,
     charges |-> IF o \in {"signed", "planned"} THEN paid[q] ELSE 0]

\* What the caller gets once the record is written.
Gets(o) == CASE o = "signed" -> "answered" [] o = "planned" -> "ready" [] OTHER -> "error"

\* Mutant of Audit: a record that cannot be written is only logged.
AuditOrNot(q) ==
    /\ pc[q] \in {"signed", "planned", "failed"}
    /\ audit' = [audit EXCEPT ![q] = Record(q, pc[q])] \/ UNCHANGED audit
    /\ Goes(q, Gets(pc[q]))
    /\ UNCHANGED <<engineVars, cache, spent, queryVars, history>>

\* Engine::audit, then the caller gets the answer, the plan or the error.  A record
\* that cannot be written is the caller's error.
Audit(q) ==
    \/ /\ pc[q] \in {"signed", "planned", "failed"}
       /\ audit' = [audit EXCEPT ![q] = Record(q, pc[q])]
       /\ Goes(q, Gets(pc[q]))
       /\ UNCHANGED <<engineVars, cache, spent, queryVars, history>>
    \/ /\ pc[q] \in {"signed", "planned", "failed"}
       /\ Leaves(q, "error")
       /\ UNCHANGED audit

\* The future is dropped where it waits: its client went away.
Drop(q) ==
    /\ pc[q] \in {"resolve", "shape", "prepared", "run", "answer"}
    /\ Leaves(q, "dropped")
    /\ UNCHANGED audit

(***************************************************************************)
(* What happens meanwhile                                                  *)
(***************************************************************************)
\* Engine::register_contract, register_compiled.
Register(k) ==
    /\ k # comp
    /\ comp' = k
    /\ steady' = [q \in Queries |-> steady[q] /\ pc[q] \notin {"view", "shape"}]
    /\ UNCHANGED <<audience, data, stamp, writing, cache, spent, audit, pc, queryVars, could>>

\* Engine::publish, unpublish.
Publish(c) ==
    /\ c \notin audience
    /\ audience' = audience \cup {c}
    /\ could' = [q \in Queries |-> could[q] \/ (asked[q] # None /\ Caller(q) = c)]
    /\ UNCHANGED <<comp, data, stamp, writing, cache, spent, audit, pc, queryVars, steady>>

Unpublish(c) ==
    /\ c \in audience
    /\ audience' = audience \ {c}
    /\ UNCHANGED <<comp, data, stamp, writing, cache, spent, audit, pc, queryVars, history>>

\* A write publishes its files, then records the manifest (publish_write, local
\* files), then reports.  It may stop in between.
Install ==
    /\ ~writing
    /\ writing' = TRUE
    /\ data' = data + 1
    /\ UNCHANGED <<comp, audience, stamp, cache, spent, audit, pc, queryVars, history>>

Written ==
    /\ writing
    /\ writing' = FALSE
    /\ stamp' = data
    /\ UNCHANGED <<comp, audience, data, cache, spent, audit, pc, queryVars, history>>

WriteStops ==
    /\ writing
    /\ writing' = FALSE
    /\ UNCHANGED <<comp, audience, data, stamp, cache, spent, audit, pc, queryVars, history>>

-----------------------------------------------------------------------------
Step(q) ==
    \/ Look(q) \/ Resolve(q) \/ View(q) \/ Shape(q) \/ Check(q)
    \/ Hit(q) \/ Plan(q) \/ Run(q) \/ Sign(q) \/ Audit(q) \/ Fail(q)

Next ==
    \/ \E q \in Queries, c \in Callers, m \in Modes : Ask(q, c, m)
    \/ \E q \in Queries : Step(q) \/ Drop(q)
    \/ \E e \in cache : Evict(e)
    \/ \E k \in Comps : Register(k)
    \/ \E c \in Callers : Publish(c) \/ Unpublish(c)
    \/ Install \/ Written \/ WriteStops

Spec == Init /\ [][Next]_vars

-----------------------------------------------------------------------------
PCs == {"idle", "asked", "resolve", "view", "shape", "prepared", "checked", "run", "answer",
        "signed", "planned", "failed", "answered", "ready", "error", "dropped"}

\* The state is well typed.
TypeOK ==
    /\ comp \in Comps
    /\ audience \subseteq Callers
    /\ data \in Nat /\ stamp \in Nat /\ writing \in BOOLEAN
    /\ \A e \in cache : e.key \in Keys /\ e.batches \in Batches
    /\ spent \in [Callers -> Nat]
    /\ audit \in [Queries -> Records \cup {None}]
    /\ pc \in [Queries -> PCs]
    /\ asked \in [Queries -> Asks \cup {None}]
    /\ could \in [Queries -> BOOLEAN]
    /\ steady \in [Queries -> BOOLEAN]
    /\ res \in [Queries -> Resolutions \cup {None}]
    /\ view \in [Queries -> Comps \cup {None}]
    /\ noise \in [Queries -> Nat]
    /\ fingerprint \in [Queries -> Bindings \cup {None}]
    /\ ans \in [Queries -> Batches \cup {None}]
    /\ paid \in [Queries -> Nat]

\* A write that reported before a query was asked is in the query's answer, and in
\* every plan handed out, even when the answer comes from the cache
\* ("a write ... never serves a stale result", cache.rs).
ReadsSeeFinishedWrites ==
    \A q \in Queries : pc[q] \in {"answered", "ready"} => ans[q].data >= asked[q].since

\* Every draw of noise is paid for, once, by the query that made it: what is
\* answered (from the cache too) or handed out as a plan was charged, whatever was
\* registered meanwhile.
NoiseIsPaidFor ==
    \A q \in Queries : pc[q] \in {"answered", "ready"} =>
        paid[ans[q].draw] = ans[q].noise

\* No interleaving of a caller's queries takes it over its limit, and the ledger holds
\* what its queries charged and nothing else.
LedgerIsExact ==
    \A c \in Callers :
        /\ spent[c] <= Limit
        /\ spent[c] = MapThenSumSet(LAMBDA q : paid[q],
                                 {q \in Queries : asked[q] # None /\ Caller(q) = c})

\* What a caller gets is on record before it gets it, with the contract the envelope
\* names and what the query charged; an answer from the cache charges nothing.
AnswersAreOnRecord ==
    \A q \in Queries : pc[q] \in {"answered", "ready"} =>
        /\ audit[q] # None
        /\ audit[q].outcome \in {"signed", "planned"}
        /\ audit[q].comp = res[q].comp
        /\ audit[q].charges = IF ans[q].draw = q THEN ans[q].noise ELSE 0

\* Nobody is answered, from the cache or otherwise, unless they could see the contract
\* at some moment since they asked.
AnswersWereVisible ==
    \A q \in Queries : pc[q] \in {"answered", "ready"} => could[q]

\* The envelope says which contract governed the query and how: the rows were read
\* through the view of the compilation it names, and the shapes it names are those
\* applied (Resolution, in the envelope and the audit record), for an answer from the
\* cache too, unless the contract was registered again between the steps that resolved
\* and shaped the execution the batches come from.
GovernedAsReported ==
    \A q \in Queries : pc[q] \in {"answered", "ready"} /\ steady[ans[q].draw] =>
        ans[q].view = res[q].comp /\ ans[q].noise = res[q].shapes

\* What a caller gets is what the contract gives this caller, though another's query left
\* it in the cache ("two callers see one cached answer only when the contracts would give
\* them the same one", cache.rs): the view's parameters were bound to the values the
\* caller has, unless the contract was registered again while the query, or the one the
\* batches come from, was prepared.
AnswersAreForTheCaller ==
    \A q \in Queries : pc[q] \in {"answered", "ready"} /\ steady[q] /\ steady[ans[q].draw] =>
        ans[q].bound = Params[res[q].comp][Caller(q)]
=============================================================================

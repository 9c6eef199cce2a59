-------------------------- MODULE WorkspaceProofs --------------------------
(***************************************************************************)
(* Workspace for any contract versions, documents, tenants and calls, as   *)
(* long as one engine at a time has the workspace open.  The ledger in it  *)
(* is BudgetLedger's; a contract is served as it is stored.                *)
(***************************************************************************)
EXTENDS Workspace, BudgetLedgerProofs, FiniteSetTheorems

allVars == <<vars, storeVars>>

\* Opening and stopping an engine are the ledger's own steps, and no call of the stores
\* touches it (Engine::open).
LEMMA LedgerStepOrNone == [WNext]_allVars => [Next]_vars
<1> SUFFICES ASSUME [WNext]_allVars PROVE [Next]_vars
    OBVIOUS
<1>1. CASE UNCHANGED allVars
    BY <1>1 DEF allVars
<1>2. ASSUME NEW e \in Engines, OpenWorkspace(e) \/ StopWorkspace(e) PROVE Next
    BY <1>2 DEF OpenWorkspace, StopWorkspace, Next
<1>3. CASE Upgrade
    BY <1>3 DEF Upgrade
<1>4. ASSUME NEW c \in Calls, NEW e \in Engines, Ask(c, e) PROVE UNCHANGED vars
    BY <1>4 DEF Ask, RegisterContract, RegisterCompiled, RegisterFunction, Publish, Unpublish, Share,
                Becomes
<1>5. ASSUME NEW c \in Calls, Step(c) PROVE UNCHANGED vars
    BY <1>5 DEF Step, Bundle, Take, PutFile, Unstale, Serve, Insert, Push, TruncateModule, WriteModule,
                TruncateRecord, WriteRecord, TruncateNames, WriteNames, WriteFails, Becomes, Goes
<1>6. CASE LedgerStep
    BY <1>6 DEF LedgerStep, Next
<1> QED BY <1>1, <1>2, <1>3, <1>4, <1>5, <1>6 DEF WNext

\* The workspace (Engine::open) keeps its ledger as BudgetLedger says.
THEOREM WorkspaceHasALedger == WSpec => Spec
<1>1. WInit => Init
    BY DEF WInit
<1> QED BY <1>1, LedgerStepOrNone, PTL DEF WSpec, Spec, allVars

\* Spending survives whatever else happens in the workspace (BudgetStore::save,
\* Engine::open).
THEOREM WorkspaceKeepsSpending == OneEngine => (WSpec => []SpendingIsKept)
BY WorkspaceHasALedger, SpendingSurvives, PTL

(***************************************************************************)
(* What a call holds at each of its steps.  A contract that is being       *)
(* registered was compiled by the parcel of this process.                  *)
(***************************************************************************)
CallRecord ==
    [at : Stages, engine : Engines \cup {None}, version : Versions \cup {None},
     contract : Contract \cup {None}, tenant : Tenants \cup {None}, hash : Hashes \cup {None},
     names : SUBSET Tenants]

Puts(r)   == r.contract \in Contract /\ r.contract.parcel = parcel /\ r.version \in Versions
Brings(r) == r.tenant \in Tenants /\ r.hash \in Hashes

CallInv(r) ==
    /\ r.at = "idle" => r = NoCall
    /\ r.at # "idle" => r.engine \in up
    /\ r.at \in {"bundle", "take", "file", "unstale", "serve"} => Puts(r)
    /\ r.at \in {"insert", "push", "module", "module2", "record", "record2"} => Brings(r)
    /\ r.at \in {"insert", "push"} => Puts(r) \/ (r.contract = None /\ r.version = None)
    /\ r.at \in {"names", "names2", "module", "module2", "record", "record2"} => r.version = None

CallsInv == call \in [Calls -> CallRecord] /\ \A c \in Calls : CallInv(call[c])

Files == Hashes \cup {None, Truncated, Mixed}
Memory == [versions : [Versions -> Contract \cup {None}], audiences : SUBSET Tenants,
           stale : SUBSET Versions, registry : Entry \cup {None},
           modules : [Tenants -> Hashes \cup {None}]]

Disk ==
    /\ stored \in [Versions -> Contract \cup {None}]
    /\ published \in {None, Truncated, Mixed} \/ published \in SUBSET Tenants
    /\ module \in [Tenants -> Files] /\ record \in [Tenants -> Files]

WType == TypeOK /\ StoreTypeOK /\ CallsInv

\* A workspace that opens gives its engine a memory of the right kind (DirStore::open,
\* FunctionStore::open).
LEMMA OpenedType ==
    ASSUME StoreTypeOK, Opens
    PROVE  [versions |-> LoadedVersions, audiences |-> LoadedAudiences, stale |-> StaleVersions,
            registry |-> LoadedRegistry, modules |-> LoadedModules] \in Memory
<1>1. LoadedVersions \in [Versions -> Contract \cup {None}]
    BY DEF StoreTypeOK, LoadedVersions
<1>2. LoadedAudiences \in SUBSET Tenants
    BY DEF StoreTypeOK, LoadedAudiences, Opens
<1>3. StaleVersions \in SUBSET Versions
    BY DEF StaleVersions
<1>4. LoadedRegistry \in Entry \cup {None}
  <2>1. CASE Recorded = {}
      BY <2>1 DEF LoadedRegistry
  <2>2. CASE Recorded # {}
    <3> DEFINE t == CHOOSE t \in Recorded : TRUE
    <3>1. t \in Recorded
        BY <2>2
    <3>2. t \in Tenants /\ record[t] \in Hashes
        BY <3>1 DEF Recorded, Opens
    <3>3. LoadedRegistry = [owner |-> t, hash |-> record[t]]
        BY <2>2 DEF LoadedRegistry
    <3> QED BY <3>2, <3>3 DEF Entry
  <2> QED BY <2>1, <2>2
<1>5. LoadedModules \in [Tenants -> Hashes \cup {None}]
    BY DEF LoadedModules, Opens
<1> QED BY <1>1, <1>2, <1>3, <1>4, <1>5 DEF Memory

\* What is written over a file is the new contents or a mixture (std::fs::write).
LEMMA OverType ==
    ASSUME NEW now, NEW new, NEW x \in Over(now, new)
    PROVE  x \in {new, Mixed}
BY DEF Over

\* A call that goes on (Becomes) keeps CallsInv when what it becomes does.
LEMMA CallBecomes ==
    ASSUME CallsInv, NEW c \in Calls, NEW r \in CallRecord, CallInv(r), Becomes(c, r)
    PROVE  CallsInv' /\ UNCHANGED <<vars, parcel>>
<1>1. call' = [call EXCEPT ![c] = r] /\ UNCHANGED <<vars, parcel>>
    BY DEF Becomes
<1>2. call' \in [Calls -> CallRecord]
    BY <1>1 DEF CallsInv
<1>3. \A o \in Calls : call'[o] = r \/ call'[o] = call[o]
    BY <1>1 DEF CallsInv
<1>4. up' = up /\ parcel' = parcel
    BY <1>1 DEF vars
<1>5. \A o \in Calls : CallInv(call'[o])
    BY <1>3 DEF CallsInv
<1>6. \A o \in Calls : CallInv(call[o])'
    BY <1>4, <1>5 DEF CallInv, Puts, Brings
<1> QED BY <1>1, <1>2, <1>6 DEF CallsInv

\* The same of a call that only moves on to another step, or ends.
LEMMA CallGoes ==
    ASSUME CallsInv, NEW c \in Calls, NEW to \in Stages, Goes(c, to),
           to = "idle" \/ CallInv([call[c] EXCEPT !.at = to])
    PROVE  CallsInv' /\ UNCHANGED <<vars, parcel>>
<1>1. NoCall \in CallRecord /\ CallInv(NoCall)
    BY DEF NoCall, CallRecord, CallInv, Stages
<1>2. [call[c] EXCEPT !.at = to] \in CallRecord
    BY DEF CallsInv, CallRecord
<1>3. CASE to = "idle"
  <2>1. Becomes(c, NoCall)
      BY <1>3 DEF Goes
  <2> QED BY <2>1, <1>1, CallBecomes
<1>4. CASE to # "idle"
  <2>1. Becomes(c, [call[c] EXCEPT !.at = to])
      BY <1>4 DEF Goes
  <2> QED BY <2>1, <1>2, <1>4, CallBecomes
<1> QED BY <1>3, <1>4

\* Where a call leaves the disk alone and its engine holds s.
LEMMA HoldsType ==
    ASSUME WType, CallsInv', UNCHANGED <<vars, parcel>>, NEW c \in Calls, call[c].engine \in Engines,
           NEW m \in Memory, Holds(c, m), call[c].engine \in up
    PROVE  WType'
<1>1. store' = [store EXCEPT ![call[c].engine] = m] /\ UNCHANGED <<diskVars, excused>>
    BY DEF Holds
<1>2. store \in [Engines -> Memory] /\ store' \in [Engines -> Memory]
    BY <1>1 DEF WType, StoreTypeOK, Memory
<1>3. \A e \in Engines \ up' : store'[e] = Blank
    BY <1>1, <1>2 DEF WType, StoreTypeOK, vars
<1>4. \A o \in Calls : call'[o].at \in Stages /\ (call'[o].at # "idle" => call'[o].engine \in up')
    BY DEF CallsInv, CallRecord, CallInv
<1>5. TypeOK'
    BY DEF WType, TypeOK, vars
<1> QED BY <1>1, <1>2, <1>3, <1>4, <1>5 DEF WType, StoreTypeOK, Memory, diskVars

\* Where a call leaves the memory alone.
LEMMA DiskType ==
    ASSUME WType, CallsInv', UNCHANGED <<vars, parcel, store>>,
           Disk', excused' \subseteq Excuses
    PROVE  WType'
<1>1. \A o \in Calls : call'[o].at \in Stages /\ (call'[o].at # "idle" => call'[o].engine \in up')
    BY DEF CallsInv, CallRecord, CallInv
<1>2. TypeOK'
    BY DEF WType, TypeOK, vars
<1> QED BY <1>1, <1>2 DEF WType, StoreTypeOK, Disk, Files, vars

\* Every call that begins (register_contract, register_compiled, register_function,
\* publish, unpublish) is of the right kind and holds what its next step needs.
LEMMA AskType ==
    ASSUME WType, NEW c \in Calls, NEW e \in Engines, Ask(c, e)
    PROVE  WType'
<1> USE OwnerAssumption DEF WType
<1>0. /\ store[e] \in Memory
      /\ UNCHANGED diskVars => Disk'
      /\ parcel \in Nat /\ excused \subseteq Excuses
    BY DEF StoreTypeOK, Memory, Files, Disk, diskVars
<1>1. ASSUME NEW v \in Versions, NEW d \in Docs, RegisterContract(c, e, v, d) PROVE WType'
  <2> DEFINE f == store[e].registry
             k == [doc |-> d, parcel |-> parcel, pin |-> IF d \in Uses THEN f.hash ELSE None,
                   bundle |-> {}]
             r == [NoCall EXCEPT !.at = "bundle", !.engine = e, !.version = v, !.contract = k]
  <2>1. d \in Uses => f \in Entry
      BY <1>1, <1>0 DEF RegisterContract, Memory
  <2>2. k \in Contract /\ k.parcel = parcel
      BY <2>1, <1>0 DEF Contract, Entry
  <2> HIDE DEF k
  <2>3. r \in CallRecord /\ CallInv(r)
      BY <1>1, <2>2 DEF CallRecord, NoCall, Stages, CallInv, Puts, RegisterContract, Idle
  <2>4. Becomes(c, r) /\ UNCHANGED <<diskVars, store>> /\ excused' \subseteq Excuses
      BY <1>1, <1>0 DEF RegisterContract, Excuse, Excuses, k
  <2> HIDE DEF r
  <2>5. CallsInv' /\ UNCHANGED <<vars, parcel>>
      BY <2>3, <2>4, CallBecomes
  <2> QED BY <2>4, <2>5, <1>0, DiskType DEF Disk
<1>2. ASSUME NEW v \in Versions, NEW d \in Docs, NEW h \in Hashes, RegisterCompiled(c, e, v, d, h)
      PROVE  WType'
  <2> DEFINE k == IF d \in Uses THEN [doc |-> d, parcel |-> parcel, pin |-> h, bundle |-> {h}]
                          ELSE [doc |-> d, parcel |-> parcel, pin |-> None, bundle |-> {}]
             r == [NoCall EXCEPT
               !.at = IF d \in Uses THEN "insert" ELSE "take", !.engine = e, !.version = v,
               !.contract = k, !.hash = k.pin, !.tenant = IF d \in Uses THEN Owner ELSE None]
  <2>2. k \in Contract /\ k.parcel = parcel /\ k.pin = IF d \in Uses THEN h ELSE None
      BY <1>0 DEF Contract
  <2> HIDE DEF k
  <2>3. r \in CallRecord /\ CallInv(r)
      BY <1>2, <2>2 DEF CallRecord, NoCall, Stages, CallInv, Puts, Brings, RegisterCompiled, Idle
  <2>4. Becomes(c, r) /\ UNCHANGED <<diskVars, store>> /\ excused' \subseteq Excuses
      BY <1>2, <1>0 DEF RegisterCompiled, Excuse, Excuses, k
  <2> HIDE DEF r
  <2>5. CallsInv' /\ UNCHANGED <<vars, parcel>>
      BY <2>3, <2>4, CallBecomes
  <2> QED BY <2>4, <2>5, <1>0, DiskType DEF Disk
<1>3. ASSUME NEW t \in Tenants, NEW h \in Hashes, RegisterFunction(c, e, t, h) PROVE WType'
  <2> DEFINE r == [NoCall EXCEPT !.at = "insert", !.engine = e, !.tenant = t, !.hash = h]
  <2>3. r \in CallRecord /\ CallInv(r)
      BY <1>3 DEF CallRecord, NoCall, Stages, CallInv, Puts, Brings, RegisterFunction, Idle
  <2>4. Becomes(c, r) /\ UNCHANGED <<diskVars, store>> /\ excused' \subseteq Excuses
      BY <1>3, <1>0 DEF RegisterFunction, Excuse, Excuses
  <2> HIDE DEF r
  <2>5. CallsInv' /\ UNCHANGED <<vars, parcel>>
      BY <2>3, <2>4, CallBecomes
  <2> QED BY <2>4, <2>5, <1>0, DiskType DEF Disk
<1>4. ASSUME NEW A \in SUBSET Tenants, Share(c, e, A) PROVE WType'
  <2> DEFINE r == [NoCall EXCEPT !.at = "names", !.engine = e]
             m == [store[e] EXCEPT !.audiences = A]
  <2>1. m \in Memory
      BY <1>0 DEF Memory
  <2>2. store' = [store EXCEPT ![e] = m] /\ UNCHANGED diskVars /\ excused' \subseteq Excuses /\ e \in up
      BY <1>4, <1>0 DEF Share, Excuse, Excuses, Idle
  <2> HIDE DEF m
  <2>3. r \in CallRecord /\ CallInv(r)
      BY <1>4 DEF CallRecord, NoCall, Stages, CallInv, Share, Idle
  <2>4. Becomes(c, r)
      BY <1>4 DEF Share
  <2> HIDE DEF r
  <2>5. CallsInv' /\ UNCHANGED <<vars, parcel>>
      BY <2>3, <2>4, CallBecomes
  <2>6. store \in [Engines -> Memory] /\ store' \in [Engines -> Memory]
      BY <2>1, <2>2 DEF StoreTypeOK, Memory
  <2>7. \A f \in Engines \ up' : store'[f] = Blank
      BY <2>2, <2>5, <2>6 DEF StoreTypeOK, vars
  <2>8. \A o \in Calls : call'[o].at \in Stages /\ (call'[o].at # "idle" => call'[o].engine \in up')
      BY <2>5 DEF CallsInv, CallRecord, CallInv
  <2>9. TypeOK'
      BY <2>5 DEF TypeOK, vars
  <2> QED BY <2>2, <2>5, <2>6, <2>7, <2>8, <2>9, <1>0 DEF StoreTypeOK, Memory, diskVars
<1>5. ASSUME NEW a \in Tenants, Publish(c, e, a) \/ Unpublish(c, e, a) PROVE WType'
  <2>1. store[e].audiences \cup {a} \in SUBSET Tenants /\ store[e].audiences \ {a} \in SUBSET Tenants
      BY <1>0 DEF Memory
  <2> QED BY <1>5, <1>4, <2>1 DEF Publish, Unpublish
<1> QED BY <1>1, <1>2, <1>3, <1>5 DEF Ask

\* Every step of a call keeps the disk and the memory of the right kind.
LEMMA StepType ==
    ASSUME WType, NEW c \in Calls, Step(c)
    PROVE  WType'
<1> USE DEF WType
<1> DEFINE r == call[c]
<1>0. /\ call[c] \in CallRecord /\ CallInv(call[c])
      /\ Disk /\ (UNCHANGED diskVars => Disk')
      /\ excused \subseteq Excuses
      /\ store \in [Engines -> Memory]
      /\ up \subseteq Engines
    BY DEF CallsInv, StoreTypeOK, Memory, Files, Disk, diskVars, TypeOK
<1>e. call[c].at # "idle" =>
          call[c].engine \in up /\ call[c].engine \in Engines /\ Mem(c) \in Memory
    BY <1>0 DEF CallInv, Mem
<1>1. CASE Bundle(c)
  <2> DEFINE k == call[c].contract
             f == Mem(c).registry
             m == IF f # None /\ f.hash = k.pin THEN Mem(c).modules[f.owner] ELSE None
             n == [call[c] EXCEPT !.at = "file", !.contract.bundle = {m} \ {None}]
  <2>1. k \in Contract /\ k.parcel = parcel /\ call[c].version \in Versions /\ call[c].engine \in up
        /\ call[c].at = "bundle"
      BY <1>1, <1>0 DEF Bundle, CallInv, Puts
  <2>2. m \in Hashes \cup {None}
      BY <1>1, <1>e DEF Bundle, Memory, Entry
  <2>3. [k EXCEPT !.bundle = {m} \ {None}] \in Contract
        /\ [k EXCEPT !.bundle = {m} \ {None}].parcel = parcel
      BY <2>1, <2>2 DEF Contract
  <2>4. Becomes(c, n) /\ UNCHANGED <<diskVars, store, excused>>
      BY <1>1 DEF Bundle
  <2>5. n \in CallRecord /\ n.at = "file" /\ n.engine = call[c].engine
        /\ n.version = call[c].version /\ n.contract = [k EXCEPT !.bundle = {m} \ {None}]
      BY <1>0, <2>3 DEF CallRecord, Stages
  <2> HIDE DEF n, m, k
  <2>6. CallInv(n)
      BY <2>1, <2>3, <2>5 DEF CallInv, Puts
  <2>7. CallsInv' /\ UNCHANGED <<vars, parcel>>
      BY <2>4, <2>5, <2>6, CallBecomes
  <2> QED BY <2>4, <2>7, <1>0, DiskType
<1>2. CASE Take(c)
  <2>1. PICK to \in {"file", "idle"} : Goes(c, to)
      BY <1>2 DEF Take
  <2>2. to = "idle" \/ CallInv([call[c] EXCEPT !.at = to])
      BY <1>0, <1>2, <2>1 DEF CallInv, CallRecord, Puts, Take
  <2>3. to \in Stages
      BY DEF Stages
  <2>4. CallsInv' /\ UNCHANGED <<vars, parcel>>
      BY <2>1, <2>2, <2>3, CallGoes
  <2> QED BY <1>2, <2>4, <1>0, DiskType DEF Take
<1>3. CASE PutFile(c)
  <2>1. CallInv([call[c] EXCEPT !.at = "unstale"]) /\ "unstale" \in Stages
      BY <1>0, <1>3 DEF CallInv, CallRecord, Puts, PutFile, Stages
  <2>2. CallsInv' /\ UNCHANGED <<vars, parcel>>
      BY <1>3, <2>1, CallGoes DEF PutFile
  <2>3. Disk'
      BY <1>0, <1>3 DEF CallInv, Puts, PutFile, Disk
  <2> QED BY <1>3, <1>0, <2>2, <2>3, DiskType DEF PutFile
<1>4. CASE Unstale(c)
  <2>1. CallInv([call[c] EXCEPT !.at = "serve"]) /\ "serve" \in Stages
      BY <1>0, <1>4 DEF CallInv, CallRecord, Puts, Unstale, Stages
  <2>2. CallsInv' /\ UNCHANGED <<vars, parcel>>
      BY <1>4, <2>1, CallGoes DEF Unstale
  <2>3. [Mem(c) EXCEPT !.stale = @ \ {call[c].version}] \in Memory
      BY <1>e, <1>4 DEF Memory, Unstale
  <2> QED BY <1>4, <1>e, <2>2, <2>3, HoldsType DEF Unstale
<1>5. CASE Serve(c)
  <2>2. CallsInv' /\ UNCHANGED <<vars, parcel>>
      BY <1>5, CallGoes DEF Serve, Stages
  <2>3. [Mem(c) EXCEPT !.versions[call[c].version] = call[c].contract] \in Memory
      BY <1>e, <1>0, <1>5 DEF Memory, Serve, CallInv, Puts
  <2> QED BY <1>5, <1>e, <2>2, <2>3, HoldsType DEF Serve
<1>6. CASE Insert(c)
  <2>1. CallInv([call[c] EXCEPT !.at = "push"]) /\ "push" \in Stages
      BY <1>0, <1>6 DEF CallInv, CallRecord, Puts, Brings, Insert, Stages
  <2>2. CallsInv' /\ UNCHANGED <<vars, parcel>>
      BY <1>6, <2>1, CallGoes DEF Insert
  <2>3. [Mem(c) EXCEPT !.registry = [owner |-> call[c].tenant, hash |-> call[c].hash]] \in Memory
      BY <1>e, <1>0, <1>6 DEF Memory, Insert, CallInv, Brings, Entry
  <2> QED BY <1>6, <1>e, <2>2, <2>3, HoldsType DEF Insert
<1>7. CASE Push(c)
  <2> DEFINE to == IF call[c].contract = None THEN "module" ELSE "take"
  <2>1. CallInv([call[c] EXCEPT !.at = to]) /\ to \in Stages
    <3>1. CASE call[c].contract = None
        BY <3>1, <1>0, <1>7, NoneAssumption DEF CallInv, CallRecord, Puts, Brings, Push, Stages
    <3>2. CASE call[c].contract # None
        BY <3>2, <1>0, <1>7 DEF CallInv, CallRecord, Puts, Brings, Push, Stages
    <3> QED BY <3>1, <3>2
  <2>2. CallsInv' /\ UNCHANGED <<vars, parcel>>
      BY <1>7, <2>1, CallGoes DEF Push
  <2>3. [Mem(c) EXCEPT !.modules[call[c].tenant] = call[c].hash] \in Memory
      BY <1>e, <1>0, <1>7 DEF Memory, Push, CallInv, Brings
  <2> QED BY <1>7, <1>e, <2>2, <2>3, HoldsType DEF Push
<1>8. CASE TruncateModule(c) \/ TruncateRecord(c)
  <2> DEFINE to == IF TruncateModule(c) THEN "module2" ELSE "record2"
  <2>1. CallInv([call[c] EXCEPT !.at = to]) /\ to \in Stages
      BY <1>0, <1>8 DEF CallInv, CallRecord, Brings, TruncateModule, TruncateRecord, Stages
  <2>2. CallsInv' /\ UNCHANGED <<vars, parcel>>
      BY <1>8, <2>1, CallGoes DEF TruncateModule, TruncateRecord
  <2>3. Disk'
      BY <1>0, <1>8 DEF CallInv, Brings, TruncateModule, TruncateRecord, Disk, Files
  <2> QED BY <1>8, <1>0, <2>2, <2>3, DiskType DEF TruncateModule, TruncateRecord
<1>9. CASE WriteModule(c) \/ WriteRecord(c)
  <2> DEFINE to == IF WriteModule(c) THEN "record" ELSE "idle"
  <2>1. (to = "idle" \/ CallInv([call[c] EXCEPT !.at = to])) /\ to \in Stages
      BY <1>0, <1>9 DEF CallInv, CallRecord, Brings, WriteModule, WriteRecord, Stages
  <2>2. CallsInv' /\ UNCHANGED <<vars, parcel>>
      BY <1>9, <2>1, CallGoes DEF WriteModule, WriteRecord
  <2>3. call[c].tenant \in Tenants /\ call[c].hash \in Hashes
      BY <1>0, <1>9 DEF CallInv, Brings, WriteModule, WriteRecord
  <2>4. \A now : \A x \in Over(now, call[c].hash) : x \in Files
      BY <2>3, OverType DEF Files
  <2>5. Disk'
      BY <1>0, <1>9, <2>3, <2>4 DEF WriteModule, WriteRecord, Disk
  <2> QED BY <1>9, <1>0, <2>2, <2>5, DiskType DEF WriteModule, WriteRecord
<1>10. CASE TruncateNames(c)
  <2> DEFINE n == [call[c] EXCEPT !.at = "names2", !.names = Mem(c).audiences]
  <2>1. n \in CallRecord /\ CallInv(n)
      BY <1>0, <1>e, <1>10 DEF CallInv, CallRecord, TruncateNames, Stages, Memory
  <2>2. Becomes(c, n)
      BY <1>10 DEF TruncateNames
  <2> HIDE DEF n
  <2>3. CallsInv' /\ UNCHANGED <<vars, parcel>>
      BY <2>1, <2>2, CallBecomes
  <2>4. Disk'
      BY <1>0, <1>10 DEF TruncateNames, Disk
  <2> QED BY <1>10, <1>0, <2>3, <2>4, DiskType DEF TruncateNames
<1>11. CASE WriteNames(c)
  <2>1. CallsInv' /\ UNCHANGED <<vars, parcel>>
      BY <1>11, CallGoes DEF WriteNames, Stages
  <2>2. published' \in {call[c].names, Mixed}
      BY <1>11, OverType DEF WriteNames
  <2>3. Disk'
      BY <1>0, <1>11, <2>2 DEF WriteNames, Disk, CallRecord
  <2> QED BY <1>11, <1>0, <2>1, <2>3, DiskType DEF WriteNames
<1>12. CASE WriteFails(c)
  <2>1. CallsInv' /\ UNCHANGED <<vars, parcel>>
      BY <1>12, CallGoes DEF WriteFails, Stages
  <2>2. excused' \subseteq Excuses /\ UNCHANGED <<diskVars, store>>
      BY <1>12, <1>0 DEF WriteFails, Excuse, Excuses
  <2> QED BY <1>0, <2>1, <2>2, DiskType
<1> QED BY <1>1, <1>2, <1>3, <1>4, <1>5, <1>6, <1>7, <1>8, <1>9, <1>10, <1>11, <1>12 DEF Step

\* The whole workspace stays well typed, with one engine at a time.
LEMMA WTypeStep == OneEngine /\ IInv /\ WType /\ [WNext]_allVars => WType'
<1> SUFFICES ASSUME OneEngine, IInv, WType, [WNext]_allVars PROVE WType'
    OBVIOUS
<1>0. TypeOK'
    BY StepInv, LedgerStepOrNone DEF IInv
<1>1. CASE UNCHANGED allVars
    BY <1>0, <1>1 DEF allVars, storeVars, diskVars, vars, WType, StoreTypeOK, CallsInv, CallInv, Puts, Brings
<1>2. ASSUME NEW e \in Engines, OpenWorkspace(e) PROVE WType'
  <2> DEFINE m == [versions |-> LoadedVersions, audiences |-> LoadedAudiences, stale |-> StaleVersions,
                   registry |-> LoadedRegistry, modules |-> LoadedModules]
  <2>1. m \in Memory
      BY <1>2, OpenedType DEF OpenWorkspace, WType
  <2>2. /\ store' = [store EXCEPT ![e] = m] /\ up' = up \cup {e}
        /\ UNCHANGED <<parcel, diskVars, call, excused>>
      BY <1>2 DEF OpenWorkspace, Open
  <2> HIDE DEF m
  <2>3. store' \in [Engines -> Memory] /\ \A f \in Engines \ up' : store'[f] = Blank
      BY <2>1, <2>2 DEF WType, StoreTypeOK, Memory
  <2>4. CallsInv'
      BY <2>2 DEF WType, CallsInv, CallInv, Puts, Brings
  <2> QED BY <1>0, <2>2, <2>3, <2>4 DEF WType, StoreTypeOK, Memory, diskVars
<1>3. ASSUME NEW e \in Engines, StopWorkspace(e) PROVE WType'
  <2> DEFINE mine == {c \in Calls : call[c].engine = e}
  <2>1. /\ store' = [store EXCEPT ![e] = Blank] /\ up' = up \ {e}
        /\ call' = [c \in Calls |-> IF c \in mine THEN NoCall ELSE call[c]]
        /\ UNCHANGED <<parcel, diskVars>>
        /\ excused' \subseteq excused \cup {"audiences", "functions"}
      BY <1>3 DEF StopWorkspace, Stop
  <2>2. Blank \in Memory
      BY DEF Blank, Memory
  <2>3. store' \in [Engines -> Memory] /\ \A f \in Engines \ up' : store'[f] = Blank
      BY <2>1, <2>2 DEF WType, StoreTypeOK, Memory
  <2>4. NoCall \in CallRecord
      BY DEF NoCall, CallRecord, Stages
  <2>5. \A c \in Calls : call'[c] = NoCall \/ (call'[c] = call[c] /\ call[c].engine # e)
      BY <2>1
  <2>6. call' \in [Calls -> CallRecord]
      BY <2>1, <2>4 DEF WType, CallsInv
  <2>7. ASSUME NEW c \in Calls PROVE CallInv(call[c])'
    <3>1. CASE call'[c] = NoCall
        BY <3>1 DEF CallInv, NoCall
    <3>2. CASE call'[c] = call[c] /\ call[c].engine # e
        BY <3>2, <2>1 DEF WType, CallsInv, CallInv, Puts, Brings
    <3> QED BY <2>5, <3>1, <3>2
  <2>8. CallsInv'
      BY <2>6, <2>7 DEF CallsInv
  <2>9. excused' \subseteq Excuses
      BY <2>1 DEF WType, StoreTypeOK, Excuses
  <2>10. \A c \in Calls : call'[c].at \in Stages /\ (call'[c].at # "idle" => call'[c].engine \in up')
      BY <2>8 DEF CallsInv, CallRecord, CallInv
  <2> HIDE DEF mine
  <2> QED BY <1>0, <2>1, <2>3, <2>8, <2>9, <2>10 DEF WType, StoreTypeOK, Memory, diskVars
<1>4. CASE Upgrade
  <2>1. \A c \in Calls : call[c] = NoCall
      BY <1>4 DEF Upgrade, WType, CallsInv, CallInv
  <2>2. CallsInv'
      BY <1>4, <2>1 DEF Upgrade, WType, CallsInv, CallInv, NoCall
  <2> QED BY <1>0, <1>4, <2>2 DEF Upgrade, WType, StoreTypeOK, diskVars, vars
<1>5. CASE LedgerStep
  <2>1. up' = up /\ UNCHANGED storeVars
      BY <1>5 DEF LedgerStep, Save, SaveFails, Answered, ChargeAll, SetLimit
  <2> QED BY <1>0, <2>1 DEF storeVars, diskVars, WType, StoreTypeOK, CallsInv, CallInv, Puts, Brings
<1> QED BY <1>1, <1>2, <1>3, <1>4, <1>5, AskType, StepType DEF WNext

(***************************************************************************)
(* The contract store.  While no two registrations of a version overlap,   *)
(* put's three steps leave memory as it would be loaded from disk: until   *)
(* the file is written, and again once the version is served.              *)
(***************************************************************************)
Half == {"unstale", "serve"}

Served(e, v) ==
    /\ store[e].versions[v] = IF Loads(stored[v]) THEN stored[v] ELSE None
    /\ v \in store[e].stale <=> stored[v] # None /\ ~Loads(stored[v])

ContractInv == "contracts" \notin excused =>
    /\ \A c, d \in Calls : call[c].version # None /\ call[c].version = call[d].version => c = d
    /\ \A c \in Calls : call[c].at \in Half => stored[call[c].version] = call[c].contract
    /\ \A c \in Calls : call[c].at = "serve" => call[c].version \notin store[call[c].engine].stale
    /\ \A e \in up, v \in Versions :
          (\A c \in Calls : call[c].version = v => call[c].at \notin Half) => Served(e, v)

\* A step that changes no version, in memory or on disk, and takes no call into put's
\* last two steps or out of them.
LEMMA ContractFrame ==
    ASSUME ContractInv, WType, up' = up, parcel' = parcel, stored' = stored,
           excused \subseteq excused',
           \A e \in Engines : /\ store'[e].versions = store[e].versions
                              /\ store'[e].stale = store[e].stale,
           \A c \in Calls :
              \/ call'[c] = call[c]
              \/ /\ call[c].at \notin Half /\ call'[c].at \notin Half
                 /\ call'[c].version \in {None, call[c].version}
    PROVE  ContractInv'
<1> SUFFICES ASSUME "contracts" \notin excused' PROVE ContractInv'
    BY DEF ContractInv
<1>0. up \subseteq Engines /\ \A c \in Calls : call[c].at # "idle" => call[c].engine \in Engines
    BY DEF WType, TypeOK, CallsInv, CallInv
<1>1. \A e \in Engines, v \in Versions : Served(e, v)' <=> Served(e, v)
    BY DEF Served, Loads
<1>2. \A c, d \in Calls : call'[c].version # None /\ call'[c].version = call'[d].version => c = d
    BY DEF ContractInv
<1>3. \A c \in Calls : call'[c].at \in Half => call'[c] = call[c]
    OBVIOUS
<1>4. \A c \in Calls : call'[c].at \in Half => stored'[call'[c].version] = call'[c].contract
    BY <1>3 DEF ContractInv
<1>5. \A c \in Calls : call'[c].at = "serve" => call'[c].version \notin store'[call'[c].engine].stale
    BY <1>0, <1>3 DEF ContractInv, Half
<1>6. ASSUME NEW e \in up, NEW v \in Versions,
             \A c \in Calls : call'[c].version = v => call'[c].at \notin Half
      PROVE  Served(e, v)
  <2>1. \A c \in Calls : call[c].version = v => call[c].at \notin Half
      BY <1>6
  <2> QED BY <2>1 DEF ContractInv
<1> QED BY <1>0, <1>1, <1>2, <1>4, <1>5, <1>6 DEF ContractInv

\* A registration that begins is the only one of its version, or is excused.
LEMMA ContractAsk ==
    ASSUME ContractInv, WType, NEW c \in Calls, NEW e \in Engines, Ask(c, e)
    PROVE  ContractInv'
<1>0. call \in [Calls -> CallRecord] /\ store \in [Engines -> Memory]
    BY DEF WType, CallsInv, StoreTypeOK, Memory
<1>1. ASSUME NEW v \in Versions, NEW r, r.version = v, r.at \notin Half, call[c] = NoCall, Becomes(c, r),
             Putting(v) # {} => "contracts" \in excused', UNCHANGED <<diskVars, store>>,
             excused \subseteq excused'
      PROVE  ContractInv'
  <2> SUFFICES ASSUME "contracts" \notin excused' PROVE ContractInv'
      BY DEF ContractInv
  <2>1. /\ call' = [call EXCEPT ![c] = r] /\ stored' = stored /\ up' = up /\ parcel' = parcel
        /\ store' = store /\ "contracts" \notin excused
      BY <1>1 DEF Becomes, vars, diskVars
  <2>2. \A d \in Calls : call[d].version # v
      BY <1>1 DEF Putting
  <2>3. \A d \in Calls \ {c} : call'[d] = call[d]
      BY <2>1, <1>0
  <2>4. call'[c] = r /\ call[c].at \notin Half
      BY <2>1, <1>0, <1>1 DEF NoCall, Half
  <2>5. \A f, w : Served(f, w)' <=> Served(f, w)
      BY <2>1 DEF Served, Loads
  <2>6. \A d, f \in Calls : call'[d].version # None /\ call'[d].version = call'[f].version => d = f
      BY <1>1, <2>1, <2>2, <2>3, <2>4 DEF ContractInv
  <2>7. \A d \in Calls : call'[d].at \in Half => d # c /\ call'[d] = call[d]
      BY <1>1, <2>3, <2>4
  <2>8. ASSUME NEW f \in up, NEW w \in Versions,
               \A d \in Calls : call'[d].version = w => call'[d].at \notin Half
        PROVE  Served(f, w)
    <3>1. \A d \in Calls : call[d].version = w => call[d].at \notin Half
        BY <2>3, <2>4, <2>8
    <3> QED BY <2>1, <3>1 DEF ContractInv
  <2>9. \A d \in Calls : call'[d].at = "serve" => call'[d].version \notin store'[call'[d].engine].stale
      BY <2>1, <2>7 DEF ContractInv, Half
  <2>10. \A d \in Calls : call'[d].at \in Half => stored'[call'[d].version] = call'[d].contract
      BY <2>1, <2>7 DEF ContractInv
  <2> QED BY <2>1, <2>5, <2>6, <2>8, <2>9, <2>10 DEF ContractInv
<1>2. ASSUME NEW v \in Versions, NEW d \in Docs, RegisterContract(c, e, v, d) PROVE ContractInv'
  <2> DEFINE k == [doc |-> d, parcel |-> parcel, pin |-> IF d \in Uses THEN store[e].registry.hash ELSE None,
                   bundle |-> {}]
             r == [NoCall EXCEPT !.at = "bundle", !.engine = e, !.version = v, !.contract = k]
  <2>1. Becomes(c, r) /\ call[c] = NoCall /\ UNCHANGED <<diskVars, store>> /\ excused \subseteq excused'
        /\ (Putting(v) # {} => "contracts" \in excused')
      BY <1>2 DEF RegisterContract, Excuse, Idle
  <2>2. r.version = v /\ r.at \notin Half
      BY DEF NoCall, Half
  <2> HIDE DEF r
  <2> QED BY <2>1, <2>2, <1>1
<1>3. ASSUME NEW v \in Versions, NEW d \in Docs, NEW h \in Hashes, RegisterCompiled(c, e, v, d, h)
      PROVE  ContractInv'
  <2> DEFINE k == IF d \in Uses THEN [doc |-> d, parcel |-> parcel, pin |-> h, bundle |-> {h}]
                          ELSE [doc |-> d, parcel |-> parcel, pin |-> None, bundle |-> {}]
             r == [NoCall EXCEPT
               !.at = IF d \in Uses THEN "insert" ELSE "take", !.engine = e, !.version = v,
               !.contract = k, !.hash = k.pin, !.tenant = IF d \in Uses THEN Owner ELSE None]
  <2>1. Becomes(c, r) /\ call[c] = NoCall /\ UNCHANGED <<diskVars, store>> /\ excused \subseteq excused'
        /\ (Putting(v) # {} => "contracts" \in excused')
      BY <1>3 DEF RegisterCompiled, Excuse, Idle
  <2>2. r.version = v /\ r.at \notin Half
      BY DEF NoCall, Half
  <2> HIDE DEF r
  <2> QED BY <2>1, <2>2, <1>1
<1>4. ASSUME NEW r, r.version = None, r.at \notin Half, call[c] = NoCall, Becomes(c, r), stored' = stored,
             excused \subseteq excused',
             \A f \in Engines : /\ store'[f].versions = store[f].versions
                                /\ store'[f].stale = store[f].stale
      PROVE  ContractInv'
  <2>1. call' = [call EXCEPT ![c] = r] /\ up' = up /\ parcel' = parcel
      BY <1>4 DEF Becomes, vars
  <2>2. \A d \in Calls : \/ call'[d] = call[d]
                         \/ /\ call[d].at \notin Half /\ call'[d].at \notin Half
                            /\ call'[d].version \in {None, call[d].version}
      BY <2>1, <1>0, <1>4 DEF NoCall, Half
  <2> QED BY <2>1, <2>2, <1>4, ContractFrame
<1>5. ASSUME NEW t \in Tenants, NEW h \in Hashes, RegisterFunction(c, e, t, h) PROVE ContractInv'
  <2> DEFINE r == [NoCall EXCEPT !.at = "insert", !.engine = e, !.tenant = t, !.hash = h]
  <2>1. Becomes(c, r) /\ call[c] = NoCall /\ UNCHANGED <<diskVars, store>> /\ excused \subseteq excused'
      BY <1>5 DEF RegisterFunction, Excuse, Idle
  <2>2. r.version = None /\ r.at \notin Half
      BY DEF NoCall, Half
  <2> HIDE DEF r
  <2> QED BY <2>1, <2>2, <1>4 DEF diskVars
<1>6. ASSUME NEW A \in SUBSET Tenants, Share(c, e, A) PROVE ContractInv'
  <2> DEFINE r == [NoCall EXCEPT !.at = "names", !.engine = e]
  <2>1. Becomes(c, r) /\ call[c] = NoCall /\ UNCHANGED diskVars /\ excused \subseteq excused'
        /\ store' = [store EXCEPT ![e].audiences = A]
      BY <1>6 DEF Share, Excuse, Idle
  <2>2. r.version = None /\ r.at \notin Half
      BY DEF NoCall, Half
  <2>3. \A f \in Engines : store'[f].versions = store[f].versions /\ store'[f].stale = store[f].stale
      BY <2>1, <1>0 DEF Memory
  <2> HIDE DEF r
  <2> QED BY <2>1, <2>2, <2>3, <1>4 DEF diskVars
<1>7. ASSUME NEW a \in Tenants, Publish(c, e, a) \/ Unpublish(c, e, a) PROVE ContractInv'
  <2>1. store[e].audiences \cup {a} \in SUBSET Tenants /\ store[e].audiences \ {a} \in SUBSET Tenants
      BY <1>0 DEF Memory
  <2> QED BY <1>7, <1>6, <2>1 DEF Publish, Unpublish
<1> QED BY <1>2, <1>3, <1>5, <1>7 DEF Ask

\* Where a call goes on to a step outside put's last two, or ends there.
LEMMA CallsMove ==
    ASSUME WType, NEW c \in Calls, NEW to \in Stages, to \notin Half, call[c].at \notin Half, Goes(c, to)
    PROVE  /\ up' = up /\ parcel' = parcel
           /\ \A d \in Calls : \/ call'[d] = call[d]
                               \/ /\ call[d].at \notin Half /\ call'[d].at \notin Half
                                  /\ call'[d].version \in {None, call[d].version}
<1>1. call' = [call EXCEPT ![c] = IF to = "idle" THEN NoCall ELSE [call[c] EXCEPT !.at = to]]
      /\ up' = up /\ parcel' = parcel
    BY DEF Goes, Becomes, vars
<1>2. call \in [Calls -> CallRecord]
    BY DEF WType, CallsInv
<1>3. CASE to = "idle"
  <2>1. call'[c] = NoCall
      BY <1>1, <1>2, <1>3
  <2> QED BY <1>1, <1>2, <2>1 DEF NoCall, Half
<1>4. CASE to # "idle"
  <2>1. call'[c] = [call[c] EXCEPT !.at = to] /\ call[c] \in CallRecord
      BY <1>1, <1>2, <1>4
  <2>2. call'[c].at = to /\ call'[c].version = call[c].version
      BY <2>1 DEF CallRecord
  <2> QED BY <1>1, <1>2, <2>2
<1> QED BY <1>3, <1>4

\* put writes the file, clears the stale entry and serves the version (DirStore::put), and
\* no other step of a call touches a version.
LEMMA ContractStep ==
    ASSUME OneEngine, ContractInv, WType, NEW c \in Calls, Step(c)
    PROVE  ContractInv'
<1>0. /\ call \in [Calls -> CallRecord] /\ store \in [Engines -> Memory] /\ up \subseteq Engines
      /\ stored \in [Versions -> Contract \cup {None}]
      /\ \A d \in Calls : CallInv(call[d])
    BY DEF WType, CallsInv, StoreTypeOK, Memory, TypeOK
<1>e. call[c].at # "idle" => call[c].engine \in up /\ call[c].engine \in Engines
    BY <1>0 DEF CallInv
<1>1. ASSUME NEW to \in Stages \ Half, Goes(c, to), call[c].at \notin Half, UNCHANGED <<stored, store>>,
             excused \subseteq excused'
      PROVE  ContractInv'
    BY <1>1, CallsMove, ContractFrame
<1>2. ASSUME Bundle(c) PROVE ContractInv'
  <2> DEFINE k == call[c].contract
             f == Mem(c).registry
             m == IF f # None /\ f.hash = k.pin THEN Mem(c).modules[f.owner] ELSE None
             r == [call[c] EXCEPT !.at = "file", !.contract.bundle = {m} \ {None}]
  <2>1. call' = [call EXCEPT ![c] = r] /\ UNCHANGED <<diskVars, store, excused, parcel, vars>>
        /\ call[c].at = "bundle"
      BY <1>2 DEF Bundle, Becomes
  <2>2. r.at = "file" /\ r.version = call[c].version
      BY <1>0 DEF CallRecord
  <2> HIDE DEF r
  <2>3. \A d \in Calls : \/ call'[d] = call[d]
                         \/ /\ call[d].at \notin Half /\ call'[d].at \notin Half
                            /\ call'[d].version \in {None, call[d].version}
      BY <1>0, <2>1, <2>2 DEF Half
  <2> QED BY <2>1, <2>3, ContractFrame DEF vars, diskVars
<1>3. ASSUME TruncateNames(c) PROVE ContractInv'
  <2> DEFINE r == [call[c] EXCEPT !.at = "names2", !.names = Mem(c).audiences]
  <2>1. call' = [call EXCEPT ![c] = r] /\ UNCHANGED <<stored, store, excused, parcel, vars>>
        /\ call[c].at = "names"
      BY <1>3 DEF TruncateNames, Becomes
  <2>2. r.at = "names2" /\ r.version = call[c].version
      BY <1>0 DEF CallRecord
  <2> HIDE DEF r
  <2>3. \A d \in Calls : \/ call'[d] = call[d]
                         \/ /\ call[d].at \notin Half /\ call'[d].at \notin Half
                            /\ call'[d].version \in {None, call[d].version}
      BY <1>0, <2>1, <2>2 DEF Half
  <2> QED BY <2>1, <2>3, ContractFrame DEF vars
<1>4. ASSUME Take(c) \/ TruncateModule(c) \/ WriteModule(c) \/ TruncateRecord(c) \/ WriteRecord(c)
             \/ WriteNames(c) \/ WriteFails(c)
      PROVE  ContractInv'
  <2>1. PICK to \in {"file", "idle", "module2", "record", "record2"} : Goes(c, to)
      BY <1>4 DEF Take, TruncateModule, WriteModule, TruncateRecord, WriteRecord, WriteNames, WriteFails
  <2>2. to \in Stages \ Half
      BY DEF Stages, Half
  <2>3. UNCHANGED <<stored, store>> /\ excused \subseteq excused' /\ call[c].at \notin Half
      BY <1>4 DEF Take, TruncateModule, WriteModule, TruncateRecord, WriteRecord, WriteNames, WriteFails,
                  diskVars, Excuse, Half
  <2> QED BY <2>1, <2>2, <2>3, <1>1
<1>5. ASSUME NEW to \in Stages \ Half, Goes(c, to), call[c].at \notin Half \cup {"idle"}, NEW m,
             m.versions = Mem(c).versions, m.stale = Mem(c).stale, Holds(c, m)
      PROVE  ContractInv'
  <2>1. store' = [store EXCEPT ![call[c].engine] = m] /\ UNCHANGED <<diskVars, excused>>
      BY <1>5 DEF Holds
  <2>2. \A e \in Engines : store'[e].versions = store[e].versions /\ store'[e].stale = store[e].stale
      BY <1>0, <1>5, <2>1 DEF Mem
  <2> QED BY <1>5, <2>1, <2>2, CallsMove, ContractFrame DEF diskVars
<1>6. ASSUME Insert(c) PROVE ContractInv'
  <2> DEFINE m == [Mem(c) EXCEPT !.registry = [owner |-> call[c].tenant, hash |-> call[c].hash]]
  <2>1. Holds(c, m) /\ Goes(c, "push") /\ call[c].at = "insert"
      BY <1>6 DEF Insert
  <2>2. m.versions = Mem(c).versions /\ m.stale = Mem(c).stale
      BY <1>0, <1>e, <2>1 DEF Mem, Memory
  <2> HIDE DEF m
  <2> QED BY <2>1, <2>2, <1>5 DEF Stages, Half
<1>7. ASSUME Push(c) PROVE ContractInv'
  <2> DEFINE m == [Mem(c) EXCEPT !.modules[call[c].tenant] = call[c].hash]
             to == IF call[c].contract = None THEN "module" ELSE "take"
  <2>1. Holds(c, m) /\ Goes(c, to) /\ call[c].at = "push"
      BY <1>7 DEF Push
  <2>2. m.versions = Mem(c).versions /\ m.stale = Mem(c).stale
      BY <1>0, <1>e, <2>1 DEF Mem, Memory
  <2>3. to \in Stages \ Half
      BY DEF Stages, Half
  <2> HIDE DEF m, to
  <2> QED BY <2>1, <2>2, <2>3, <1>5 DEF Stages, Half
<1>8. ASSUME PutFile(c) PROVE ContractInv'
  <2> SUFFICES ASSUME "contracts" \notin excused' PROVE ContractInv'
      BY DEF ContractInv
  <2> DEFINE v == call[c].version
  <2>1. /\ stored' = [stored EXCEPT ![v] = call[c].contract] /\ up' = up /\ parcel' = parcel
        /\ store' = store /\ "contracts" \notin excused /\ call[c].at = "file"
        /\ call' = [call EXCEPT ![c] = [call[c] EXCEPT !.at = "unstale"]]
      BY <1>8 DEF PutFile, Goes, Becomes, vars
  <2>2. v \in Versions /\ v # None
      BY <1>0, <2>1, NamesAssumption DEF CallInv, Puts
  <2>3. /\ call'[c].at = "unstale" /\ call'[c].version = v /\ call'[c].contract = call[c].contract
        /\ \A d \in Calls \ {c} : call'[d] = call[d] /\ call[d].version # v
      BY <1>0, <2>1, <2>2 DEF CallRecord, ContractInv
  <2>4. \A w \in Versions \ {v} : stored'[w] = stored[w]
      BY <1>0, <2>1
  <2>5. \A e \in Engines, w \in Versions \ {v} : Served(e, w)' <=> Served(e, w)
      BY <2>1, <2>4 DEF Served, Loads
  <2>6. \A d, f \in Calls : call'[d].version # None /\ call'[d].version = call'[f].version => d = f
      BY <2>1, <2>3 DEF ContractInv
  <2>7. ASSUME NEW d \in Calls, call'[d].at \in Half PROVE stored'[call'[d].version] = call'[d].contract
    <3>1. CASE d = c
        BY <3>1, <1>0, <2>1, <2>2, <2>3
    <3>2. CASE d # c
      <4>1. call[d].version \in Versions \ {v}
          BY <1>0, <2>3, <2>7, <3>2 DEF CallInv, Puts, Half
      <4> QED BY <3>2, <2>1, <2>3, <2>4, <2>7, <4>1 DEF ContractInv
    <3> QED BY <3>1, <3>2
  <2>8. \A d \in Calls : call'[d].at = "serve" => call'[d].version \notin store'[call'[d].engine].stale
      BY <2>1, <2>3 DEF ContractInv
  <2>9. ASSUME NEW e \in up, NEW w \in Versions,
               \A d \in Calls : call'[d].version = w => call'[d].at \notin Half
        PROVE  Served(e, w)'
    <3>1. w # v
        BY <2>3, <2>9 DEF Half
    <3>2. \A d \in Calls : call[d].version = w => call[d].at \notin Half
        BY <2>3, <2>9, <3>1
    <3> QED BY <1>0, <2>1, <2>5, <3>1, <3>2 DEF ContractInv
  <2> HIDE DEF v
  <2> QED BY <2>1, <2>6, <2>7, <2>8, <2>9 DEF ContractInv
<1>9. ASSUME Unstale(c) PROVE ContractInv'
  <2> SUFFICES ASSUME "contracts" \notin excused' PROVE ContractInv'
      BY DEF ContractInv
  <2> DEFINE v == call[c].version
             e == call[c].engine
             m == [Mem(c) EXCEPT !.stale = @ \ {v}]
  <2>1. /\ stored' = stored /\ up' = up /\ parcel' = parcel
        /\ store' = [store EXCEPT ![e] = m] /\ "contracts" \notin excused /\ call[c].at = "unstale"
        /\ call' = [call EXCEPT ![c] = [call[c] EXCEPT !.at = "serve"]]
      BY <1>9 DEF Unstale, Goes, Becomes, vars, Holds, diskVars
  <2>2. v \in Versions /\ v # None /\ e \in Engines
      BY <1>0, <1>e, <2>1, NamesAssumption DEF CallInv, Puts
  <2>a. m.versions = store[e].versions /\ m.stale = store[e].stale \ {v}
      BY <1>0, <2>2 DEF Memory, Mem
  <2> HIDE DEF m
  <2>3. /\ call'[c].at = "serve" /\ call'[c].version = v /\ call'[c].contract = call[c].contract
        /\ call'[c].engine = e
        /\ \A d \in Calls \ {c} : call'[d] = call[d] /\ call[d].version # v
      BY <1>0, <2>1, <2>2 DEF CallRecord, ContractInv
  <2>4. \A f \in Engines : /\ store'[f].versions = store[f].versions
                           /\ store'[f].stale \subseteq store[f].stale
                           /\ store[f].stale \ {v} \subseteq store'[f].stale
      BY <1>0, <2>1, <2>a
  <2>5. \A f \in Engines, w \in Versions \ {v} : Served(f, w)' <=> Served(f, w)
      BY <2>1, <2>4 DEF Served, Loads
  <2>6. \A d, f \in Calls : call'[d].version # None /\ call'[d].version = call'[f].version => d = f
      BY <2>1, <2>3 DEF ContractInv
  <2>7. \A d \in Calls : call'[d].at \in Half => stored'[call'[d].version] = call'[d].contract
      BY <2>1, <2>3 DEF ContractInv, Half
  <2>8. ASSUME NEW d \in Calls, call'[d].at = "serve"
        PROVE  call'[d].version \notin store'[call'[d].engine].stale
    <3>1. CASE d = c
        BY <3>1, <1>0, <2>1, <2>2, <2>3, <2>a
    <3>2. CASE d # c
      <4>1. call[d].engine \in Engines
          BY <1>0, <2>3, <2>8, <3>2 DEF CallInv
      <4> QED BY <3>2, <2>1, <2>3, <2>4, <2>8, <4>1 DEF ContractInv
    <3> QED BY <3>1, <3>2
  <2>9. ASSUME NEW f \in up, NEW w \in Versions,
               \A d \in Calls : call'[d].version = w => call'[d].at \notin Half
        PROVE  Served(f, w)'
    <3>1. w # v
        BY <2>3, <2>9 DEF Half
    <3>2. \A d \in Calls : call[d].version = w => call[d].at \notin Half
        BY <2>3, <2>9, <3>1
    <3> QED BY <1>0, <2>1, <2>5, <3>1, <3>2 DEF ContractInv
  <2> HIDE DEF v, e
  <2> QED BY <2>1, <2>6, <2>7, <2>8, <2>9 DEF ContractInv
<1>10. ASSUME Serve(c) PROVE ContractInv'
  <2> SUFFICES ASSUME "contracts" \notin excused' PROVE ContractInv'
      BY DEF ContractInv
  <2> DEFINE v == call[c].version
             e == call[c].engine
             k == call[c].contract
             m == [Mem(c) EXCEPT !.versions[v] = k]
  <2>1. /\ stored' = stored /\ up' = up /\ parcel' = parcel
        /\ store' = [store EXCEPT ![e] = m] /\ "contracts" \notin excused /\ call[c].at = "serve"
        /\ call' = [call EXCEPT ![c] = NoCall]
      BY <1>10 DEF Serve, Goes, Becomes, vars, Holds, diskVars
  <2>2. v \in Versions /\ e \in Engines /\ k \in Contract /\ k.parcel = parcel /\ k # None
      BY <1>0, <1>e, <2>1, NoneAssumption DEF CallInv, Puts
  <2>a. m.versions = [store[e].versions EXCEPT ![v] = k] /\ m.stale = store[e].stale
        /\ store[e].versions \in [Versions -> Contract \cup {None}]
      BY <1>0, <2>2 DEF Memory, Mem
  <2> HIDE DEF m
  <2>3. call'[c] = NoCall /\ \A d \in Calls \ {c} : call'[d] = call[d] /\ call[d].version # v
      BY <1>0, <2>1, <2>2, NamesAssumption DEF ContractInv
  <2>b. NoCall.version = None /\ NoCall.at = "idle"
      BY DEF NoCall
  <2>4. /\ \A f \in Engines : store'[f].stale = store[f].stale
        /\ \A f \in Engines, w \in Versions \ {v} : store'[f].versions[w] = store[f].versions[w]
        /\ store'[e].versions[v] = k
      BY <1>0, <2>1, <2>2, <2>a
  <2>5. \A f \in Engines, w \in Versions \ {v} : Served(f, w)' <=> Served(f, w)
      BY <2>1, <2>4 DEF Served, Loads
  <2>6. \A d, f \in Calls : call'[d].version # None /\ call'[d].version = call'[f].version => d = f
      BY <2>1, <2>3, <2>b DEF ContractInv
  <2>7. \A d \in Calls : call'[d].at \in Half => stored'[call'[d].version] = call'[d].contract
      BY <2>1, <2>3, <2>b DEF ContractInv, Half
  <2>8. \A d \in Calls : call'[d].at = "serve" => call'[d].version \notin store'[call'[d].engine].stale
      BY <1>0, <2>1, <2>3, <2>4, <2>b DEF ContractInv, CallInv
  <2>9. ASSUME NEW f \in up, NEW w \in Versions,
               \A d \in Calls : call'[d].version = w => call'[d].at \notin Half
        PROVE  Served(f, w)'
    <3>1. CASE w # v
      <4>1. \A d \in Calls : call[d].version = w => call[d].at \notin Half
          BY <2>3, <2>9, <3>1
      <4> QED BY <1>0, <2>1, <2>5, <3>1, <4>1 DEF ContractInv
    <3>2. CASE w = v
      <4>1. f = e
          BY <1>0, <2>2 DEF OneEngine
      <4>2. stored[v] = k /\ v \notin store[e].stale
          BY <2>1 DEF ContractInv, Half
      <4> QED BY <3>2, <2>1, <2>2, <2>4, <4>1, <4>2 DEF Served, Loads
    <3> QED BY <3>1, <3>2
  <2> HIDE DEF v, e, k
  <2> QED BY <2>1, <2>6, <2>7, <2>8, <2>9 DEF ContractInv
<1> QED BY <1>2, <1>3, <1>4, <1>6, <1>7, <1>8, <1>9, <1>10 DEF Step

\* An engine that opens serves what is on disk, one that stops serves nothing, and peQL is
\* upgraded while nothing is served.
LEMMA ContractNext == OneEngine /\ ContractInv /\ WType /\ [WNext]_allVars => ContractInv'
<1> SUFFICES ASSUME OneEngine, ContractInv, WType, [WNext]_allVars PROVE ContractInv'
    OBVIOUS
<1>0. up \subseteq Engines /\ store \in [Engines -> Memory] /\ call \in [Calls -> CallRecord]
    BY DEF WType, TypeOK, CallsInv, StoreTypeOK, Memory
<1>1. CASE UNCHANGED allVars \/ LedgerStep
  <2>1. up' = up /\ UNCHANGED storeVars
      BY <1>1 DEF allVars, vars, LedgerStep, Save, SaveFails, Answered, ChargeAll, SetLimit
  <2> QED BY <2>1, ContractFrame DEF storeVars, diskVars
<1>n. ASSUME up = {} PROVE \A c \in Calls : call[c] = NoCall
    BY <1>n DEF WType, CallsInv, CallInv
<1>b. NoCall.version = None /\ NoCall.at = "idle"
    BY DEF NoCall
<1>2. ASSUME NEW e \in Engines, OpenWorkspace(e) PROVE ContractInv'
  <2>1. up = {} /\ up' = {e}
      BY <1>0, <1>2 DEF OneEngine, OpenWorkspace, Open
  <2>2. /\ UNCHANGED <<parcel, stored, call, excused>>
        /\ store'[e].versions = LoadedVersions /\ store'[e].stale = StaleVersions
      BY <1>0, <1>2 DEF OpenWorkspace, diskVars
  <2>3. \A c \in Calls : call'[c].at \notin Half /\ call'[c].version = None
      BY <1>n, <1>b, <2>1, <2>2 DEF Half
  <2>4. \A v \in Versions : Served(e, v)'
      BY <2>2 DEF Served, LoadedVersions, StaleVersions, Loads
  <2> QED BY <2>1, <2>3, <2>4 DEF ContractInv, Half
<1>3. ASSUME NEW e \in Engines, StopWorkspace(e) PROVE ContractInv'
  <2>1. up' = {}
      BY <1>0, <1>3 DEF OneEngine, StopWorkspace, Stop
  <2>2. \A c \in Calls : call'[c] = NoCall
      BY <1>0, <1>3 DEF StopWorkspace, Stop, WType, CallsInv, CallInv, OneEngine
  <2> QED BY <1>b, <2>1, <2>2 DEF ContractInv, Half
<1>4. CASE Upgrade
  <2>1. up' = {} /\ \A c \in Calls : call'[c] = NoCall
      BY <1>4, <1>n DEF Upgrade, vars
  <2> QED BY <1>b, <2>1 DEF ContractInv, Half
<1> QED BY <1>1, <1>2, <1>3, <1>4, ContractAsk, ContractStep DEF WNext

(***************************************************************************)
(* The audiences.  While no two calls that share or unshare the contract   *)
(* overlap, and none is cut short, published.json is a list of names       *)
(* except while it is being written, and then what is written is what the  *)
(* engine holds.                                                           *)
(***************************************************************************)
Naming == {"names", "names2"}

AudienceInv == "audiences" \notin excused =>
    /\ \A c, d \in Calls : call[c].at \in Naming /\ call[d].at \in Naming => c = d
    /\ \A c \in Calls : call[c].at = "names2" =>
          published = Truncated /\ call[c].names = store[call[c].engine].audiences
    /\ (\A c \in Calls : call[c].at # "names2") => published \notin {Truncated, Mixed}
    /\ Returns(Name) /\ (\A c \in Calls : call[c].at \notin Naming) =>
          \A e \in up : store[e].audiences = LoadedAudiences

\* A step that changes no audience and takes no call into saving them or out of it.
LEMMA AudienceFrame ==
    ASSUME AudienceInv, WType, up' = up, published' = published, excused \subseteq excused',
           \A e \in Engines : store'[e].audiences = store[e].audiences,
           \A c \in Calls : \/ call'[c] = call[c]
                            \/ call[c].at \notin Naming /\ call'[c].at \notin Naming
    PROVE  AudienceInv'
<1> SUFFICES ASSUME "audiences" \notin excused' PROVE AudienceInv'
    BY DEF AudienceInv
<1>0. up \subseteq Engines /\ \A c \in Calls : call[c].at # "idle" => call[c].engine \in Engines
    BY DEF WType, TypeOK, CallsInv, CallInv
<1>1. \A c \in Calls : call'[c].at \in Naming \/ call[c].at \in Naming => call'[c] = call[c]
    OBVIOUS
<1>2. LoadedAudiences' = LoadedAudiences /\ "audiences" \notin excused
    BY DEF LoadedAudiences
<1>3. \A c, d \in Calls : call'[c].at \in Naming /\ call'[d].at \in Naming => c = d
    BY <1>1, <1>2 DEF AudienceInv
<1>4. \A c \in Calls : call'[c].at = "names2" =>
          published' = Truncated /\ call'[c].names = store'[call'[c].engine].audiences
    BY <1>0, <1>1, <1>2 DEF AudienceInv, Naming
<1>5. (\A c \in Calls : call'[c].at # "names2") => published' \notin {Truncated, Mixed}
    BY <1>1, <1>2 DEF AudienceInv, Naming
<1>6. Returns(Name) /\ (\A c \in Calls : call'[c].at \notin Naming) =>
          \A e \in up' : store'[e].audiences = LoadedAudiences'
    BY <1>0, <1>1, <1>2 DEF AudienceInv
<1> QED BY <1>3, <1>4, <1>5, <1>6 DEF AudienceInv

\* publish and unpublish change the memory and then the file (DirStore::save_audiences);
\* nothing else does.
LEMMA AudienceNext == OneEngine /\ AudienceInv /\ WType /\ [WNext]_allVars => AudienceInv'
<1> SUFFICES ASSUME OneEngine, AudienceInv, WType, [WNext]_allVars PROVE AudienceInv'
    OBVIOUS
<1>0. /\ up \subseteq Engines /\ store \in [Engines -> Memory] /\ call \in [Calls -> CallRecord]
      /\ published \in {None, Truncated, Mixed} \/ published \in SUBSET Tenants
      /\ \A c \in Calls : CallInv(call[c])
    BY DEF WType, TypeOK, CallsInv, StoreTypeOK, Memory
<1>1. CASE UNCHANGED allVars \/ LedgerStep
  <2>1. up' = up /\ UNCHANGED storeVars
      BY <1>1 DEF allVars, vars, LedgerStep, Save, SaveFails, Answered, ChargeAll, SetLimit
  <2> QED BY <2>1, AudienceFrame DEF storeVars, diskVars
<1>n. ASSUME up = {} PROVE \A c \in Calls : call[c] = NoCall
    BY <1>n DEF WType, CallsInv, CallInv
<1>b. NoCall.at = "idle"
    BY DEF NoCall
<1>2. ASSUME NEW e \in Engines, OpenWorkspace(e) PROVE AudienceInv'
  <2>1. up = {} /\ up' = {e}
      BY <1>0, <1>2 DEF OneEngine, OpenWorkspace, Open
  <2>2. UNCHANGED <<published, call, excused>> /\ store'[e].audiences = LoadedAudiences
        /\ published \notin {Truncated, Mixed}
      BY <1>0, <1>2 DEF OpenWorkspace, diskVars, Opens
  <2>3. \A c \in Calls : call'[c].at \notin Naming
      BY <1>n, <1>b, <2>1, <2>2 DEF Naming
  <2> QED BY <2>1, <2>2, <2>3 DEF AudienceInv, LoadedAudiences, Naming
<1>3. ASSUME NEW e \in Engines, StopWorkspace(e) PROVE AudienceInv'
  <2>1. up' = {} /\ up = {e} /\ published' = published /\ excused \subseteq excused'
      BY <1>0, <1>3 DEF OneEngine, StopWorkspace, Stop, diskVars
  <2>2. \A c \in Calls : call'[c] = NoCall
      BY <1>0, <1>3 DEF StopWorkspace, Stop, CallInv, OneEngine
  <2>3. ASSUME "audiences" \notin excused' PROVE \A c \in Calls : call[c].at # "names2"
      BY <1>0, <1>3, <2>1, <2>3 DEF StopWorkspace, Publishing, CallInv
  <2> QED BY <1>b, <2>1, <2>2, <2>3 DEF AudienceInv, Naming
<1>4. CASE Upgrade
  <2>1. up' = up /\ UNCHANGED <<published, store, call, excused>>
      BY <1>4 DEF Upgrade, vars, diskVars
  <2> QED BY <2>1, AudienceFrame
<1>5. ASSUME NEW c \in Calls, NEW e \in Engines, Ask(c, e) PROVE AudienceInv'
  <2>1. ASSUME NEW A \in SUBSET Tenants, Share(c, e, A) PROVE AudienceInv'
    <3> SUFFICES ASSUME "audiences" \notin excused' PROVE AudienceInv'
        BY DEF AudienceInv
    <3> DEFINE r == [NoCall EXCEPT !.at = "names", !.engine = e]
    <3>1. /\ call' = [call EXCEPT ![c] = r] /\ published' = published /\ up' = up
          /\ excused \subseteq excused' /\ \A o \in Calls : call[o].at \notin Naming
          /\ store' = [store EXCEPT ![e].audiences = A]
        BY <2>1 DEF Share, Becomes, Excuse, diskVars, vars, Naming
    <3>2. r.at = "names"
        BY DEF NoCall
    <3> HIDE DEF r
    <3>3. call'[c].at = "names" /\ \A o \in Calls \ {c} : call'[o] = call[o]
        BY <1>0, <3>1, <3>2
    <3>4. published' \notin {Truncated, Mixed}
        BY <3>1 DEF AudienceInv, Naming
    <3>5. c \in Calls /\ call'[c].at \in Naming /\ \A o \in Calls : call'[o].at # "names2"
        BY <3>1, <3>3 DEF Naming
    <3> QED BY <3>1, <3>3, <3>4, <3>5 DEF AudienceInv, Naming
  <2>2. ASSUME NEW a \in Tenants, Publish(c, e, a) \/ Unpublish(c, e, a) PROVE AudienceInv'
    <3>1. store[e].audiences \cup {a} \in SUBSET Tenants /\ store[e].audiences \ {a} \in SUBSET Tenants
        BY <1>0 DEF Memory
    <3> QED BY <2>2, <2>1, <3>1 DEF Publish, Unpublish
  <2>3. ASSUME NEW r, r.at \notin Naming, call[c] = NoCall, Becomes(c, r), UNCHANGED <<diskVars, store>>,
               excused \subseteq excused'
        PROVE  AudienceInv'
    <3>1. call' = [call EXCEPT ![c] = r] /\ published' = published /\ up' = up
        BY <2>3 DEF Becomes, vars, diskVars
    <3>2. \A d \in Calls : call'[d] = call[d] \/ (call[d].at \notin Naming /\ call'[d].at \notin Naming)
        BY <1>0, <1>b, <2>3, <3>1 DEF Naming
    <3> QED BY <2>3, <3>1, <3>2, AudienceFrame
  <2>4. ASSUME NEW v \in Versions, NEW d \in Docs, RegisterContract(c, e, v, d) PROVE AudienceInv'
    <3> DEFINE k == [doc |-> d, parcel |-> parcel,
                     pin |-> IF d \in Uses THEN store[e].registry.hash ELSE None, bundle |-> {}]
               r == [NoCall EXCEPT !.at = "bundle", !.engine = e, !.version = v, !.contract = k]
    <3>1. Becomes(c, r) /\ call[c] = NoCall /\ UNCHANGED <<diskVars, store>> /\ excused \subseteq excused'
        BY <2>4 DEF RegisterContract, Excuse, Idle
    <3>2. r.at \notin Naming
        BY DEF NoCall, Naming
    <3> HIDE DEF r
    <3> QED BY <3>1, <3>2, <2>3
  <2>5. ASSUME NEW v \in Versions, NEW d \in Docs, NEW h \in Hashes, RegisterCompiled(c, e, v, d, h)
        PROVE  AudienceInv'
    <3> DEFINE k == IF d \in Uses THEN [doc |-> d, parcel |-> parcel, pin |-> h, bundle |-> {h}]
                            ELSE [doc |-> d, parcel |-> parcel, pin |-> None, bundle |-> {}]
               r == [NoCall EXCEPT
                 !.at = IF d \in Uses THEN "insert" ELSE "take", !.engine = e, !.version = v,
                 !.contract = k, !.hash = k.pin, !.tenant = IF d \in Uses THEN Owner ELSE None]
    <3>1. Becomes(c, r) /\ call[c] = NoCall /\ UNCHANGED <<diskVars, store>> /\ excused \subseteq excused'
        BY <2>5 DEF RegisterCompiled, Excuse, Idle
    <3>2. r.at \notin Naming
        BY DEF NoCall, Naming
    <3> HIDE DEF r
    <3> QED BY <3>1, <3>2, <2>3
  <2>6. ASSUME NEW t \in Tenants, NEW h \in Hashes, RegisterFunction(c, e, t, h) PROVE AudienceInv'
    <3> DEFINE r == [NoCall EXCEPT !.at = "insert", !.engine = e, !.tenant = t, !.hash = h]
    <3>1. Becomes(c, r) /\ call[c] = NoCall /\ UNCHANGED <<diskVars, store>> /\ excused \subseteq excused'
        BY <2>6 DEF RegisterFunction, Excuse, Idle
    <3>2. r.at \notin Naming
        BY DEF NoCall, Naming
    <3> HIDE DEF r
    <3> QED BY <3>1, <3>2, <2>3
  <2> QED BY <1>5, <2>2, <2>4, <2>5, <2>6 DEF Ask
<1>6. ASSUME NEW c \in Calls, Step(c) PROVE AudienceInv'
  <2>1. ASSUME NEW r, r.at \notin Naming, call[c].at \notin Naming, Becomes(c, r), published' = published,
               excused \subseteq excused',
               \A e \in Engines : store'[e].audiences = store[e].audiences
        PROVE  AudienceInv'
    <3>1. call' = [call EXCEPT ![c] = r] /\ up' = up
        BY <2>1 DEF Becomes, vars
    <3>2. \A d \in Calls : call'[d] = call[d] \/ (call[d].at \notin Naming /\ call'[d].at \notin Naming)
        BY <1>0, <2>1, <3>1
    <3> QED BY <2>1, <3>1, <3>2, AudienceFrame
  <2>2. ASSUME NEW to \in Stages \ Naming, call[c].at \notin Naming, Goes(c, to), published' = published,
               excused \subseteq excused',
               \A e \in Engines : store'[e].audiences = store[e].audiences
        PROVE  AudienceInv'
    <3> DEFINE r == IF to = "idle" THEN NoCall ELSE [call[c] EXCEPT !.at = to]
    <3>1. r.at \notin Naming
      <4>1. CASE to = "idle"
          BY <4>1, <1>b DEF Naming
      <4>2. CASE to # "idle"
          BY <4>2, <1>0 DEF CallRecord
      <4> QED BY <4>1, <4>2
    <3>2. Becomes(c, r)
        BY <2>2 DEF Goes
    <3> HIDE DEF r
    <3> QED BY <2>1, <2>2, <3>1, <3>2
  <2>3. CASE Bundle(c)
    <3> DEFINE k == call[c].contract
               f == Mem(c).registry
               m == IF f # None /\ f.hash = k.pin THEN Mem(c).modules[f.owner] ELSE None
               r == [call[c] EXCEPT !.at = "file", !.contract.bundle = {m} \ {None}]
    <3>1. Becomes(c, r) /\ UNCHANGED <<diskVars, store, excused>> /\ call[c].at = "bundle"
        BY <2>3 DEF Bundle
    <3>2. r.at = "file"
        BY <1>0 DEF CallRecord
    <3> HIDE DEF r
    <3> QED BY <2>1, <3>1, <3>2 DEF diskVars, Naming
  <2>4. CASE Take(c) \/ PutFile(c) \/ TruncateModule(c) \/ WriteModule(c) \/ TruncateRecord(c)
             \/ WriteRecord(c)
    <3>1. PICK to \in {"file", "idle", "unstale", "module2", "record", "record2"} : Goes(c, to)
        BY <2>4 DEF Take, PutFile, TruncateModule, WriteModule, TruncateRecord, WriteRecord
    <3>2. to \in Stages \ Naming
        BY DEF Stages, Naming
    <3>3. UNCHANGED <<published, store, excused>> /\ call[c].at \notin Naming
        BY <2>4 DEF Take, PutFile, TruncateModule, WriteModule, TruncateRecord, WriteRecord, diskVars, Naming
    <3> QED BY <2>2, <3>1, <3>2, <3>3
  <2>5. ASSUME NEW to \in Stages \ Naming, call[c].at \notin Naming \cup {"idle"}, Goes(c, to), NEW m,
               m.audiences = Mem(c).audiences, Holds(c, m)
        PROVE  AudienceInv'
    <3>1. store' = [store EXCEPT ![call[c].engine] = m] /\ UNCHANGED <<diskVars, excused>>
        BY <2>5 DEF Holds
    <3>2. \A e \in Engines : store'[e].audiences = store[e].audiences
        BY <1>0, <2>5, <3>1 DEF Mem
    <3> QED BY <2>2, <2>5, <3>1, <3>2 DEF diskVars
  <2>m. call[c].at # "idle" => Mem(c) \in Memory
      BY <1>0 DEF CallInv, Mem
  <2>6. CASE Unstale(c)
    <3> DEFINE m == [Mem(c) EXCEPT !.stale = @ \ {call[c].version}]
    <3>1. Holds(c, m) /\ Goes(c, "serve") /\ call[c].at = "unstale"
        BY <2>6 DEF Unstale
    <3>2. m.audiences = Mem(c).audiences
        BY <2>m, <3>1 DEF Memory
    <3> HIDE DEF m
    <3> QED BY <2>5, <3>1, <3>2 DEF Stages, Naming
  <2>7. CASE Serve(c)
    <3> DEFINE m == [Mem(c) EXCEPT !.versions[call[c].version] = call[c].contract]
    <3>1. Holds(c, m) /\ Goes(c, "idle") /\ call[c].at = "serve"
        BY <2>7 DEF Serve
    <3>2. m.audiences = Mem(c).audiences
        BY <2>m, <3>1 DEF Memory
    <3> HIDE DEF m
    <3> QED BY <2>5, <3>1, <3>2 DEF Stages, Naming
  <2>8. CASE Insert(c)
    <3> DEFINE m == [Mem(c) EXCEPT !.registry = [owner |-> call[c].tenant, hash |-> call[c].hash]]
    <3>1. Holds(c, m) /\ Goes(c, "push") /\ call[c].at = "insert"
        BY <2>8 DEF Insert
    <3>2. m.audiences = Mem(c).audiences
        BY <2>m, <3>1 DEF Memory
    <3> HIDE DEF m
    <3> QED BY <2>5, <3>1, <3>2 DEF Stages, Naming
  <2>9. CASE Push(c)
    <3> DEFINE m == [Mem(c) EXCEPT !.modules[call[c].tenant] = call[c].hash]
               to == IF call[c].contract = None THEN "module" ELSE "take"
    <3>1. Holds(c, m) /\ Goes(c, to) /\ call[c].at = "push"
        BY <2>9 DEF Push
    <3>2. m.audiences = Mem(c).audiences
        BY <2>m, <3>1 DEF Memory
    <3>3. to \in Stages \ Naming
        BY DEF Stages, Naming
    <3> HIDE DEF m, to
    <3> QED BY <2>5, <3>1, <3>2, <3>3 DEF Stages, Naming
  <2>10. CASE TruncateNames(c)
    <3> SUFFICES ASSUME "audiences" \notin excused' PROVE AudienceInv'
        BY DEF AudienceInv
    <3> DEFINE r == [call[c] EXCEPT !.at = "names2", !.names = Mem(c).audiences]
    <3>1. call' = [call EXCEPT ![c] = r] /\ UNCHANGED <<store, excused, up>> /\ call[c].at = "names"
          /\ published' = Truncated
        BY <2>10 DEF TruncateNames, Becomes, vars
    <3>2. r.at = "names2" /\ r.names = store[call[c].engine].audiences /\ r.engine = call[c].engine
        BY <1>0 DEF CallRecord, Mem
    <3> HIDE DEF r
    <3>3. call'[c] = r /\ \A d \in Calls \ {c} : call'[d] = call[d] /\ call[d].at \notin Naming
        BY <1>0, <3>1 DEF AudienceInv, Naming
    <3> QED BY <3>1, <3>2, <3>3 DEF AudienceInv, Naming
  <2>11. CASE WriteNames(c)
    <3> SUFFICES ASSUME "audiences" \notin excused' PROVE AudienceInv'
        BY DEF AudienceInv
    <3>1. call' = [call EXCEPT ![c] = NoCall] /\ UNCHANGED <<store, excused, up>> /\ call[c].at = "names2"
          /\ published' \in Over(published, call[c].names)
        BY <2>11 DEF WriteNames, Goes, Becomes, vars
    <3>2. published = Truncated /\ call[c].names = store[call[c].engine].audiences
        BY <3>1 DEF AudienceInv
    <3>3. published' = call[c].names /\ call[c].names \in SUBSET Tenants
        BY <1>0, <3>1, <3>2 DEF Over, CallRecord
    <3>4. published' \notin {None, Truncated, Mixed}
        BY <3>3, BrokenAssumption
    <3>5. \A d \in Calls : call'[d].at \notin Naming
        BY <1>0, <1>b, <3>1 DEF AudienceInv, Naming
    <3>6. \A e \in up : e = call[c].engine
        BY <1>0, <3>1 DEF OneEngine, CallInv
    <3> QED BY <3>1, <3>2, <3>3, <3>4, <3>5, <3>6 DEF AudienceInv, LoadedAudiences, Naming
  <2>12. CASE WriteFails(c)
    <3>1. CASE call[c].at \in Naming
        BY <2>12, <3>1 DEF WriteFails, Excuse, AudienceInv, Naming
    <3>2. CASE call[c].at \notin Naming
        BY <2>12, <3>2, <2>2 DEF WriteFails, Excuse, diskVars, Stages, Naming
    <3> QED BY <3>1, <3>2
  <2> QED BY <1>6, <2>3, <2>4, <2>6, <2>7, <2>8, <2>9, <2>10, <2>11, <2>12 DEF Step
<1> QED BY <1>1, <1>2, <1>3, <1>4, <1>5, <1>6 DEF WNext

(***************************************************************************)
(* The function store.  While no two registrations overlap and none fails, *)
(* one call at a time replaces a function, every recorded function is the  *)
(* registry's and its owner's, and its files agree outside that call.      *)
(***************************************************************************)
Storing  == {"module", "module2", "record", "record2"}
Bringing == {"insert", "push"} \cup Storing

\* What a call that brings a function has done so far.
Brought(r) ==
    /\ r.at = "insert" /\ store[r.engine].registry # None =>
          store[r.engine].registry.owner = r.tenant
    /\ r.at \in {"push"} \cup Storing =>
          store[r.engine].registry = [owner |-> r.tenant, hash |-> r.hash]
    /\ r.at = "module2" => module[r.tenant] = Truncated
    /\ r.at \in {"record", "record2"} => module[r.tenant] = r.hash
    /\ r.at = "record2" => record[r.tenant] = Truncated

FunctionInv == "functions" \notin excused =>
    /\ \A c, d \in Calls : call[c].tenant # None /\ call[d].tenant # None => c = d
    /\ \A t, u \in Recorded : t = u
    /\ \A e \in up, t \in Recorded : store[e].registry # None /\ store[e].registry.owner = t
    /\ \A c \in Calls : Brought(call[c])
    /\ \A t \in Recorded : (\A c \in Saving : call[c].tenant # t) =>
          record[t] \in Hashes /\ module[t] = record[t]

\* Memory holds the function that is on disk.
Kept(e) ==
    /\ Recorded = {} => store[e].registry = None
    /\ \A t \in Recorded : store[e].registry = [owner |-> t, hash |-> record[t]]
    /\ \A t \in Tenants : store[e].modules[t] = IF t \in Recorded THEN module[t] ELSE None

\* As long as no function came with a compiled contract.
KeptInv == excused \cap {"functions", "adopted"} = {} =>
    /\ \A c \in Calls : call[c].tenant # None => call[c].contract = None /\ call[c].at \in Bringing
    /\ \A e \in up : (\A c \in Calls : call[c].at \notin {"push"} \cup Storing) => Kept(e)
    /\ \A c \in Calls : call[c].at \in {"push"} \cup Storing =>
          \A t \in Tenants \ {call[c].tenant} : store[call[c].engine].modules[t] = None
    /\ \A c \in Calls : call[c].at \in Storing =>
          store[call[c].engine].modules[call[c].tenant] = call[c].hash

\* A step that changes no function, in memory or on disk, and no call that brings one.
LEMMA FunctionFrame ==
    ASSUME FunctionInv, KeptInv, WType, up' = up, module' = module, record' = record,
           excused \subseteq excused',
           \A e \in Engines : /\ store'[e].registry = store[e].registry
                              /\ store'[e].modules = store[e].modules,
           \A c \in Calls :
              \/ call'[c] = call[c]
              \/ /\ call[c].at \notin Bringing /\ call'[c].at \notin Bringing
                 /\ call'[c].tenant \in {None, call[c].tenant}
    PROVE  FunctionInv' /\ KeptInv'
<1>0. up \subseteq Engines /\ \A c \in Calls : call[c].at # "idle" => call[c].engine \in Engines
    BY DEF WType, TypeOK, CallsInv, CallInv
<1>1. \A c \in Calls : call'[c].at \in Bringing \/ call[c].at \in Bringing => call'[c] = call[c]
    OBVIOUS
<1>2. Recorded' = Recorded
    BY DEF Recorded
<1>3. Saving' = Saving /\ \A c \in Saving : call'[c] = call[c]
    BY <1>1 DEF Saving, Bringing, Storing
<1>4. ASSUME "functions" \notin excused' PROVE FunctionInv'
  <2>0. "functions" \notin excused
      BY <1>4
  <2>1. \A c, d \in Calls : call'[c].tenant # None /\ call'[d].tenant # None => c = d
      BY <2>0 DEF FunctionInv
  <2>2. \A e \in up', t \in Recorded' : store'[e].registry # None /\ store'[e].registry.owner = t
      BY <1>0, <1>2, <2>0 DEF FunctionInv
  <2>3. ASSUME NEW c \in Calls PROVE Brought(call[c])'
    <3>1. CASE call'[c].at \notin Bringing
        BY <3>1 DEF Brought, Bringing, Storing
    <3>2. CASE call'[c].at \in Bringing
      <4>1. call'[c] = call[c] /\ call[c].engine \in Engines
          BY <1>0, <1>1, <3>2 DEF Bringing, Storing
      <4>2. store'[call[c].engine].registry = store[call[c].engine].registry
          BY <4>1
      <4>3. Brought(call[c])
          BY <2>0 DEF FunctionInv
      <4> QED BY <4>1, <4>2, <4>3 DEF Brought
    <3> QED BY <3>1, <3>2
  <2>4. \A t \in Recorded' : (\A c \in Saving' : call'[c].tenant # t) =>
            record'[t] \in Hashes /\ module'[t] = record'[t]
      BY <1>2, <1>3, <2>0 DEF FunctionInv
  <2>5. \A t, u \in Recorded' : t = u
      BY <1>2, <2>0 DEF FunctionInv
  <2> QED BY <2>1, <2>2, <2>3, <2>4, <2>5 DEF FunctionInv
<1>5. ASSUME excused' \cap {"functions", "adopted"} = {} PROVE KeptInv'
  <2>0. excused \cap {"functions", "adopted"} = {}
      BY <1>5
  <2>1. \A c \in Calls : call'[c].tenant # None => call'[c].contract = None /\ call'[c].at \in Bringing
      BY <2>0 DEF KeptInv
  <2>2. \A e \in up' : Kept(e) => Kept(e)'
      BY <1>0, <1>2 DEF Kept
  <2>3. \A e \in up' : (\A c \in Calls : call'[c].at \notin {"push"} \cup Storing) => Kept(e)'
      BY <1>1, <2>0, <2>2 DEF KeptInv, Bringing, Storing
  <2>4. \A c \in Calls : call'[c].at \in {"push"} \cup Storing =>
            \A t \in Tenants \ {call'[c].tenant} : store'[call'[c].engine].modules[t] = None
      BY <1>0, <1>1, <2>0 DEF KeptInv, Bringing, Storing
  <2>5. \A c \in Calls : call'[c].at \in Storing =>
            store'[call'[c].engine].modules[call'[c].tenant] = call'[c].hash
      BY <1>0, <1>1, <2>0 DEF KeptInv, Bringing, Storing
  <2> QED BY <2>1, <2>3, <2>4, <2>5 DEF KeptInv
<1> QED BY <1>4, <1>5 DEF FunctionInv, KeptInv

\* The call that brings a function is the only one that has a tenant, and its engine is
\* the one that is open.
LEMMA OnlyLoad ==
    ASSUME OneEngine, FunctionInv, WType, "functions" \notin excused,
           NEW c \in Calls, call[c].at \in Bringing
    PROVE  /\ up = {call[c].engine} /\ call[c].engine \in Engines
           /\ call[c].tenant \in Tenants /\ call[c].hash \in Hashes /\ call[c].tenant # None
           /\ \A d \in Calls \ {c} : call[d].tenant = None /\ call[d].at \notin Bringing
<1>1. \A d \in Calls : call[d].at \in Bringing =>
          call[d].tenant \in Tenants /\ call[d].hash \in Hashes /\ call[d].engine \in up
    BY DEF WType, CallsInv, CallInv, Brings, Bringing, Storing
<1>2. up \subseteq Engines /\ None \notin Tenants
    BY NamesAssumption DEF WType, TypeOK
<1>3. up = {call[c].engine}
    BY <1>1, <1>2 DEF OneEngine
<1> QED BY <1>1, <1>2, <1>3 DEF FunctionInv

\* The same, when it goes on.
LEMMA LoadGoesOn ==
    ASSUME WType, NEW c \in Calls, NEW to \in Stages \ {"idle"}, Goes(c, to)
    PROVE  /\ up' = up /\ parcel' = parcel
           /\ call'[c].at = to /\ call'[c].tenant = call[c].tenant /\ call'[c].hash = call[c].hash
           /\ call'[c].engine = call[c].engine /\ call'[c].contract = call[c].contract
           /\ \A d \in Calls \ {c} : call'[d] = call[d]
<1>1. call \in [Calls -> CallRecord]
    BY DEF WType, CallsInv
<1>2. call' = [call EXCEPT ![c] = [call[c] EXCEPT !.at = to]] /\ UNCHANGED <<vars, parcel>>
    BY DEF Goes, Becomes
<1>3. call'[c] = [call[c] EXCEPT !.at = to] /\ \A d \in Calls \ {c} : call'[d] = call[d]
    BY <1>1, <1>2
<1> QED BY <1>1, <1>2, <1>3 DEF CallRecord, vars

\* Each step of FunctionStore::load and register, in the only call that makes one.
LEMMA LoadStep ==
    ASSUME OneEngine, FunctionInv, KeptInv, WType, NEW c \in Calls,
           Insert(c) \/ Push(c) \/ TruncateModule(c) \/ WriteModule(c) \/ TruncateRecord(c)
               \/ WriteRecord(c)
    PROVE  FunctionInv' /\ KeptInv'
<1> DEFINE e == call[c].engine
           t == call[c].tenant
           h == call[c].hash
<1>0. /\ store \in [Engines -> Memory] /\ call \in [Calls -> CallRecord]
      /\ module \in [Tenants -> Files] /\ record \in [Tenants -> Files]
    BY DEF WType, CallsInv, StoreTypeOK, Memory, Files
<1>1. excused' = excused /\ call[c].at \in Bringing
    BY DEF Insert, Push, TruncateModule, WriteModule, TruncateRecord, WriteRecord, Holds, Bringing, Storing
<1> SUFFICES ASSUME "functions" \notin excused PROVE FunctionInv' /\ KeptInv'
    BY <1>1 DEF FunctionInv, KeptInv
<1>2. /\ up = {e} /\ e \in Engines /\ t \in Tenants /\ h \in Hashes /\ t # None
      /\ \A d \in Calls \ {c} : call[d].tenant = None /\ call[d].at \notin Bringing
    BY <1>1, OnlyLoad
<1>3. h \notin {None, Truncated, Mixed} /\ None # Truncated
    BY <1>2, BrokenAssumption
<1>4. /\ \A u \in Recorded : store[e].registry # None /\ store[e].registry.owner = u
      /\ Brought(call[c])
      /\ \A u \in Recorded : (\A d \in Saving : call[d].tenant # u) =>
            record[u] \in Hashes /\ module[u] = record[u]
    BY <1>2 DEF FunctionInv
<1>5. \A u \in Recorded : u = store[e].registry.owner
    BY <1>4
<1>6. Mem(c) = store[e] /\ store[e] \in Memory
    BY <1>0, <1>2 DEF Mem
<1>k. ASSUME "adopted" \notin excused
      PROVE  /\ call[c].contract = None
             /\ call[c].at \notin {"push"} \cup Storing => Kept(e)
             /\ call[c].at \in {"push"} \cup Storing =>
                   \A u \in Tenants \ {t} : store[e].modules[u] = None
             /\ call[c].at \in Storing => store[e].modules[t] = h
  <2>1. excused \cap {"functions", "adopted"} = {}
      BY <1>k
  <2>2. \A d \in Calls \ {c} : call[d].at \notin {"push"} \cup Storing
      BY <1>2 DEF Bringing
  <2> QED BY <1>2, <2>1, <2>2 DEF KeptInv
\* What remains to be shown of a step that leaves c at `call'[c]'.
<1>f. ASSUME up' = up, call'[c].engine = e, \A d \in Calls \ {c} : call'[d] = call[d],
             \A u \in Recorded' : store'[e].registry # None /\ store'[e].registry.owner = u,
             Brought(call[c])',
             \A u \in Recorded' : u # t \/ call'[c].at \notin {"module2", "record", "record2"} =>
                 record'[u] \in Hashes /\ module'[u] = record'[u],
             call'[c].tenant = t
      PROVE  FunctionInv'
  <2>1. \A d \in Calls \ {c} : call'[d].tenant = None /\ call'[d].at \notin Bringing
      BY <1>2, <1>f
  <2>2. \A d \in Calls : Brought(call[d])'
      BY <2>1, <1>f DEF Brought, Bringing, Storing
  <2>3. Saving' = IF call'[c].at \in {"module2", "record", "record2"} THEN {c} ELSE {}
      BY <2>1 DEF Saving, Bringing, Storing
  <2>4. \A u \in Recorded' : (\A d \in Saving' : call'[d].tenant # u) =>
            record'[u] \in Hashes /\ module'[u] = record'[u]
      BY <2>3, <1>f
  <2>5. \A u, v \in Recorded' : u = v
      BY <1>f
  <2>6. \A d, f \in Calls : call'[d].tenant # None /\ call'[f].tenant # None => d = f
      BY <2>1
  <2> QED BY <1>2, <1>f, <2>2, <2>4, <2>5, <2>6 DEF FunctionInv
<1>g. ASSUME up' = up, call'[c].engine = e, \A d \in Calls \ {c} : call'[d] = call[d],
             call'[c].contract = None, call'[c].at \in {"push"} \cup Storing, call'[c].hash = h,
             \A u \in Tenants \ {t} : store'[e].modules[u] = None,
             call'[c].at \in Storing => store'[e].modules[t] = h,
             call'[c].tenant = t
      PROVE  KeptInv'
  <2>1. \A d \in Calls \ {c} : call'[d].tenant = None /\ call'[d].at \notin {"push"} \cup Storing
      BY <1>2, <1>g DEF Bringing
  <2> QED BY <2>1, <1>g DEF KeptInv, Bringing
<1>h. "adopted" \in excused => KeptInv'
    BY <1>1 DEF KeptInv
<1>7. CASE Insert(c)
  <2> DEFINE n == [owner |-> t, hash |-> h]
             m == [store[e] EXCEPT !.registry = n]
  <2>1. call[c].at = "insert" /\ store' = [store EXCEPT ![e] = m] /\ UNCHANGED diskVars /\ Goes(c, "push")
      BY <1>7, <1>6 DEF Insert, Holds
  <2>2. m.registry = n /\ m.modules = store[e].modules /\ n.owner = t
      BY <1>6 DEF Memory
  <2>3. n # None
      BY <1>2, NoneAssumption DEF Entry
  <2> HIDE DEF m, n
  <2>4. store'[e] = m
      BY <1>0, <1>2, <2>1
  <2>5. /\ up' = up /\ call'[c].at = "push" /\ call'[c].tenant = t /\ call'[c].hash = h
        /\ call'[c].engine = e /\ call'[c].contract = call[c].contract
        /\ \A d \in Calls \ {c} : call'[d] = call[d]
      BY <2>1, LoadGoesOn DEF Stages
  <2>6. Recorded' = Recorded /\ module' = module /\ record' = record
      BY <2>1 DEF Recorded, diskVars
  <2>7. \A u \in Recorded : u = t
      BY <1>4, <1>5, <2>1 DEF Brought
  <2>8. Brought(call[c])'
      BY <2>2, <2>4, <2>5 DEF Brought, Storing, n
  <2>9. Saving = {}
      BY <1>2, <2>1 DEF Saving, Bringing, Storing
  <2>10. FunctionInv'
      BY <1>f, <1>4, <2>2, <2>3, <2>4, <2>5, <2>6, <2>7, <2>8, <2>9
  <2>11. ASSUME "adopted" \notin excused PROVE KeptInv'
    <3>1. Kept(e) /\ call[c].contract = None
        BY <1>k, <2>1, <2>11 DEF Storing
    <3>2. \A u \in Tenants \ {t} : store'[e].modules[u] = None
        BY <2>2, <2>4, <2>7, <3>1 DEF Kept
    <3> QED BY <1>g, <2>5, <3>1, <3>2 DEF Storing
  <2> QED BY <1>h, <2>10, <2>11
<1>8. CASE Push(c)
  <2> DEFINE m == [store[e] EXCEPT !.modules[t] = h]
             to == IF call[c].contract = None THEN "module" ELSE "take"
  <2>1. call[c].at = "push" /\ store' = [store EXCEPT ![e] = m] /\ UNCHANGED diskVars /\ Goes(c, to)
      BY <1>8, <1>6 DEF Push, Holds
  <2>2. /\ m.registry = store[e].registry /\ m.modules[t] = h
        /\ \A u \in Tenants \ {t} : m.modules[u] = store[e].modules[u]
      BY <1>2, <1>6 DEF Memory
  <2>3. to \in Stages \ {"idle"} /\ to \notin {"module2", "record", "record2", "insert"}
        /\ (call[c].contract = None => to = "module") /\ to \in {"module", "take"}
      BY DEF Stages
  <2> HIDE DEF m, to
  <2>4. store'[e] = m
      BY <1>0, <1>2, <2>1
  <2>5. /\ up' = up /\ call'[c].at = to /\ call'[c].tenant = t /\ call'[c].hash = h
        /\ call'[c].engine = e /\ call'[c].contract = call[c].contract
        /\ \A d \in Calls \ {c} : call'[d] = call[d]
      BY <2>1, <2>3, LoadGoesOn
  <2>6. Recorded' = Recorded /\ module' = module /\ record' = record
      BY <2>1 DEF Recorded, diskVars
  <2>7. Brought(call[c])'
      BY <1>4, <2>1, <2>2, <2>3, <2>4, <2>5 DEF Brought, Storing
  <2>8. Saving = {}
      BY <1>2, <2>1 DEF Saving, Bringing, Storing
  <2>9. FunctionInv'
      BY <1>f, <1>4, <2>2, <2>3, <2>4, <2>5, <2>6, <2>7, <2>8
  <2>10. ASSUME "adopted" \notin excused PROVE KeptInv'
    <3>1. call[c].contract = None /\ \A u \in Tenants \ {t} : store[e].modules[u] = None
        BY <1>k, <2>1, <2>10
    <3> QED BY <1>g, <2>2, <2>3, <2>4, <2>5, <3>1 DEF Storing
  <2> QED BY <1>h, <2>9, <2>10
\* A step that writes one of the two files.
<1>w. ASSUME NEW to \in Storing, Goes(c, to), store' = store, call[c].at \in Storing
      PROVE  /\ up' = up /\ call'[c].at = to /\ call'[c].tenant = t /\ call'[c].hash = h
             /\ call'[c].engine = e /\ call'[c].contract = call[c].contract
             /\ \A d \in Calls \ {c} : call'[d] = call[d]
             /\ KeptInv'
  <2>0. to \in Stages \ {"idle"}
      BY DEF Stages, Storing
  <2>1. /\ up' = up /\ call'[c].at = to /\ call'[c].tenant = t /\ call'[c].hash = h
        /\ call'[c].engine = e /\ call'[c].contract = call[c].contract
        /\ \A d \in Calls \ {c} : call'[d] = call[d]
      BY <1>w, <2>0, LoadGoesOn
  <2>2. ASSUME "adopted" \notin excused PROVE KeptInv'
      BY <1>g, <1>k, <1>w, <2>1, <2>2
  <2> QED BY <1>h, <2>1, <2>2
<1>9. CASE TruncateModule(c)
  <2>1. /\ call[c].at = "module" /\ module' = [module EXCEPT ![t] = Truncated] /\ record' = record
        /\ store' = store /\ Goes(c, "module2")
      BY <1>9 DEF TruncateModule
  <2>2. /\ up' = up /\ call'[c].at = "module2" /\ call'[c].tenant = t /\ call'[c].hash = h
        /\ call'[c].engine = e /\ \A d \in Calls \ {c} : call'[d] = call[d]
        /\ KeptInv'
      BY <1>w, <2>1 DEF Storing
  <2>3. Recorded' = Recorded /\ module'[t] = Truncated /\ \A u \in Tenants \ {t} : module'[u] = module[u]
      BY <1>0, <1>2, <2>1 DEF Recorded
  <2>4. Brought(call[c])'
      BY <1>4, <2>1, <2>2, <2>3 DEF Brought, Storing
  <2>5. Saving = {} /\ Recorded \subseteq Tenants
      BY <1>2, <2>1 DEF Saving, Bringing, Storing, Recorded
  <2> QED BY <1>f, <1>4, <2>1, <2>2, <2>3, <2>4, <2>5
<1>10. CASE WriteModule(c)
  <2>1. /\ call[c].at = "module2" /\ record' = record /\ store' = store /\ Goes(c, "record")
        /\ \E x \in Over(module[t], h) : module' = [module EXCEPT ![t] = x]
      BY <1>10 DEF WriteModule
  <2>2. /\ up' = up /\ call'[c].at = "record" /\ call'[c].tenant = t /\ call'[c].hash = h
        /\ call'[c].engine = e /\ \A d \in Calls \ {c} : call'[d] = call[d]
        /\ KeptInv'
      BY <1>w, <2>1 DEF Storing
  <2>3. Over(module[t], h) = {h}
      BY <1>4, <2>1 DEF Brought, Over
  <2>4. module' = [module EXCEPT ![t] = h]
      BY <2>1, <2>3
  <2>5. Recorded' = Recorded /\ module'[t] = h /\ \A u \in Tenants \ {t} : module'[u] = module[u]
      BY <1>0, <1>2, <2>1, <2>4 DEF Recorded
  <2>6. Brought(call[c])'
      BY <1>4, <2>1, <2>2, <2>5 DEF Brought, Storing
  <2>7. Saving = {c} /\ Recorded \subseteq Tenants
      BY <1>2, <2>1 DEF Saving, Bringing, Storing, Recorded
  <2> QED BY <1>f, <1>4, <2>1, <2>2, <2>5, <2>6, <2>7
<1>11. CASE TruncateRecord(c)
  <2>1. /\ call[c].at = "record" /\ record' = [record EXCEPT ![t] = Truncated] /\ module' = module
        /\ store' = store /\ Goes(c, "record2")
      BY <1>11 DEF TruncateRecord
  <2>2. /\ up' = up /\ call'[c].at = "record2" /\ call'[c].tenant = t /\ call'[c].hash = h
        /\ call'[c].engine = e /\ \A d \in Calls \ {c} : call'[d] = call[d]
        /\ KeptInv'
      BY <1>w, <2>1 DEF Storing
  <2>3. record'[t] = Truncated /\ \A u \in Tenants \ {t} : record'[u] = record[u]
      BY <1>0, <1>2, <2>1
  <2>4. Recorded' \subseteq Recorded \cup {t} /\ \A u \in Recorded' : u \in Tenants
      BY <2>3 DEF Recorded
  <2>5. store[e].registry # None /\ store[e].registry.owner = t
    <3>1. store[e].registry = [owner |-> t, hash |-> h]
        BY <1>4, <2>1 DEF Brought, Storing
    <3> QED BY <1>2, <3>1, NoneAssumption DEF Entry
  <2>6. Brought(call[c])'
      BY <1>4, <2>1, <2>2, <2>3 DEF Brought, Storing
  <2>7. \A u \in Recorded' : u = t
      BY <1>5, <2>4, <2>5
  <2> QED BY <1>f, <2>1, <2>2, <2>5, <2>6, <2>7
<1>12. CASE WriteRecord(c)
  <2>1. /\ call[c].at = "record2" /\ module' = module /\ store' = store
        /\ call' = [call EXCEPT ![c] = NoCall] /\ up' = up
        /\ \E x \in Over(record[t], h) : record' = [record EXCEPT ![t] = x]
      BY <1>12 DEF WriteRecord, Goes, Becomes, vars
  <2>2. Over(record[t], h) = {h}
      BY <1>4, <2>1 DEF Brought, Over
  <2>3. record' = [record EXCEPT ![t] = h]
      BY <2>1, <2>2
  <2>4. record'[t] = h /\ \A u \in Tenants \ {t} : record'[u] = record[u]
      BY <1>0, <1>2, <2>3
  <2>5. store[e].registry = [owner |-> t, hash |-> h] /\ module[t] = h
      BY <1>4, <2>1 DEF Brought, Storing
  <2>6. store[e].registry # None /\ store[e].registry.owner = t
      BY <1>2, <2>5, NoneAssumption DEF Entry
  <2>7. Recorded' = {t}
      BY <1>2, <1>3, <1>5, <2>4, <2>6 DEF Recorded
  <2>8. \A d \in Calls : call'[d].tenant = None /\ call'[d].at \notin Bringing
    <3>1. NoCall.tenant = None /\ NoCall.at \notin Bringing
        BY DEF NoCall, Bringing, Storing
    <3> QED BY <1>0, <1>2, <2>1, <3>1
  <2>9. FunctionInv'
      BY <1>2, <2>1, <2>4, <2>5, <2>6, <2>7, <2>8, ZenonT(30) DEF FunctionInv, Brought, Bringing, Storing
  <2>10. ASSUME "adopted" \notin excused PROVE KeptInv'
    <3>1. store[e].modules[t] = h /\ \A u \in Tenants \ {t} : store[e].modules[u] = None
        BY <1>k, <2>1, <2>10 DEF Storing
    <3>2. ASSUME NEW f \in up PROVE Kept(f)'
        BY <1>2, <2>1, <2>4, <2>5, <2>7, <3>1, <3>2 DEF Kept
    <3> QED BY <1>2, <2>1, <2>8, <3>2 DEF KeptInv, Bringing
  <2> QED BY <1>h, <2>9, <2>10
<1> QED BY <1>7, <1>8, <1>9, <1>10, <1>11, <1>12

\* A call that begins to bring a function begins alone, and of the tenant that has the
\* name (FunctionStore::load).
LEMMA LoadBegins ==
    ASSUME OneEngine, FunctionInv, WType, NEW c \in Calls, NEW e \in Engines, Idle(c, e),
           NEW r \in CallRecord, Becomes(c, r), r.at = "insert", r.engine = e,
           store[e].registry # None => store[e].registry.owner = r.tenant,
           UNCHANGED <<diskVars, store>>, excused \subseteq excused',
           Loading # {} => "functions" \in excused'
    PROVE  /\ FunctionInv'
           /\ KeptInv /\ r.contract = None /\ r.tenant # None => KeptInv'
<1>0. call \in [Calls -> CallRecord] /\ up = {e} /\ NoCall.tenant = None /\ call[c] = NoCall
      /\ NoCall.at \notin Bringing
    BY DEF WType, CallsInv, TypeOK, OneEngine, Idle, NoCall, Bringing, Storing
<1>1. /\ call' = [call EXCEPT ![c] = r] /\ up' = up /\ module' = module /\ record' = record
      /\ store' = store /\ Recorded' = Recorded
    BY DEF Becomes, vars, diskVars, Recorded
<1>2. call'[c] = r /\ \A d \in Calls \ {c} : call'[d] = call[d]
    BY <1>0, <1>1
<1> SUFFICES ASSUME "functions" \notin excused'
             PROVE  /\ FunctionInv'
                    /\ KeptInv /\ r.contract = None /\ r.tenant # None => KeptInv'
    BY DEF FunctionInv, KeptInv
<1>3. \A d \in Calls : call[d].tenant = None
    BY DEF Loading
<1>4. \A d \in Calls : call[d].at \notin Bringing
    BY <1>3, NamesAssumption DEF WType, CallsInv, CallInv, Brings, Bringing, Storing
<1>5. FunctionInv'
  <2>1. \A d, f \in Calls : call'[d].tenant # None /\ call'[f].tenant # None => d = f
      BY <1>2, <1>3
  <2>2. \A d \in Calls : Brought(call[d])'
      BY <1>1, <1>2, <1>4 DEF Brought, Bringing, Storing
  <2>3. Saving' = {} /\ Saving = {}
      BY <1>2, <1>4 DEF Saving, Bringing, Storing
  <2>4. "functions" \notin excused
      OBVIOUS
  <2> QED BY <1>1, <2>1, <2>2, <2>3, <2>4 DEF FunctionInv
<1>6. ASSUME KeptInv, r.contract = None, r.tenant # None PROVE KeptInv'
  <2> SUFFICES ASSUME excused' \cap {"functions", "adopted"} = {} PROVE KeptInv'
      BY DEF KeptInv
  <2>1. \A f \in up : Kept(f)
      BY <1>4, <1>6 DEF KeptInv, Bringing
  <2>2. \A f \in up' : Kept(f)'
      BY <1>1, <2>1 DEF Kept
  <2>3. \A d \in Calls : call'[d].at \notin {"push"} \cup Storing
      BY <1>2, <1>4 DEF Bringing, Storing
  <2>4. \A d \in Calls : call'[d].tenant # None => call'[d].contract = None /\ call'[d].at \in Bringing
      BY <1>2, <1>3, <1>6 DEF Bringing
  <2> QED BY <2>2, <2>3, <2>4 DEF KeptInv
<1> QED BY <1>5, <1>6

\* FunctionStore::open loads what is recorded, and register and load keep the two alike.
LEMMA FunctionNext ==
    OneEngine /\ FunctionInv /\ KeptInv /\ WType /\ [WNext]_allVars => FunctionInv' /\ KeptInv'
<1> SUFFICES ASSUME OneEngine, FunctionInv, KeptInv, WType, [WNext]_allVars
             PROVE  FunctionInv' /\ KeptInv'
    OBVIOUS
<1>0. /\ up \subseteq Engines /\ store \in [Engines -> Memory] /\ call \in [Calls -> CallRecord]
      /\ \A c \in Calls : CallInv(call[c])
    BY DEF WType, TypeOK, CallsInv, StoreTypeOK, Memory
<1>b. NoCall.at = "idle" /\ NoCall.tenant = None /\ "idle" \notin Bringing
    BY DEF NoCall, Bringing, Storing
<1>n. ASSUME up = {} PROVE \A c \in Calls : call[c] = NoCall
    BY <1>n DEF WType, CallsInv, CallInv
<1>1. CASE UNCHANGED allVars \/ LedgerStep
  <2>1. up' = up /\ UNCHANGED storeVars
      BY <1>1 DEF allVars, vars, LedgerStep, Save, SaveFails, Answered, ChargeAll, SetLimit
  <2> QED BY <2>1, FunctionFrame DEF storeVars, diskVars
<1>2. ASSUME NEW e \in Engines, OpenWorkspace(e) PROVE FunctionInv' /\ KeptInv'
  <2>1. up = {} /\ up' = {e}
      BY <1>0, <1>2 DEF OneEngine, OpenWorkspace, Open
  <2>2. /\ UNCHANGED <<module, record, call, excused>>
        /\ store'[e].registry = LoadedRegistry /\ store'[e].modules = LoadedModules
        /\ \A t \in Recorded : record[t] \in Hashes /\ module[t] = record[t]
      BY <1>0, <1>2 DEF OpenWorkspace, diskVars, Opens
  <2>3. \A c \in Calls : call'[c] = NoCall
      BY <1>n, <2>1, <2>2
  <2>4. Recorded' = Recorded
      BY <2>2 DEF Recorded
  <2>5. ASSUME "functions" \notin excused, NEW t \in Recorded
        PROVE  LoadedRegistry = [owner |-> t, hash |-> record[t]] /\ LoadedRegistry # None
    <3>1. (CHOOSE u \in Recorded : TRUE) = t
        BY <2>5 DEF FunctionInv
    <3>2. LoadedRegistry = [owner |-> t, hash |-> record[t]]
        BY <3>1 DEF LoadedRegistry
    <3>3. t \in Tenants /\ record[t] \in Hashes
        BY <2>2 DEF Recorded
    <3> QED BY <3>2, <3>3, NoneAssumption DEF Entry
  <2>6. FunctionInv'
      BY <1>b, <2>1, <2>2, <2>3, <2>4, <2>5 DEF FunctionInv, Brought, Bringing, Storing
  <2>7. ASSUME "functions" \notin excused PROVE Kept(e)'
      BY <2>2, <2>4, <2>5, <2>7 DEF Kept, LoadedRegistry, LoadedModules
  <2>8. KeptInv'
      BY <1>b, <2>1, <2>2, <2>3, <2>7 DEF KeptInv, Bringing
  <2> QED BY <2>6, <2>8
<1>3. ASSUME NEW e \in Engines, StopWorkspace(e) PROVE FunctionInv' /\ KeptInv'
  <2>1. up' = {} /\ up = {e} /\ module' = module /\ record' = record /\ excused \subseteq excused'
      BY <1>0, <1>3 DEF OneEngine, StopWorkspace, Stop, diskVars
  <2>2. \A c \in Calls : call'[c] = NoCall
      BY <1>0, <1>3 DEF StopWorkspace, Stop, CallInv, OneEngine
  <2>3. ASSUME "functions" \notin excused' PROVE Saving = {}
      BY <1>0, <1>3, <2>1, <2>3 DEF StopWorkspace, Saving, CallInv
  <2>4. Recorded' = Recorded
      BY <2>1 DEF Recorded
  <2>5. FunctionInv'
      BY <1>b, <2>1, <2>2, <2>3, <2>4 DEF FunctionInv, Brought, Bringing, Storing
  <2>6. KeptInv'
      BY <1>b, <2>1, <2>2 DEF KeptInv, Bringing
  <2> QED BY <2>5, <2>6
<1>4. CASE Upgrade
  <2>1. up' = up /\ UNCHANGED <<module, record, store, call, excused>>
      BY <1>4 DEF Upgrade, vars, diskVars
  <2> QED BY <2>1, FunctionFrame
<1>5. ASSUME NEW c \in Calls, NEW e \in Engines, Ask(c, e) PROVE FunctionInv' /\ KeptInv'
  <2>1. ASSUME NEW r, r.at \notin Bringing, r.tenant = None, call[c] = NoCall, Becomes(c, r),
               UNCHANGED diskVars, excused \subseteq excused',
               \A f \in Engines : /\ store'[f].registry = store[f].registry
                                  /\ store'[f].modules = store[f].modules
        PROVE  FunctionInv' /\ KeptInv'
    <3>1. call' = [call EXCEPT ![c] = r] /\ module' = module /\ record' = record /\ up' = up
        BY <2>1 DEF Becomes, vars, diskVars
    <3>2. \A d \in Calls :
              \/ call'[d] = call[d]
              \/ /\ call[d].at \notin Bringing /\ call'[d].at \notin Bringing
                 /\ call'[d].tenant \in {None, call[d].tenant}
        BY <1>0, <1>b, <2>1, <3>1
    <3> QED BY <2>1, <3>1, <3>2, FunctionFrame
  <2>2. ASSUME NEW a \in Tenants, Publish(c, e, a) \/ Unpublish(c, e, a) PROVE FunctionInv' /\ KeptInv'
    <3>1. PICK A : Share(c, e, A)
        BY <2>2 DEF Publish, Unpublish
    <3> DEFINE r == [NoCall EXCEPT !.at = "names", !.engine = e]
    <3>2. /\ Becomes(c, r) /\ call[c] = NoCall /\ UNCHANGED diskVars /\ excused \subseteq excused'
          /\ store' = [store EXCEPT ![e].audiences = A]
        BY <3>1 DEF Share, Excuse, Idle
    <3>3. r.at \notin Bringing /\ r.tenant = None
        BY DEF NoCall, Bringing, Storing
    <3>4. \A f \in Engines : /\ store'[f].registry = store[f].registry
                             /\ store'[f].modules = store[f].modules
        BY <1>0, <3>2 DEF Memory
    <3> HIDE DEF r
    <3> QED BY <2>1, <3>2, <3>3, <3>4
  <2>3. ASSUME NEW v \in Versions, NEW d \in Docs, RegisterContract(c, e, v, d) PROVE FunctionInv' /\ KeptInv'
    <3> DEFINE k == [doc |-> d, parcel |-> parcel,
                     pin |-> IF d \in Uses THEN store[e].registry.hash ELSE None, bundle |-> {}]
               r == [NoCall EXCEPT !.at = "bundle", !.engine = e, !.version = v, !.contract = k]
    <3>1. Becomes(c, r) /\ call[c] = NoCall /\ UNCHANGED <<diskVars, store>> /\ excused \subseteq excused'
        BY <2>3 DEF RegisterContract, Excuse, Idle
    <3>2. r.at \notin Bringing /\ r.tenant = None
        BY DEF NoCall, Bringing, Storing
    <3> HIDE DEF r
    <3> QED BY <3>1, <3>2, <2>1
  <2>4. ASSUME NEW v \in Versions, NEW d \in Docs, NEW h \in Hashes, RegisterCompiled(c, e, v, d, h)
        PROVE  FunctionInv' /\ KeptInv'
    <3> DEFINE k == IF d \in Uses THEN [doc |-> d, parcel |-> parcel, pin |-> h, bundle |-> {h}]
                            ELSE [doc |-> d, parcel |-> parcel, pin |-> None, bundle |-> {}]
               r == [NoCall EXCEPT
                 !.at = IF d \in Uses THEN "insert" ELSE "take", !.engine = e, !.version = v,
                 !.contract = k, !.hash = k.pin, !.tenant = IF d \in Uses THEN Owner ELSE None]
    <3>1. /\ Becomes(c, r) /\ Idle(c, e) /\ UNCHANGED <<diskVars, store>> /\ excused \subseteq excused'
          /\ d \in Uses => /\ store[e].registry # None => store[e].registry.owner = Owner
                           /\ Loading # {} => "functions" \in excused'
                           /\ "adopted" \in excused'
        BY <2>4 DEF RegisterCompiled, Excuse
    <3>2. CASE d \notin Uses
      <4>1. r.at \notin Bringing /\ r.tenant = None
          BY <3>2 DEF NoCall, Bringing, Storing
      <4> HIDE DEF r
      <4> QED BY <3>1, <4>1, <2>1 DEF Idle
    <3>3. CASE d \in Uses
      <4>1. parcel \in Nat
          BY DEF WType, StoreTypeOK
      <4>2. k \in Contract /\ k.pin = h
          BY <3>3, <4>1 DEF Contract
      <4> HIDE DEF k
      <4>3. r.at = "insert" /\ r.tenant = Owner /\ r.engine = e /\ r \in CallRecord
          BY <3>3, <4>2, OwnerAssumption DEF NoCall, CallRecord, Stages
      <4> HIDE DEF r
      <4>4. FunctionInv'
          BY <3>1, <3>3, <4>3, LoadBegins
      <4> QED BY <3>1, <3>3, <4>4 DEF KeptInv
    <3> QED BY <3>2, <3>3
  <2>5. ASSUME NEW t \in Tenants, NEW h \in Hashes, RegisterFunction(c, e, t, h) PROVE FunctionInv' /\ KeptInv'
    <3> DEFINE r == [NoCall EXCEPT !.at = "insert", !.engine = e, !.tenant = t, !.hash = h]
    <3>1. /\ Becomes(c, r) /\ Idle(c, e) /\ UNCHANGED <<diskVars, store>> /\ excused \subseteq excused'
          /\ store[e].registry # None => store[e].registry.owner = t
          /\ Loading # {} => "functions" \in excused'
        BY <2>5 DEF RegisterFunction, Excuse
    <3>2. r.at = "insert" /\ r.tenant = t /\ r.engine = e /\ r \in CallRecord /\ r.contract = None
          /\ t # None
        BY NamesAssumption DEF NoCall, CallRecord, Stages
    <3> HIDE DEF r
    <3> QED BY <3>1, <3>2, LoadBegins
  <2> QED BY <1>5, <2>2, <2>3, <2>4, <2>5 DEF Ask
<1>6. ASSUME NEW c \in Calls, Step(c) PROVE FunctionInv' /\ KeptInv'
  <2>1. ASSUME NEW r, r.at \notin Bringing, call[c].at \notin Bringing, Becomes(c, r),
               r.tenant \in {None, call[c].tenant}, module' = module, record' = record,
               excused \subseteq excused',
               \A e \in Engines : /\ store'[e].registry = store[e].registry
                                  /\ store'[e].modules = store[e].modules
        PROVE  FunctionInv' /\ KeptInv'
    <3>1. call' = [call EXCEPT ![c] = r] /\ up' = up
        BY <2>1 DEF Becomes, vars
    <3>2. \A d \in Calls :
              \/ call'[d] = call[d]
              \/ /\ call[d].at \notin Bringing /\ call'[d].at \notin Bringing
                 /\ call'[d].tenant \in {None, call[d].tenant}
        BY <1>0, <2>1, <3>1
    <3> QED BY <2>1, <3>1, <3>2, FunctionFrame
  <2>2. ASSUME NEW to \in Stages \ Bringing, call[c].at \notin Bringing, Goes(c, to),
               module' = module, record' = record, excused \subseteq excused',
               \A e \in Engines : /\ store'[e].registry = store[e].registry
                                  /\ store'[e].modules = store[e].modules
        PROVE  FunctionInv' /\ KeptInv'
    <3> DEFINE r == IF to = "idle" THEN NoCall ELSE [call[c] EXCEPT !.at = to]
    <3>1. r.at \notin Bringing /\ r.tenant \in {None, call[c].tenant}
      <4>1. CASE to = "idle"
          BY <4>1, <1>b
      <4>2. CASE to # "idle"
          BY <4>2, <1>0 DEF CallRecord
      <4> QED BY <4>1, <4>2
    <3>2. Becomes(c, r)
        BY <2>2 DEF Goes
    <3> HIDE DEF r
    <3> QED BY <2>1, <2>2, <3>1, <3>2
  <2>3. CASE Bundle(c)
    <3> DEFINE k == call[c].contract
               f == Mem(c).registry
               m == IF f # None /\ f.hash = k.pin THEN Mem(c).modules[f.owner] ELSE None
               r == [call[c] EXCEPT !.at = "file", !.contract.bundle = {m} \ {None}]
    <3>1. Becomes(c, r) /\ UNCHANGED <<diskVars, store, excused>> /\ call[c].at = "bundle"
        BY <2>3 DEF Bundle
    <3>2. r.at = "file" /\ r.tenant = call[c].tenant
        BY <1>0 DEF CallRecord
    <3> HIDE DEF r
    <3> QED BY <2>1, <3>1, <3>2 DEF diskVars, Bringing, Storing
  <2>4. CASE Take(c) \/ PutFile(c) \/ WriteNames(c)
    <3>1. PICK to \in {"file", "idle", "unstale"} : Goes(c, to)
        BY <2>4 DEF Take, PutFile, WriteNames
    <3>2. to \in Stages \ Bringing
        BY DEF Stages, Bringing, Storing
    <3>3. UNCHANGED <<module, record, store, excused>> /\ call[c].at \notin Bringing
        BY <2>4 DEF Take, PutFile, WriteNames, diskVars, Bringing, Storing
    <3> QED BY <2>2, <3>1, <3>2, <3>3
  <2>m. call[c].at # "idle" => Mem(c) \in Memory
      BY <1>0 DEF CallInv, Mem
  <2>5. ASSUME NEW to \in Stages \ Bringing, call[c].at \notin Bringing \cup {"idle"}, Goes(c, to), NEW m,
               m.registry = Mem(c).registry, m.modules = Mem(c).modules, Holds(c, m)
        PROVE  FunctionInv' /\ KeptInv'
    <3>1. store' = [store EXCEPT ![call[c].engine] = m] /\ UNCHANGED <<diskVars, excused>>
        BY <2>5 DEF Holds
    <3>2. \A e \in Engines : /\ store'[e].registry = store[e].registry
                             /\ store'[e].modules = store[e].modules
        BY <1>0, <2>5, <3>1 DEF Mem
    <3> QED BY <2>2, <2>5, <3>1, <3>2 DEF diskVars
  <2>6. CASE Unstale(c)
    <3> DEFINE m == [Mem(c) EXCEPT !.stale = @ \ {call[c].version}]
    <3>1. Holds(c, m) /\ Goes(c, "serve") /\ call[c].at = "unstale"
        BY <2>6 DEF Unstale
    <3>2. m.registry = Mem(c).registry /\ m.modules = Mem(c).modules
        BY <2>m, <3>1 DEF Memory
    <3> HIDE DEF m
    <3> QED BY <2>5, <3>1, <3>2 DEF Stages, Bringing, Storing
  <2>7. CASE Serve(c)
    <3> DEFINE m == [Mem(c) EXCEPT !.versions[call[c].version] = call[c].contract]
    <3>1. Holds(c, m) /\ Goes(c, "idle") /\ call[c].at = "serve"
        BY <2>7 DEF Serve
    <3>2. m.registry = Mem(c).registry /\ m.modules = Mem(c).modules
        BY <2>m, <3>1 DEF Memory
    <3> HIDE DEF m
    <3> QED BY <2>5, <3>1, <3>2 DEF Stages, Bringing, Storing
  <2>8. CASE TruncateNames(c)
    <3> DEFINE r == [call[c] EXCEPT !.at = "names2", !.names = Mem(c).audiences]
    <3>1. Becomes(c, r) /\ UNCHANGED <<module, record, store, excused>> /\ call[c].at = "names"
        BY <2>8 DEF TruncateNames
    <3>2. r.at = "names2" /\ r.tenant = call[c].tenant
        BY <1>0 DEF CallRecord
    <3> HIDE DEF r
    <3> QED BY <2>1, <3>1, <3>2 DEF Bringing, Storing
  <2>9. CASE WriteFails(c)
    <3>1. CASE call[c].at \in Storing
        BY <2>9, <3>1 DEF WriteFails, Excuse, FunctionInv, KeptInv, Storing
    <3>2. CASE call[c].at \notin Storing
      <4>1. call[c].at \notin Bringing /\ Goes(c, "idle") /\ UNCHANGED <<module, record, store>>
            /\ excused \subseteq excused' /\ "idle" \in Stages \ Bringing
          BY <2>9, <3>2 DEF WriteFails, Excuse, Bringing, Storing, diskVars, Stages
      <4> QED BY <2>2, <4>1
    <3> QED BY <3>1, <3>2
  <2> QED BY <1>6, <2>3, <2>4, <2>6, <2>7, <2>8, <2>9, LoadStep DEF Step
<1> QED BY <1>1, <1>2, <1>3, <1>4, <1>5, <1>6 DEF WNext

(***************************************************************************)
(* Bundles.  While a contract is between its compilation and its bundle    *)
(* no call brings a function, and a registry that no call is changing has  *)
(* the module of its entry: what modules_for finds is what was pinned.     *)
(***************************************************************************)
Matches(k) == k.bundle = {k.pin} \ {None}

\* The function a contract is pinned to is there to be bundled.
Pinned(r) == r.contract.pin # None =>
    /\ store[r.engine].registry # None
    /\ store[r.engine].registry.hash = r.contract.pin
    /\ store[r.engine].modules[store[r.engine].registry.owner] = r.contract.pin

BundleInv == excused \cap {"bundles", "functions"} = {} =>
    /\ \A v \in Versions : stored[v] # None => Matches(stored[v])
    /\ \A e \in up, v \in Versions : store[e].versions[v] # None => Matches(store[e].versions[v])
    /\ \A c \in Calls : call[c].contract # None /\ call[c].at # "bundle" => Matches(call[c].contract)
    /\ \A c \in Calls : call[c].at = "bundle" => Pinned(call[c])
    /\ \A c, d \in Calls : call[c].at = "bundle" => call[d].tenant = None
    /\ \A e \in up : (\A c \in Calls : call[c].at # "push") /\ store[e].registry # None =>
          store[e].modules[store[e].registry.owner] = store[e].registry.hash

\* What is left to show of a step that changes no function in memory: it takes no call
\* out of its push, and what it bundles, stores and serves matches.
LEMMA BundleFrame ==
    ASSUME BundleInv, WType, up' = up, excused \subseteq excused',
           \A e \in Engines : /\ store'[e].registry = store[e].registry
                              /\ store'[e].modules = store[e].modules,
           \A c \in Calls :
              \/ call'[c] = call[c]
              \/ /\ call'[c].at # "bundle" /\ call[c].at # "push"
                 /\ call'[c].tenant \in {None, call[c].tenant}
                 /\ excused' \cap {"bundles", "functions"} = {} /\ call'[c].contract # None =>
                       Matches(call'[c].contract),
           excused' \cap {"bundles", "functions"} = {} =>
              /\ \A v \in Versions : stored'[v] # None => Matches(stored'[v])
              /\ \A e \in up, v \in Versions :
                    store'[e].versions[v] # None => Matches(store'[e].versions[v])
    PROVE  BundleInv'
<1> SUFFICES ASSUME excused' \cap {"bundles", "functions"} = {} PROVE BundleInv'
    BY DEF BundleInv
<1>0. up \subseteq Engines /\ \A c \in Calls : call[c].at # "idle" => call[c].engine \in Engines
    BY DEF WType, TypeOK, CallsInv, CallInv
<1>1. excused \cap {"bundles", "functions"} = {}
    OBVIOUS
<1>2. \A v \in Versions : stored'[v] # None => Matches(stored'[v])
    OBVIOUS
<1>3. \A e \in up', v \in Versions : store'[e].versions[v] # None => Matches(store'[e].versions[v])
    OBVIOUS
<1>4. \A c \in Calls : call'[c].contract # None /\ call'[c].at # "bundle" => Matches(call'[c].contract)
    BY <1>1 DEF BundleInv
<1>5. \A c \in Calls : call'[c].at = "bundle" => call'[c] = call[c]
    OBVIOUS
<1>6. ASSUME NEW c \in Calls, call'[c].at = "bundle" PROVE Pinned(call[c])'
  <2>1. call'[c] = call[c] /\ Pinned(call[c]) /\ call[c].engine \in Engines
      BY <1>0, <1>1, <1>5, <1>6 DEF BundleInv
  <2>2. store'[call[c].engine].registry = store[call[c].engine].registry
        /\ store'[call[c].engine].modules = store[call[c].engine].modules
      BY <2>1
  <2> QED BY <2>1, <2>2 DEF Pinned
<1>7. \A c, d \in Calls : call'[c].at = "bundle" => call'[d].tenant = None
    BY <1>1, <1>5 DEF BundleInv
<1>8. \A c \in Calls : call[c].at = "push" => call'[c].at = "push"
    OBVIOUS
<1>9. \A e \in up' : (\A c \in Calls : call'[c].at # "push") /\ store'[e].registry # None =>
          store'[e].modules[store'[e].registry.owner] = store'[e].registry.hash
    BY <1>0, <1>1, <1>8 DEF BundleInv
<1> QED BY <1>2, <1>3, <1>4, <1>6, <1>7, <1>9 DEF BundleInv, Matches

\* A call that begins to bring a function begins while nothing is being bundled.
LEMMA BundleBegins ==
    ASSUME BundleInv, WType, NEW c \in Calls, NEW e \in Engines, Idle(c, e),
           NEW r, Becomes(c, r), r.at = "insert", r.contract # None => Matches(r.contract),
           UNCHANGED <<diskVars, store>>, excused \subseteq excused',
           Bundling # {} => "bundles" \in excused'
    PROVE  BundleInv'
<1> SUFFICES ASSUME excused' \cap {"bundles", "functions"} = {} PROVE BundleInv'
    BY DEF BundleInv
<1>0. call \in [Calls -> CallRecord] /\ call[c] = NoCall /\ NoCall.at = "idle"
    BY DEF WType, CallsInv, Idle, NoCall
<1>1. call' = [call EXCEPT ![c] = r] /\ up' = up /\ stored' = stored /\ store' = store
    BY DEF Becomes, vars, diskVars
<1>2. call'[c] = r /\ \A d \in Calls \ {c} : call'[d] = call[d]
    BY <1>0, <1>1
<1>3. excused \cap {"bundles", "functions"} = {} /\ Bundling = {}
    OBVIOUS
<1>4. \A d \in Calls : call'[d].at # "bundle"
    BY <1>2, <1>3 DEF Bundling
<1>5. \A d \in Calls : call'[d].contract # None => Matches(call'[d].contract)
    BY <1>2, <1>3 DEF BundleInv, Bundling
<1>6. (\A d \in Calls : call'[d].at # "push") => \A d \in Calls : call[d].at # "push"
    BY <1>0, <1>2
<1>7. \A v \in Versions : stored'[v] # None => Matches(stored'[v])
    BY <1>1, <1>3 DEF BundleInv
<1>8. \A f \in up', v \in Versions : store'[f].versions[v] # None => Matches(store'[f].versions[v])
    BY <1>1, <1>3 DEF BundleInv
<1>9. \A f \in up' : (\A d \in Calls : call'[d].at # "push") /\ store'[f].registry # None =>
          store'[f].modules[store'[f].registry.owner] = store'[f].registry.hash
    BY <1>1, <1>3, <1>6 DEF BundleInv
<1> QED BY <1>4, <1>5, <1>7, <1>8, <1>9 DEF BundleInv, Matches

\* The two steps that change a function in memory (FunctionStore::load) end with the
\* module of the entry, and nothing is bundled in between.
LEMMA BundleLoad ==
    ASSUME OneEngine, BundleInv, FunctionInv, WType, NEW c \in Calls, Insert(c) \/ Push(c)
    PROVE  BundleInv'
<1> DEFINE e == call[c].engine
           t == call[c].tenant
           h == call[c].hash
<1>1. PICK to, m :
          /\ to \in {"push", "module", "take"} /\ Goes(c, to) /\ Holds(c, m)
          /\ \/ call[c].at = "insert" /\ to = "push"
                /\ m = [Mem(c) EXCEPT !.registry = [owner |-> t, hash |-> h]]
             \/ call[c].at = "push" /\ to # "push" /\ m = [Mem(c) EXCEPT !.modules[t] = h]
    BY DEF Insert, Push
<1> SUFFICES ASSUME excused' \cap {"bundles", "functions"} = {} PROVE BundleInv'
    BY DEF BundleInv
<1>2. store' = [store EXCEPT ![e] = m] /\ stored' = stored /\ excused' = excused
    BY <1>1 DEF Holds, diskVars
<1>3. excused \cap {"bundles", "functions"} = {} /\ "functions" \notin excused
    BY <1>2
<1>4. call[c].at \in Bringing
    BY <1>1 DEF Bringing
<1>5. up = {e} /\ e \in Engines /\ t \in Tenants /\ t # None
      /\ \A d \in Calls \ {c} : call[d].at \notin Bringing
    BY <1>3, <1>4, OnlyLoad
<1>6. store \in [Engines -> Memory] /\ Mem(c) \in Memory
    BY <1>5 DEF WType, StoreTypeOK, Memory, Mem
<1>7. to \in Stages \ {"idle"}
    BY <1>1 DEF Stages
<1>8. /\ up' = up /\ call'[c].at = to /\ call'[c].contract = call[c].contract
      /\ \A d \in Calls \ {c} : call'[d] = call[d]
    BY <1>1, <1>7, LoadGoesOn
<1>9. \A d \in Calls : call[d].at # "bundle"
    BY <1>3, <1>5 DEF BundleInv
<1>10. \A d \in Calls : call'[d].at # "bundle"
    BY <1>1, <1>8, <1>9
<1>11. \A d \in Calls : call'[d].contract # None => Matches(call'[d].contract)
    BY <1>3, <1>8, <1>9 DEF BundleInv
<1>12. store'[e] = m /\ m.versions = store[e].versions
    BY <1>1, <1>2, <1>5, <1>6 DEF Mem, Memory
<1>13. \A f \in up', v \in Versions : store'[f].versions[v] # None => Matches(store'[f].versions[v])
    BY <1>3, <1>5, <1>8, <1>12 DEF BundleInv
<1>14. \A v \in Versions : stored'[v] # None => Matches(stored'[v])
    BY <1>2, <1>3 DEF BundleInv
<1>15. ASSUME call'[c].at # "push"
       PROVE  m.modules[m.registry.owner] = m.registry.hash
  <2>1. call[c].at = "push" /\ m = [Mem(c) EXCEPT !.modules[t] = h]
      BY <1>1, <1>8, <1>15
  <2>2. Mem(c).registry = [owner |-> t, hash |-> h]
      BY <1>3, <2>1 DEF FunctionInv, Brought, Mem
  <2>3. m.registry = Mem(c).registry /\ m.modules[t] = h
      BY <1>5, <1>6, <2>1 DEF Memory
  <2> QED BY <2>2, <2>3
<1>16. \A f \in up' : (\A d \in Calls : call'[d].at # "push") /\ store'[f].registry # None =>
           store'[f].modules[store'[f].registry.owner] = store'[f].registry.hash
    BY <1>5, <1>8, <1>12, <1>15
<1> QED BY <1>10, <1>11, <1>13, <1>14, <1>16 DEF BundleInv, Matches

\* A contract is pinned when nothing brings a function and bundled before anything does
\* (Engine::register_contract, FunctionStore::modules_for), and put stores and serves it
\* as it was bundled.
LEMMA BundleNext ==
    OneEngine /\ BundleInv /\ FunctionInv /\ WType /\ [WNext]_allVars => BundleInv'
<1> SUFFICES ASSUME OneEngine, BundleInv, FunctionInv, WType, [WNext]_allVars PROVE BundleInv'
    OBVIOUS
<1>0. /\ up \subseteq Engines /\ store \in [Engines -> Memory] /\ call \in [Calls -> CallRecord]
      /\ stored \in [Versions -> Contract \cup {None}] /\ parcel \in Nat
      /\ \A c \in Calls : CallInv(call[c])
    BY DEF WType, TypeOK, CallsInv, StoreTypeOK, Memory
<1>b. NoCall.at = "idle" /\ NoCall.tenant = None /\ NoCall.contract = None
    BY DEF NoCall
<1>s. ASSUME excused' \cap {"bundles", "functions"} = {}, excused \subseteq excused'
      PROVE  /\ \A v \in Versions : stored[v] # None => Matches(stored[v])
             /\ \A e \in up, v \in Versions :
                    store[e].versions[v] # None => Matches(store[e].versions[v])
             /\ \A c \in Calls : call[c].contract # None /\ call[c].at # "bundle" =>
                    Matches(call[c].contract)
    BY <1>s DEF BundleInv
<1>1. CASE UNCHANGED allVars \/ LedgerStep
  <2>1. up' = up /\ UNCHANGED storeVars
      BY <1>1 DEF allVars, vars, LedgerStep, Save, SaveFails, Answered, ChargeAll, SetLimit
  <2>2. UNCHANGED <<stored, store, call, excused>>
      BY <2>1 DEF storeVars, diskVars
  <2> QED BY <1>s, <2>1, <2>2, BundleFrame
<1>2. CASE Upgrade
  <2>1. up' = up /\ UNCHANGED <<stored, store, call, excused>>
      BY <1>2 DEF Upgrade, vars, diskVars
  <2> QED BY <1>s, <2>1, BundleFrame
<1>3. ASSUME NEW e \in Engines, OpenWorkspace(e) PROVE BundleInv'
  <2> SUFFICES ASSUME excused' \cap {"bundles", "functions"} = {} PROVE BundleInv'
      BY DEF BundleInv
  <2>1. up = {} /\ up' = {e}
      BY <1>0, <1>3 DEF OneEngine, OpenWorkspace, Open
  <2>2. /\ UNCHANGED <<stored, call, excused>>
        /\ store'[e].registry = LoadedRegistry /\ store'[e].modules = LoadedModules
        /\ store'[e].versions = LoadedVersions
        /\ \A t \in Recorded : record[t] \in Hashes /\ module[t] = record[t]
      BY <1>0, <1>3 DEF OpenWorkspace, diskVars, Opens
  <2>3. \A c \in Calls : call'[c] = NoCall
      BY <1>0, <2>1, <2>2 DEF CallInv
  <2>4. \A v \in Versions : stored'[v] # None => Matches(stored'[v])
      BY <1>s, <2>2
  <2>5. \A v \in Versions : LoadedVersions[v] # None => Matches(LoadedVersions[v])
      BY <2>2, <2>4 DEF LoadedVersions
  <2>6. ASSUME LoadedRegistry # None
        PROVE  LoadedModules[LoadedRegistry.owner] = LoadedRegistry.hash
    <3>1. Recorded # {}
        BY <2>6 DEF LoadedRegistry
    <3>2. PICK t \in Recorded : LoadedRegistry = [owner |-> t, hash |-> record[t]]
        BY <3>1 DEF LoadedRegistry
    <3>3. t \in Tenants
        BY DEF Recorded
    <3> QED BY <2>2, <3>2, <3>3 DEF LoadedModules
  <2>7. \A f \in up', v \in Versions : store'[f].versions[v] # None => Matches(store'[f].versions[v])
      BY <2>1, <2>2, <2>5
  <2>8. \A f \in up' : (\A d \in Calls : call'[d].at # "push") /\ store'[f].registry # None =>
            store'[f].modules[store'[f].registry.owner] = store'[f].registry.hash
      BY <2>1, <2>2, <2>6
  <2> QED BY <1>b, <2>3, <2>4, <2>7, <2>8 DEF BundleInv, Matches
<1>4. ASSUME NEW e \in Engines, StopWorkspace(e) PROVE BundleInv'
  <2>1. up' = {} /\ stored' = stored /\ excused \subseteq excused'
      BY <1>0, <1>4 DEF OneEngine, StopWorkspace, Stop, diskVars
  <2>2. \A c \in Calls : call'[c] = NoCall
      BY <1>0, <1>4 DEF StopWorkspace, Stop, CallInv, OneEngine
  <2> QED BY <1>b, <1>s, <2>1, <2>2 DEF BundleInv, Matches
<1>5. ASSUME NEW c \in Calls, NEW e \in Engines, Ask(c, e) PROVE BundleInv'
  <2>1. ASSUME NEW r, r.at # "bundle", r.tenant = None, Idle(c, e), Becomes(c, r),
               r.contract # None => Matches(r.contract),
               stored' = stored, excused \subseteq excused',
               \A f \in Engines : /\ store'[f].registry = store[f].registry
                                  /\ store'[f].modules = store[f].modules
                                  /\ store'[f].versions = store[f].versions
        PROVE  BundleInv'
    <3>1. call' = [call EXCEPT ![c] = r] /\ up' = up /\ call[c].at = "idle"
        BY <1>b, <2>1 DEF Becomes, vars, Idle
    <3>2. call'[c] = r /\ \A d \in Calls \ {c} : call'[d] = call[d]
        BY <1>0, <3>1
    <3>3. excused' \cap {"bundles", "functions"} = {} =>
              /\ \A v \in Versions : stored'[v] # None => Matches(stored'[v])
              /\ \A f \in up, v \in Versions :
                    store'[f].versions[v] # None => Matches(store'[f].versions[v])
        BY <1>0, <1>s, <2>1
    <3> QED BY <2>1, <3>1, <3>2, <3>3, BundleFrame
  <2>2. ASSUME NEW a \in Tenants, Publish(c, e, a) \/ Unpublish(c, e, a) PROVE BundleInv'
    <3>1. PICK A : Share(c, e, A)
        BY <2>2 DEF Publish, Unpublish
    <3> DEFINE r == [NoCall EXCEPT !.at = "names", !.engine = e]
    <3>2. /\ Becomes(c, r) /\ Idle(c, e) /\ stored' = stored /\ excused \subseteq excused'
          /\ store' = [store EXCEPT ![e].audiences = A]
        BY <3>1 DEF Share, Excuse, diskVars
    <3>3. r.at # "bundle" /\ r.tenant = None /\ r.contract = None
        BY DEF NoCall
    <3>4. \A f \in Engines : /\ store'[f].registry = store[f].registry
                             /\ store'[f].modules = store[f].modules
                             /\ store'[f].versions = store[f].versions
        BY <1>0, <3>2 DEF Memory
    <3> HIDE DEF r
    <3> QED BY <2>1, <3>2, <3>3, <3>4
  <2>3. ASSUME NEW v \in Versions, NEW d \in Docs, RegisterContract(c, e, v, d) PROVE BundleInv'
    <3> DEFINE f == store[e].registry
               k == [doc |-> d, parcel |-> parcel, pin |-> IF d \in Uses THEN f.hash ELSE None,
                     bundle |-> {}]
               r == [NoCall EXCEPT !.at = "bundle", !.engine = e, !.version = v, !.contract = k]
    <3>1. /\ Becomes(c, r) /\ Idle(c, e) /\ UNCHANGED <<diskVars, store>> /\ excused \subseteq excused'
          /\ Loading # {} => "bundles" \in excused'
          /\ d \in Uses => f # None
        BY <2>3 DEF RegisterContract, Excuse
    <3> SUFFICES ASSUME excused' \cap {"bundles", "functions"} = {} PROVE BundleInv'
        BY DEF BundleInv
    <3>2. \A o \in Calls : call[o].tenant = None
        BY <3>1 DEF Loading
    <3>3. \A o \in Calls : call[o].at # "push"
        BY <1>0, <3>2, NamesAssumption DEF CallInv, Brings
    <3>4. e \in up /\ f # None => store[e].modules[f.owner] = f.hash
        BY <3>1, <3>3 DEF BundleInv
    <3>5. r.at = "bundle" /\ r.tenant = None /\ r.engine = e /\ r.contract = k
        BY DEF NoCall
    <3>6. call' = [call EXCEPT ![c] = r] /\ up' = up /\ store' = store /\ stored' = stored
        BY <3>1 DEF Becomes, vars, diskVars
    <3> HIDE DEF r
    <3>7. call'[c] = r /\ \A o \in Calls \ {c} : call'[o] = call[o]
        BY <1>0, <3>6
    <3>8. k.pin # None => f # None /\ f.hash = k.pin /\ store[e].modules[f.owner] = k.pin
        BY <3>1, <3>4 DEF Idle
    <3>9. ASSUME NEW o \in Calls, call'[o].at = "bundle" PROVE Pinned(call[o])'
      <4>1. CASE o = c
          BY <3>5, <3>6, <3>7, <3>8, <4>1 DEF Pinned
      <4>2. CASE o # c
          BY <3>1, <3>6, <3>7, <3>9, <4>2 DEF Pinned, BundleInv
      <4> QED BY <4>1, <4>2
    <3>10. \A o \in Calls : call'[o].tenant = None /\ call'[o].at # "push"
        BY <3>2, <3>3, <3>5, <3>7
    <3>11. \A o \in Calls : call'[o].contract # None /\ call'[o].at # "bundle" => Matches(call'[o].contract)
        BY <1>s, <3>1, <3>5, <3>7
    <3>12. \A g \in up' : store'[g].registry # None =>
               store'[g].modules[store'[g].registry.owner] = store'[g].registry.hash
        BY <3>1, <3>3, <3>6 DEF BundleInv
    <3>13. /\ \A w \in Versions : stored'[w] # None => Matches(stored'[w])
           /\ \A g \in up', w \in Versions : store'[g].versions[w] # None => Matches(store'[g].versions[w])
        BY <1>s, <3>1, <3>6
    <3> HIDE DEF k, f
    <3> QED BY <3>9, <3>10, <3>11, <3>12, <3>13 DEF BundleInv, Matches
  <2>4. ASSUME NEW v \in Versions, NEW d \in Docs, NEW h \in Hashes, RegisterCompiled(c, e, v, d, h)
        PROVE  BundleInv'
    <3> DEFINE k == IF d \in Uses THEN [doc |-> d, parcel |-> parcel, pin |-> h, bundle |-> {h}]
                            ELSE [doc |-> d, parcel |-> parcel, pin |-> None, bundle |-> {}]
               r == [NoCall EXCEPT
                 !.at = IF d \in Uses THEN "insert" ELSE "take", !.engine = e, !.version = v,
                 !.contract = k, !.hash = k.pin, !.tenant = IF d \in Uses THEN Owner ELSE None]
    <3>1. /\ Becomes(c, r) /\ Idle(c, e) /\ UNCHANGED <<diskVars, store>> /\ excused \subseteq excused'
          /\ d \in Uses /\ Bundling # {} => "bundles" \in excused'
        BY <2>4 DEF RegisterCompiled, Excuse
    <3>2. Matches(k)
        BY BrokenAssumption DEF Matches
    <3>3. r.contract = k
        BY DEF NoCall
    <3>4. CASE d \notin Uses
      <4>1. r.at # "bundle" /\ r.tenant = None
          BY <3>4 DEF NoCall
      <4> HIDE DEF r, k
      <4> QED BY <2>1, <3>1, <3>2, <3>3, <4>1 DEF diskVars
    <3>5. CASE d \in Uses
      <4>1. r.at = "insert"
          BY <3>5 DEF NoCall
      <4> HIDE DEF r, k
      <4> QED BY <3>1, <3>2, <3>3, <3>5, <4>1, BundleBegins
    <3> QED BY <3>4, <3>5
  <2>5. ASSUME NEW t \in Tenants, NEW h \in Hashes, RegisterFunction(c, e, t, h) PROVE BundleInv'
    <3> DEFINE r == [NoCall EXCEPT !.at = "insert", !.engine = e, !.tenant = t, !.hash = h]
    <3>1. /\ Becomes(c, r) /\ Idle(c, e) /\ UNCHANGED <<diskVars, store>> /\ excused \subseteq excused'
          /\ Bundling # {} => "bundles" \in excused'
        BY <2>5 DEF RegisterFunction, Excuse
    <3>2. r.at = "insert" /\ r.contract = None
        BY DEF NoCall
    <3> HIDE DEF r
    <3> QED BY <3>1, <3>2, BundleBegins
  <2> QED BY <1>5, <2>2, <2>3, <2>4, <2>5 DEF Ask
<1>6. ASSUME NEW c \in Calls, Step(c) PROVE BundleInv'
  <2>1. ASSUME NEW r, r.at # "bundle", call[c].at # "push", Becomes(c, r),
               r.tenant \in {None, call[c].tenant}, excused \subseteq excused',
               excused' \cap {"bundles", "functions"} = {} =>
                  /\ r.contract # None => Matches(r.contract)
                  /\ \A v \in Versions : stored'[v] # None => Matches(stored'[v])
                  /\ \A e \in up, v \in Versions :
                        store'[e].versions[v] # None => Matches(store'[e].versions[v]),
               \A e \in Engines : /\ store'[e].registry = store[e].registry
                                  /\ store'[e].modules = store[e].modules
        PROVE  BundleInv'
    <3>1. call' = [call EXCEPT ![c] = r] /\ up' = up
        BY <2>1 DEF Becomes, vars
    <3>2. call'[c] = r /\ \A d \in Calls \ {c} : call'[d] = call[d]
        BY <1>0, <3>1
    <3> QED BY <2>1, <3>1, <3>2, BundleFrame
  <2>2. ASSUME NEW to \in Stages \ {"bundle"}, call[c].at \notin {"push", "bundle"}, Goes(c, to),
               excused \subseteq excused',
               excused' \cap {"bundles", "functions"} = {} =>
                  /\ \A v \in Versions : stored'[v] # None => Matches(stored'[v])
                  /\ \A e \in up, v \in Versions :
                        store'[e].versions[v] # None => Matches(store'[e].versions[v]),
               \A e \in Engines : /\ store'[e].registry = store[e].registry
                                  /\ store'[e].modules = store[e].modules
        PROVE  BundleInv'
    <3> DEFINE r == IF to = "idle" THEN NoCall ELSE [call[c] EXCEPT !.at = to]
    <3>1. r.at # "bundle" /\ r.tenant \in {None, call[c].tenant} /\ r.contract \in {None, call[c].contract}
      <4>1. CASE to = "idle"
          BY <4>1, <1>b
      <4>2. CASE to # "idle"
          BY <4>2, <1>0 DEF CallRecord
      <4> QED BY <4>1, <4>2
    <3>2. Becomes(c, r)
        BY <2>2 DEF Goes
    <3> HIDE DEF r
    <3>3. excused' \cap {"bundles", "functions"} = {} /\ r.contract # None => Matches(r.contract)
        BY <1>s, <2>2, <3>1
    <3> QED BY <2>1, <2>2, <3>1, <3>2, <3>3
  <2>3. CASE Bundle(c)
    <3> DEFINE k == call[c].contract
               f == Mem(c).registry
               m == IF f # None /\ f.hash = k.pin THEN Mem(c).modules[f.owner] ELSE None
               r == [call[c] EXCEPT !.at = "file", !.contract.bundle = {m} \ {None}]
    <3>1. Becomes(c, r) /\ UNCHANGED <<diskVars, store, excused>> /\ call[c].at = "bundle"
        BY <2>3 DEF Bundle
    <3>2. k \in Contract /\ call[c].engine \in Engines /\ call[c] \in CallRecord
        BY <1>0, <3>1 DEF CallInv, Puts
    <3>3. Mem(c) \in Memory
        BY <1>0, <3>2 DEF Mem
    <3>4. ASSUME excused \cap {"bundles", "functions"} = {} PROVE m = k.pin
      <4>1. CASE k.pin # None
        <5>1. Pinned(call[c])
            BY <3>1, <3>4 DEF BundleInv
        <5> QED BY <4>1, <5>1 DEF Pinned, Mem
      <4>2. CASE k.pin = None
        <5>1. f # None => f.hash \in Hashes
            BY <3>3 DEF Memory, Entry
        <5> QED BY <4>2, <5>1, BrokenAssumption
      <4> QED BY <4>1, <4>2
    <3> HIDE DEF m
    <3>5. /\ r.at = "file" /\ r.tenant = call[c].tenant
          /\ r.contract.pin = k.pin /\ r.contract.bundle = {m} \ {None}
        BY <3>2 DEF CallRecord, Contract
    <3>6. excused \cap {"bundles", "functions"} = {} => Matches(r.contract)
        BY <3>4, <3>5 DEF Matches
    <3> HIDE DEF r, k, f
    <3> QED BY <1>s, <2>1, <3>1, <3>5, <3>6 DEF diskVars
  <2>4. CASE Take(c) \/ WriteNames(c) \/ TruncateModule(c) \/ WriteModule(c) \/ TruncateRecord(c)
             \/ WriteRecord(c)
    <3>1. PICK to \in {"file", "idle", "module2", "record", "record2"} : Goes(c, to)
        BY <2>4 DEF Take, WriteNames, TruncateModule, WriteModule, TruncateRecord, WriteRecord
    <3>2. to \in Stages \ {"bundle"}
        BY DEF Stages
    <3>3. UNCHANGED <<stored, store, excused>> /\ call[c].at \notin {"push", "bundle"}
        BY <2>4 DEF Take, WriteNames, TruncateModule, WriteModule, TruncateRecord, WriteRecord, diskVars
    <3> QED BY <1>s, <2>2, <3>1, <3>2, <3>3
  <2>5. CASE PutFile(c)
    <3>1. /\ stored' = [stored EXCEPT ![call[c].version] = call[c].contract]
          /\ Goes(c, "unstale") /\ UNCHANGED <<store, excused>> /\ call[c].at = "file"
        BY <2>5 DEF PutFile
    <3>2. \A v \in Versions : stored'[v] \in {stored[v], call[c].contract}
        BY <1>0, <3>1
    <3>3. excused' \cap {"bundles", "functions"} = {} =>
              \A v \in Versions : stored'[v] # None => Matches(stored'[v])
        BY <1>s, <3>1, <3>2
    <3> QED BY <1>s, <2>2, <3>1, <3>3 DEF Stages
  <2>m. call[c].at # "idle" => Mem(c) \in Memory /\ Mem(c) = store[call[c].engine] /\ call[c].engine \in Engines
      BY <1>0 DEF CallInv, Mem
  <2>6. CASE Unstale(c)
    <3> DEFINE m == [Mem(c) EXCEPT !.stale = @ \ {call[c].version}]
    <3>1. Holds(c, m) /\ Goes(c, "serve") /\ call[c].at = "unstale"
        BY <2>6 DEF Unstale
    <3>2. m.registry = Mem(c).registry /\ m.modules = Mem(c).modules /\ m.versions = Mem(c).versions
        BY <2>m, <3>1 DEF Memory
    <3> HIDE DEF m
    <3>3. store' = [store EXCEPT ![call[c].engine] = m] /\ stored' = stored /\ excused' = excused
        BY <3>1 DEF Holds, diskVars
    <3>4. \A e \in Engines : /\ store'[e].registry = store[e].registry
                             /\ store'[e].modules = store[e].modules
                             /\ store'[e].versions = store[e].versions
        BY <1>0, <2>m, <3>1, <3>2, <3>3
    <3> QED BY <1>0, <1>s, <2>2, <3>1, <3>3, <3>4 DEF Stages
  <2>7. CASE Serve(c)
    <3> DEFINE m == [Mem(c) EXCEPT !.versions[call[c].version] = call[c].contract]
    <3>1. Holds(c, m) /\ Goes(c, "idle") /\ call[c].at = "serve"
        BY <2>7 DEF Serve
    <3>2. /\ m.registry = Mem(c).registry /\ m.modules = Mem(c).modules
          /\ \A v \in Versions : m.versions[v] \in {Mem(c).versions[v], call[c].contract}
        BY <2>m, <3>1 DEF Memory
    <3> HIDE DEF m
    <3>3. store' = [store EXCEPT ![call[c].engine] = m] /\ stored' = stored /\ excused' = excused
        BY <3>1 DEF Holds, diskVars
    <3>4. \A e \in Engines :
              /\ store'[e].registry = store[e].registry /\ store'[e].modules = store[e].modules
              /\ \A v \in Versions : store'[e].versions[v] \in {store[e].versions[v], call[c].contract}
        BY <1>0, <2>m, <3>1, <3>2, <3>3
    <3>5. excused' \cap {"bundles", "functions"} = {} =>
              /\ \A v \in Versions : stored'[v] # None => Matches(stored'[v])
              /\ \A e \in up, v \in Versions :
                    store'[e].versions[v] # None => Matches(store'[e].versions[v])
        BY <1>0, <1>s, <3>1, <3>3, <3>4
    <3> QED BY <2>2, <3>1, <3>3, <3>4, <3>5 DEF Stages
  <2>8. CASE TruncateNames(c)
    <3> DEFINE r == [call[c] EXCEPT !.at = "names2", !.names = Mem(c).audiences]
    <3>1. Becomes(c, r) /\ UNCHANGED <<stored, store, excused>> /\ call[c].at = "names"
        BY <2>8 DEF TruncateNames
    <3>2. r.at = "names2" /\ r.tenant = call[c].tenant /\ r.contract = call[c].contract
        BY <1>0 DEF CallRecord
    <3> HIDE DEF r
    <3> QED BY <1>s, <2>1, <3>1, <3>2
  <2>9. CASE WriteFails(c)
    <3>1. /\ Goes(c, "idle") /\ UNCHANGED <<stored, store>> /\ excused \subseteq excused'
          /\ call[c].at \notin {"push", "bundle"}
        BY <2>9 DEF WriteFails, Excuse, diskVars
    <3> QED BY <1>s, <2>2, <3>1 DEF Stages
  <2> QED BY <1>6, <2>3, <2>4, <2>5, <2>6, <2>7, <2>8, <2>9, BundleLoad DEF Step
<1> QED BY <1>1, <1>2, <1>3, <1>4, <1>5, <1>6 DEF WNext

(***************************************************************************)
(* The invariants together, and what follows from them                     *)
(***************************************************************************)
WInv ==
    IInv /\ WType /\ ContractInv /\ AudienceInv /\ FunctionInv /\ KeptInv /\ BundleInv

\* A workspace that was never opened has nothing to lose (Engine::open on an empty
\* directory).
LEMMA WInitInv == WInit => WInv
<1> SUFFICES ASSUME WInit PROVE WInv
    OBVIOUS
<1>1. IInv /\ TypeOK /\ up = {}
    BY InitInv DEF WInit, Init, IInv
<1>2. Blank \in Memory
    BY DEF Blank, Memory
<1>3. NoCall \in CallRecord /\ CallInv(NoCall) /\ NoCall.at = "idle" /\ NoCall.version = None
    BY DEF NoCall, CallRecord, CallInv, Stages
<1>4. CallsInv /\ \A c \in Calls : call[c] = NoCall
    BY <1>3 DEF WInit, CallsInv
<1>5. StoreTypeOK
    BY <1>1, <1>2, <1>3, <1>4 DEF WInit, StoreTypeOK, Memory, Stages
<1>6. ContractInv
    BY <1>1, <1>3, <1>4 DEF ContractInv, Half
<1>7. published = None
    BY DEF WInit
<1>8. AudienceInv
    BY <1>1, <1>3, <1>4, <1>7, BrokenAssumption DEF AudienceInv, Naming
<1>9. FunctionInv /\ KeptInv
  <2>1. Recorded = {} /\ Saving = {}
      BY <1>3, <1>4 DEF WInit, Recorded, Saving
  <2>2. NoCall.tenant = None /\ "idle" \notin Bringing
      BY DEF NoCall, Bringing, Storing
  <2> QED BY <1>1, <1>3, <1>4, <2>1, <2>2 DEF FunctionInv, KeptInv, Brought, Bringing, Storing
<1>10. BundleInv
    BY <1>1, <1>3, <1>4 DEF WInit, BundleInv, NoCall
<1> QED BY <1>1, <1>4, <1>5, <1>6, <1>8, <1>9, <1>10 DEF WInv, WType

\* The invariant holds of every workspace that one engine at a time has open
\* (Engine::open).
LEMMA WorkspaceInvariant == OneEngine => (WSpec => []WInv)
<1> SUFFICES ASSUME OneEngine PROVE WSpec => []WInv
    OBVIOUS
<1>1. WInv /\ [WNext]_allVars => WInv'
    BY LedgerStepOrNone, StepInv, WTypeStep, ContractNext, AudienceNext, FunctionNext, BundleNext
       DEF WInv
<1> QED BY WInitInv, <1>1, PTL DEF WSpec, allVars

\* The stores stay well typed, and an engine that is not open holds nothing and makes no
\* call (DirStore::open, FunctionStore::open).
THEOREM StoresTypeCorrect == OneEngine => (WSpec => []StoreTypeOK)
<1>1. WInv => StoreTypeOK
    BY DEF WInv, WType
<1> QED BY WorkspaceInvariant, <1>1, PTL

\* A version is served as a restart would serve it (DirStore::put, DirStore::open).
THEOREM ContractsOutlive == OneEngine => (WSpec => []ContractsOutliveTheProcess)
<1>1. WInv => ContractsOutliveTheProcess
  <2> SUFFICES ASSUME WInv, "contracts" \notin excused, NEW e \in up, NEW v \in Versions,
                      Putting(v) = {}
               PROVE  /\ store[e].versions[v] = LoadedVersions[v]
                      /\ v \in store[e].stale <=> v \in StaleVersions
      BY DEF ContractsOutliveTheProcess
  <2>1. Served(e, v)
      BY DEF WInv, ContractInv, Putting
  <2> QED BY <2>1 DEF Served, LoadedVersions, StaleVersions
<1> QED BY WorkspaceInvariant, <1>1, PTL

\* Whom a contract is shared with is what a restart would load (DirStore::publish,
\* DirStore::unpublish, DirStore::save_audiences), for a contract whose name comes back
\* from the name of its directory (DirStore::contract_dir, decode); of another name it is
\* not so.
THEOREM AudiencesOutlive ==
    OneEngine /\ Returns(Name) => (WSpec => []AudiencesOutliveTheProcess)
<1> SUFFICES ASSUME OneEngine, Returns(Name)
             PROVE  WSpec => []AudiencesOutliveTheProcess
    OBVIOUS
<1>1. WInv => AudiencesOutliveTheProcess
    BY DEF WInv, AudienceInv, AudiencesOutliveTheProcess, Naming
<1> QED BY WorkspaceInvariant, <1>1, PTL

\* A function registered is the one a restart loads (FunctionStore::register,
\* FunctionStore::open).
THEOREM FunctionsOutlive == OneEngine => (WSpec => []FunctionsOutliveTheProcess)
<1>1. WInv => FunctionsOutliveTheProcess
  <2> SUFFICES ASSUME WInv, NEW e \in up, Loading = {}, excused \cap {"functions", "adopted"} = {}
               PROVE  store[e].registry = LoadedRegistry /\ store[e].modules = LoadedModules
      BY DEF FunctionsOutliveTheProcess
  <2>1. \A c \in Calls : call[c].tenant = None
      BY DEF Loading
  <2>2. \A c \in Calls : call[c].at \notin {"push"} \cup Storing
      BY <2>1, NamesAssumption DEF WInv, WType, CallsInv, CallInv, Brings, Storing
  <2>3. Kept(e)
      BY <2>2 DEF WInv, KeptInv
  <2>4. store[e].modules \in [Tenants -> Hashes \cup {None}]
      BY DEF WInv, WType, StoreTypeOK, TypeOK
  <2>5. store[e].modules = LoadedModules
      BY <2>3, <2>4 DEF Kept, LoadedModules
  <2>6. store[e].registry = LoadedRegistry
    <3>1. CASE Recorded = {}
        BY <2>3, <3>1 DEF Kept, LoadedRegistry
    <3>2. CASE Recorded # {}
      <4> DEFINE t == CHOOSE t \in Recorded : TRUE
      <4>1. t \in Recorded
          BY <3>2
      <4>2. LoadedRegistry = [owner |-> t, hash |-> record[t]]
          BY <3>2 DEF LoadedRegistry
      <4> HIDE DEF t
      <4> QED BY <2>3, <4>1, <4>2 DEF Kept
    <3> QED BY <3>1, <3>2
  <2> QED BY <2>5, <2>6
<1> QED BY WorkspaceInvariant, <1>1, PTL

\* A workspace that is closed opens again (Engine::open), unless a call was cut short
\* while it replaced a file in place.
THEOREM OpensAgain == OneEngine => (WSpec => []WorkspaceOpensAgain)
<1>1. WInv => WorkspaceOpensAgain
  <2> SUFFICES ASSUME WInv, up = {}, excused \cap {"audiences", "functions"} = {} PROVE Opens
      BY DEF WorkspaceOpensAgain
  <2>1. \A c \in Calls : call[c] = NoCall
      BY DEF WInv, WType, CallsInv, CallInv
  <2>2. NoCall.at = "idle"
      BY DEF NoCall
  <2>3. published \notin {Truncated, Mixed}
      BY <2>1, <2>2 DEF WInv, AudienceInv
  <2>4. Saving = {}
      BY <2>1, <2>2 DEF Saving
  <2>5. \A t \in Recorded : record[t] \in Hashes /\ module[t] = record[t]
      BY <2>4 DEF WInv, FunctionInv
  <2>6. Cardinality(Recorded) <= 1
    <3>1. CASE Recorded = {}
        BY <3>1, FS_EmptySet
    <3>2. ASSUME NEW t \in Recorded PROVE Cardinality(Recorded) <= 1
      <4>1. Recorded = {t}
          BY DEF WInv, FunctionInv
      <4> QED BY <4>1, FS_Singleton
    <3> QED BY <3>1, <3>2
  <2> QED BY <2>3, <2>5, <2>6 DEF Opens
<1> QED BY WorkspaceInvariant, <1>1, PTL

\* The bundle a contract is served and stored with carries the module it is pinned to and
\* no other (FunctionStore::modules_for), unless the function was registered while the
\* contract was, or twice at once.
THEOREM BundlesMatch == OneEngine => (WSpec => []BundlesMatchPins)
<1>1. WInv => BundlesMatchPins
    BY DEF WInv, BundleInv, BundlesMatchPins, Matches
<1> QED BY <1>1, WorkspaceInvariant, PTL

\* A name stays with its owner (FunctionStore::load).
THEOREM NamesStay == OneEngine => (WSpec => NamesStayWithTheirOwner)
<1> SUFFICES ASSUME OneEngine PROVE WSpec => NamesStayWithTheirOwner
    OBVIOUS
<1> DEFINE Stays == \A e \in up \cap up' : store[e].registry # None /\ "functions" \notin excused' =>
                        store'[e].registry.owner = store[e].registry.owner
<1>1. ASSUME WInv, WNext PROVE Stays
  <2>0. /\ up \subseteq Engines /\ store \in [Engines -> Memory] /\ FunctionInv /\ WType
        /\ \A c \in Calls : CallInv(call[c])
      BY <1>1 DEF WInv, WType, TypeOK, StoreTypeOK, Memory, CallsInv
  <2>1. ASSUME \A e \in Engines : store'[e].registry = store[e].registry PROVE Stays
      BY <2>0, <2>1
  <2>2. ASSUME NEW e \in Engines, OpenWorkspace(e) \/ StopWorkspace(e) PROVE Stays
    <3>1. up \cap up' = {}
        BY <2>0, <2>2 DEF OneEngine, OpenWorkspace, Open, StopWorkspace, Stop
    <3> QED BY <3>1
  <2>3. CASE Upgrade \/ LedgerStep
      BY <2>1, <2>3 DEF Upgrade, LedgerStep, storeVars
  <2>4. ASSUME NEW c \in Calls, NEW e \in Engines, Ask(c, e) PROVE Stays
    <3>1. store' = store \/ \E A : store' = [store EXCEPT ![e].audiences = A]
        BY <2>4 DEF Ask, RegisterContract, RegisterCompiled, RegisterFunction, Publish, Unpublish, Share
    <3>2. ASSUME NEW A, store' = [store EXCEPT ![e].audiences = A]
          PROVE  \A f \in Engines : store'[f].registry = store[f].registry
        BY <2>0, <3>2 DEF Memory
    <3>3. CASE store' = store
        BY <2>1, <3>3
    <3> HIDE DEF Stays
    <3> QED BY <2>1, <3>1, <3>2, <3>3
  <2>5. ASSUME NEW c \in Calls, Step(c) PROVE Stays
    <3>m. call[c].at # "idle" => /\ Mem(c) \in Memory /\ Mem(c) = store[call[c].engine]
                                 /\ call[c].engine \in Engines
        BY <2>0 DEF CallInv, Mem
    <3>1. CASE Insert(c)
      <4> SUFFICES ASSUME NEW e \in up, store[e].registry # None, "functions" \notin excused'
                   PROVE  store'[e].registry.owner = store[e].registry.owner
          OBVIOUS
      <4> DEFINE n == [owner |-> call[c].tenant, hash |-> call[c].hash]
      <4>1. /\ call[c].at = "insert" /\ excused' = excused
            /\ store' = [store EXCEPT ![call[c].engine] = [Mem(c) EXCEPT !.registry = n]]
          BY <3>1 DEF Insert, Holds
      <4>2. e = call[c].engine
          BY <2>0, <4>1 DEF CallInv, OneEngine
      <4>3. store'[e].registry = n
          BY <2>0, <3>m, <4>1, <4>2 DEF Memory
      <4>4. store[e].registry.owner = call[c].tenant
          BY <2>0, <4>1, <4>2 DEF FunctionInv, Brought
      <4> QED BY <4>3, <4>4
    <3>2. CASE Unstale(c) \/ Serve(c) \/ Push(c)
      <4>1. PICK m \in {[Mem(c) EXCEPT !.stale = @ \ {call[c].version}],
                        [Mem(c) EXCEPT !.versions[call[c].version] = call[c].contract],
                        [Mem(c) EXCEPT !.modules[call[c].tenant] = call[c].hash]} : Holds(c, m)
          BY <3>2 DEF Unstale, Serve, Push
      <4>2. call[c].at # "idle"
          BY <3>2 DEF Unstale, Serve, Push
      <4>3. m.registry = store[call[c].engine].registry
          BY <3>m, <4>1, <4>2 DEF Memory
      <4>4. store' = [store EXCEPT ![call[c].engine] = m]
          BY <4>1 DEF Holds
      <4> QED BY <2>0, <2>1, <3>m, <4>2, <4>3, <4>4
    <3>3. CASE store' = store
        BY <2>1, <3>3
    <3> QED BY <2>5, <3>1, <3>2, <3>3 DEF Step, Bundle, Take, PutFile, TruncateModule, WriteModule,
                  TruncateRecord, WriteRecord, TruncateNames, WriteNames, WriteFails
  <2> QED BY <1>1, <2>2, <2>3, <2>4, <2>5 DEF WNext
<1>2. WSpec => []WInv
    BY WorkspaceInvariant
<1> QED BY <1>1, <1>2, PTL DEF WSpec, NamesStayWithTheirOwner
=============================================================================

--------------------------- MODULE QueryPathProofs ---------------------------
(***************************************************************************)
(* QueryPath for any number of queries, callers and compilations, and for  *)
(* any rules: an answer holds every write that had reported when it was    *)
(* asked for, its noise is paid for, it is on record, and its caller could *)
(* see the contract, whatever the queries, registrations, sharing and      *)
(* writes around it do.                                                    *)
(***************************************************************************)
EXTENDS QueryPath, FiniteSums

\* Where a query has resolved its contract, has a view, and has an answer.
Resolved == {"view", "shape", "prepared", "checked", "run", "answer", "signed", "planned",
             "answered", "ready"}
Viewed   == Resolved \ {"view"}
Shaped   == Viewed \ {"shape"}
Drawn    == Resolved \ {"view", "shape", "prepared", "checked"}
\* Where it has not been planned, and so has not been charged.
Early    == {"idle", "asked", "resolve", "view", "shape", "prepared"}

(***************************************************************************)
(* What a query holds at each step of prepare, planned and run.            *)
(***************************************************************************)
StageInv == \A q \in Queries :
    /\ pc[q] # "idle" => asked[q] \in Asks
    /\ pc[q] \in Resolved => res[q] \in Resolutions
    /\ pc[q] \in Viewed => view[q] \in Comps
    /\ pc[q] \in Shaped => fingerprint[q] \in Bindings
    /\ pc[q] \in Drawn => ans[q] \in Batches

\* Versions only grow, and each is at least the one it was read after.  A cached answer is
\* at least as new as its key says.
SeenInv ==
    /\ stamp <= data
    /\ \A q \in Queries :
          /\ pc[q] # "idle" => asked[q].since <= stamp
          /\ pc[q] \in Resolved => asked[q].since <= res[q].stamp /\ res[q].stamp <= stamp
          /\ pc[q] \in Drawn => res[q].stamp <= ans[q].data
    /\ \A e \in cache : e.key.stamp <= e.batches.data

\* Batches, held or cached, come of a query that was planned, and it paid for the noise
\* in them; one that has batches of another paid nothing.
Drawable(b) == pc[b.draw] \notin Early /\ paid[b.draw] = b.noise

PaidInv ==
    /\ \A e \in cache : Drawable(e.batches)
    /\ \A q \in Queries :
          /\ pc[q] \in Early => paid[q] = 0
          /\ pc[q] \in Drawn => Drawable(ans[q]) /\ (ans[q].draw # q => paid[q] = 0)

\* What left the engine is on record as it left.
RecordInv == \A q \in Queries : pc[q] \in {"answered", "ready"} =>
    /\ audit[q] \in Records
    /\ audit[q].outcome \in {"signed", "planned"}
    /\ audit[q].comp = res[q].comp
    /\ audit[q].charges = paid[q]

\* A caller who can see the contract now has been able to since it asked.
SightInv == \A q \in Queries :
    /\ pc[q] # "idle" /\ Visible(Caller(q)) => could[q]
    /\ pc[q] \in Resolved \cup {"resolve"} => could[q]

\* While the contract stays as it was, a query looks up the same rules each time; batches,
\* held or cached, are those of the compilation and the shapes resolved.
Governed(b, k, n) == steady[b.draw] => b.view = k /\ b.noise = n

GovernInv ==
    /\ \A q \in Queries :
          /\ pc[q] \in {"view", "shape"} /\ steady[q] =>
                res[q].comp = comp /\ res[q].shapes = Noise[comp][asked[q].caller]
          /\ pc[q] \in Viewed /\ steady[q] => view[q] = res[q].comp
          /\ pc[q] \in Viewed \ {"shape"} /\ steady[q] => noise[q] = res[q].shapes
          /\ pc[q] \in Drawn => Governed(ans[q], res[q].comp, res[q].shapes)
    /\ \A e \in cache : Governed(e.batches, e.key.comp, e.key.shapes)

\* Batches are bound as their key says, and what a query holds is bound as for its caller,
\* where the contract stayed as it was.
Bound(b, p) == steady[b.draw] => b.bound = p

OwnInv ==
    /\ \A q \in Queries :
          /\ pc[q] \in Shaped /\ steady[q] => fingerprint[q] = Params[res[q].comp][asked[q].caller]
          /\ pc[q] = "run" => ans[q].draw = q
          /\ pc[q] \in Drawn /\ steady[q] => Bound(ans[q], Params[res[q].comp][asked[q].caller])
    /\ \A e \in cache : Bound(e.batches, e.key.params)

IInv == TypeOK /\ StageInv /\ SeenInv /\ PaidInv /\ RecordInv /\ SightInv /\ GovernInv /\ OwnInv

\* The invariant holds of an engine nobody has asked anything (Engine::open).
LEMMA InitInv == Init => IInv
<1> SUFFICES ASSUME Init PROVE IInv
    OBVIOUS
<1> USE DEF Init
<1>1. TypeOK
    BY DEF TypeOK, PCs
<1>2. StageInv /\ RecordInv /\ SightInv
    BY DEF StageInv, RecordInv, SightInv, Resolved, Viewed, Shaped, Drawn
<1>3. SeenInv /\ PaidInv
    BY DEF SeenInv, PaidInv, Resolved, Drawn
<1>4. GovernInv /\ OwnInv
    BY DEF GovernInv, OwnInv, Resolved, Viewed, Shaped, Drawn
<1> QED BY <1>1, <1>2, <1>3, <1>4 DEF IInv

\* Every step keeps the state well typed, and leaves a query with what its step needs.
LEMMA StageStep == TypeOK /\ StageInv /\ [Next]_vars => TypeOK' /\ StageInv'
<1> SUFFICES ASSUME TypeOK, StageInv, [Next]_vars PROVE TypeOK' /\ StageInv'
    OBVIOUS
<1> USE RulesAssumption DEF StageInv, Goes, engineVars, queryVars, history, PCs, Resolved, Viewed, Shaped, Drawn
<1>1. CASE UNCHANGED vars
    BY <1>1 DEF TypeOK, vars
<1>2. ASSUME NEW q \in Queries, NEW c \in Callers, NEW m \in Modes, Ask(q, c, m)
      PROVE  TypeOK' /\ StageInv'
    BY <1>2 DEF TypeOK, Ask, Asks
<1>3. ASSUME NEW q \in Queries, Look(q) \/ Check(q) \/ Sign(q)
      PROVE  TypeOK' /\ StageInv'
  <2>1. CASE Look(q)
      BY <2>1 DEF TypeOK, Look
  <2>2. CASE Check(q)
      BY <2>2 DEF TypeOK, Check
  <2>3. CASE Sign(q)
      BY <2>3 DEF TypeOK, Sign
  <2> QED BY <1>3, <2>1, <2>2, <2>3
<1>4. ASSUME NEW q \in Queries, Resolve(q) PROVE TypeOK' /\ StageInv'
  <2>1. asked[q].caller \in Callers
      BY <1>4 DEF Resolve, Asks
  <2>2. [comp |-> comp, shapes |-> Noise[comp][Caller(q)], stamp |-> stamp] \in Resolutions
      BY <2>1 DEF TypeOK, Resolutions, Caller
  <2> QED BY <1>4, <2>2 DEF TypeOK, Resolve
<1>5. ASSUME NEW q \in Queries, View(q) PROVE TypeOK' /\ StageInv'
    BY <1>5 DEF TypeOK, View
<1>6. ASSUME NEW q \in Queries, Shape(q) PROVE TypeOK' /\ StageInv'
  <2>1. Noise[comp][Caller(q)] \in Nat /\ Params[comp][Caller(q)] \in Bindings
      BY <1>6 DEF TypeOK, Shape, Asks, Caller, Bindings
  <2> QED BY <1>6, <2>1 DEF TypeOK, Shape
<1>7. ASSUME NEW q \in Queries, Hit(q) PROVE TypeOK' /\ StageInv'
    BY <1>7 DEF TypeOK, Hit
<1>8. ASSUME NEW q \in Queries, Plan(q) PROVE TypeOK' /\ StageInv'
  <2>1. Caller(q) \in Callers /\ spent[Caller(q)] + noise[q] \in Nat
      BY <1>8 DEF TypeOK, Plan, Asks, Caller
  <2>2. Planned(q) \in Batches
    <3>1. view[q] \in Comps /\ Params[view[q]][Caller(q)] \in Bindings
        BY <1>8, <2>1 DEF Plan, Bindings
    <3> QED BY <3>1 DEF TypeOK, Batches, Planned
  <2> QED BY <1>8, <2>1, <2>2 DEF TypeOK, Plan
<1>9. ASSUME NEW q \in Queries, Run(q) PROVE TypeOK' /\ StageInv'
  <2>1. Key(q) \in Keys /\ ans[q] \in Batches
      BY <1>9 DEF Run, Key, Keys, Resolutions, Asks, Caller
  <2>2. \A e \in cache' : e.key \in Keys /\ e.batches \in Batches
      BY <1>9, <2>1 DEF Run, TypeOK
  <2> QED BY <1>9, <2>2 DEF TypeOK, Run
<1>10. ASSUME NEW q \in Queries, Audit(q) PROVE TypeOK' /\ StageInv'
  <2>1. CASE pc[q] \in {"signed", "planned", "failed"} /\ Leaves(q, "error") /\ UNCHANGED audit
      BY <2>1 DEF TypeOK, Leaves
  <2>2. CASE /\ pc[q] \in {"signed", "planned", "failed"}
             /\ audit' = [audit EXCEPT ![q] = Record(q, pc[q])]
             /\ Goes(q, Gets(pc[q]))
             /\ UNCHANGED <<engineVars, cache, spent, queryVars, history>>
    <3>1. Record(q, pc[q]) \in Records
        BY <2>2 DEF TypeOK, Record, Records, Resolutions
    <3>2. Gets(pc[q]) = IF pc[q] = "signed" THEN "answered"
                        ELSE IF pc[q] = "planned" THEN "ready" ELSE "error"
        BY <2>2 DEF Gets
    <3> QED BY <2>2, <3>1, <3>2 DEF TypeOK
  <2> QED BY <1>10, <2>1, <2>2 DEF Audit
<1>11. ASSUME NEW q \in Queries, Fail(q) \/ Drop(q) PROVE TypeOK' /\ StageInv'
  <2>1. CASE Fail(q)
      BY <2>1 DEF TypeOK, Fail, Leaves
  <2>2. CASE Drop(q)
      BY <2>2 DEF TypeOK, Drop, Leaves
  <2> QED BY <1>11, <2>1, <2>2
<1>12. ASSUME NEW e \in cache, Evict(e) PROVE TypeOK' /\ StageInv'
    BY <1>12 DEF TypeOK, Evict
<1>13. ASSUME NEW k \in Comps, Register(k) PROVE TypeOK' /\ StageInv'
    BY <1>13 DEF TypeOK, Register
<1>14. ASSUME NEW c \in Callers, Publish(c) \/ Unpublish(c) PROVE TypeOK' /\ StageInv'
    BY <1>14 DEF TypeOK, Publish, Unpublish
<1>15. CASE Install
    BY <1>15 DEF TypeOK, Install
<1>16. CASE Written
    BY <1>16 DEF TypeOK, Written
<1>17. CASE WriteStops
    BY <1>17 DEF TypeOK, WriteStops
<1> QED BY <1>1, <1>2, <1>3, <1>4, <1>5, <1>6, <1>7, <1>8, <1>9, <1>10, <1>11, <1>12, <1>13,
           <1>14, <1>15, <1>16, <1>17 DEF Next, Step

\* Every write a query must see is in what it holds, and in what the cache holds for it.
LEMMA SeenStep == TypeOK /\ StageInv /\ SeenInv /\ [Next]_vars => SeenInv'
<1> SUFFICES ASSUME TypeOK, StageInv, SeenInv, [Next]_vars PROVE SeenInv'
    OBVIOUS
<1> USE DEF StageInv, Goes, engineVars, queryVars, history, Resolved, Viewed, Shaped, Drawn, Asks, Resolutions,
            Batches, Keys
<1>1. CASE UNCHANGED vars
    BY <1>1 DEF SeenInv, vars
<1>2. ASSUME NEW q \in Queries, NEW c \in Callers, NEW m \in Modes, Ask(q, c, m) PROVE SeenInv'
    BY <1>2 DEF SeenInv, TypeOK, Ask
<1>3. ASSUME NEW q \in Queries, Look(q) \/ Check(q) \/ Sign(q) \/ View(q) \/ Shape(q)
      PROVE  SeenInv'
    BY <1>3 DEF SeenInv, TypeOK, Look, Check, Sign, View, Shape
<1>4. ASSUME NEW q \in Queries, Resolve(q) PROVE SeenInv'
    BY <1>4 DEF SeenInv, TypeOK, Resolve
<1>5. ASSUME NEW q \in Queries, Hit(q) PROVE SeenInv'
  <2>1. PICK e \in cache : e.key = Key(q) /\ ans' = [ans EXCEPT ![q] = e.batches]
      BY <1>5 DEF Hit
  <2>2. res[q].stamp <= e.batches.data
      BY <2>1 DEF SeenInv, Key
  <2> QED BY <1>5, <2>1, <2>2 DEF SeenInv, TypeOK, Hit
<1>6. ASSUME NEW q \in Queries, Plan(q) PROVE SeenInv'
  <2>1. res[q].stamp <= data
      BY <1>6 DEF SeenInv, TypeOK, Plan
  <2>2. PICK b : b = Planned(q)
      OBVIOUS
  <2>3. b.data = data
      BY <2>2 DEF Planned
  <2>4. ans' = [ans EXCEPT ![q] = b]
      BY <1>6, <2>2 DEF Plan
  <2> QED BY <1>6, <2>1, <2>3, <2>4 DEF SeenInv, TypeOK, Plan
<1>7. ASSUME NEW q \in Queries, Run(q) PROVE SeenInv'
  <2>1. Key(q).stamp <= ans[q].data
      BY <1>7 DEF SeenInv, Run, Key
  <2>2. \A e \in cache' : e.key.stamp <= e.batches.data
      BY <1>7, <2>1 DEF SeenInv, Run
  <2> QED BY <1>7, <2>2 DEF SeenInv, TypeOK, Run
<1>8. ASSUME NEW q \in Queries, Audit(q) PROVE SeenInv'
  <2>1. CASE pc[q] \in {"signed", "planned", "failed"} /\ Leaves(q, "error") /\ UNCHANGED audit
      BY <2>1 DEF SeenInv, TypeOK, Leaves
  <2>2. CASE /\ pc[q] \in {"signed", "planned", "failed"}
             /\ audit' = [audit EXCEPT ![q] = Record(q, pc[q])]
             /\ Goes(q, Gets(pc[q]))
             /\ UNCHANGED <<engineVars, cache, spent, queryVars, history>>
    <3>1. Gets(pc[q]) = IF pc[q] = "signed" THEN "answered"
                        ELSE IF pc[q] = "planned" THEN "ready" ELSE "error"
        BY <2>2 DEF Gets
    <3> QED BY <2>2, <3>1 DEF SeenInv, TypeOK
  <2> QED BY <1>8, <2>1, <2>2 DEF Audit
<1>9. ASSUME NEW q \in Queries, Fail(q) \/ Drop(q) PROVE SeenInv'
    BY <1>9 DEF SeenInv, TypeOK, Fail, Drop, Leaves
<1>10. ASSUME NEW e \in cache, Evict(e) PROVE SeenInv'
    BY <1>10 DEF SeenInv, Evict
<1>11. ASSUME NEW k \in Comps, Register(k) PROVE SeenInv'
    BY <1>11 DEF SeenInv, Register
<1>12. ASSUME NEW c \in Callers, Publish(c) \/ Unpublish(c) PROVE SeenInv'
    BY <1>12 DEF SeenInv, Publish, Unpublish
<1>13. CASE Install
    BY <1>13 DEF SeenInv, TypeOK, Install
<1>14. CASE Written
    BY <1>14 DEF SeenInv, TypeOK, Written
<1>15. CASE WriteStops
    BY <1>15 DEF SeenInv, WriteStops
<1> QED BY <1>1, <1>2, <1>3, <1>4, <1>5, <1>6, <1>7, <1>8, <1>9, <1>10, <1>11, <1>12, <1>13,
           <1>14, <1>15 DEF Next, Step

\* Noise is charged to the query that draws it, and to nobody who is handed it from the
\* cache.
LEMMA PaidStep == TypeOK /\ StageInv /\ PaidInv /\ [Next]_vars => PaidInv'
<1> SUFFICES ASSUME TypeOK, StageInv, PaidInv, [Next]_vars PROVE PaidInv'
    OBVIOUS
<1> USE DEF StageInv, Goes, engineVars, queryVars, history, Resolved, Viewed, Shaped, Drawn, Early, Drawable,
            Batches
<1>1. CASE UNCHANGED vars
    BY <1>1 DEF PaidInv, vars
<1>2. ASSUME NEW q \in Queries, NEW c \in Callers, NEW m \in Modes, Ask(q, c, m) PROVE PaidInv'
    BY <1>2 DEF PaidInv, TypeOK, Ask
<1>3. ASSUME NEW q \in Queries, Look(q) \/ Check(q) \/ Sign(q) \/ View(q) \/ Shape(q)
      PROVE  PaidInv'
    BY <1>3 DEF PaidInv, TypeOK, Look, Check, Sign, View, Shape
<1>4. ASSUME NEW q \in Queries, Resolve(q) PROVE PaidInv'
    BY <1>4 DEF PaidInv, TypeOK, Resolve
<1>5. ASSUME NEW q \in Queries, Hit(q) PROVE PaidInv'
  <2>1. PICK e \in cache : e.key = Key(q) /\ ans' = [ans EXCEPT ![q] = e.batches]
      BY <1>5 DEF Hit
  <2>2. Drawable(e.batches) /\ e.batches.draw # q /\ paid[q] = 0
      BY <1>5, <2>1 DEF PaidInv, Hit
  <2> QED BY <1>5, <2>1, <2>2 DEF PaidInv, TypeOK, Hit
<1>6. ASSUME NEW q \in Queries, Plan(q) PROVE PaidInv'
  <2> DEFINE b == Planned(q)
  <2>1. /\ paid' = [paid EXCEPT ![q] = noise[q]]
        /\ ans' = [ans EXCEPT ![q] = b]
        /\ pc'[q] \in {"run", "planned"} /\ \A p \in Queries \ {q} : pc'[p] = pc[p]
        /\ cache' = cache
      BY <1>6 DEF Plan, TypeOK
  <2>2. ASSUME NEW d \in Batches, Drawable(d) PROVE Drawable(d)'
      BY <1>6, <2>1, <2>2 DEF Plan, TypeOK
  <2>3. \A e \in cache' : Drawable(e.batches)'
      BY <2>1, <2>2 DEF PaidInv, TypeOK
  <2>4. ans'[q].draw = q /\ ans'[q].noise = noise[q] /\ paid'[q] = noise[q]
      BY <2>1 DEF TypeOK, Planned
  <2>5. ASSUME NEW p \in Queries
        PROVE  /\ pc'[p] \in Early => paid'[p] = 0
               /\ pc'[p] \in Drawn => Drawable(ans[p])' /\ (ans'[p].draw # p => paid'[p] = 0)
    <3>1. CASE p = q
        BY <2>1, <2>4, <3>1
    <3>2. CASE p # q
      <4>1. ans'[p] = ans[p] /\ paid'[p] = paid[p] /\ pc'[p] = pc[p]
          BY <2>1, <3>2 DEF TypeOK
      <4>2. pc[p] \in Drawn => ans[p] \in Batches /\ Drawable(ans[p])
          BY DEF PaidInv
      <4>3. pc[p] \in Drawn => Drawable(ans[p])'
          BY <4>1, <4>2, <2>2
      <4> QED BY <4>1, <4>3 DEF PaidInv
    <3> QED BY <3>1, <3>2
  <2> QED BY <2>3, <2>5 DEF PaidInv
<1>7. ASSUME NEW q \in Queries, Run(q) PROVE PaidInv'
  <2>1. \A e \in cache' : Drawable(e.batches)
      BY <1>7 DEF PaidInv, Run
  <2> QED BY <1>7, <2>1 DEF PaidInv, TypeOK, Run
<1>8. ASSUME NEW q \in Queries, Audit(q) PROVE PaidInv'
  <2>1. CASE pc[q] \in {"signed", "planned", "failed"} /\ Leaves(q, "error") /\ UNCHANGED audit
      BY <2>1 DEF PaidInv, TypeOK, Leaves
  <2>2. CASE /\ pc[q] \in {"signed", "planned", "failed"}
             /\ audit' = [audit EXCEPT ![q] = Record(q, pc[q])]
             /\ Goes(q, Gets(pc[q]))
             /\ UNCHANGED <<engineVars, cache, spent, queryVars, history>>
    <3>1. Gets(pc[q]) = IF pc[q] = "signed" THEN "answered"
                        ELSE IF pc[q] = "planned" THEN "ready" ELSE "error"
        BY <2>2 DEF Gets
    <3> QED BY <2>2, <3>1 DEF PaidInv, TypeOK
  <2> QED BY <1>8, <2>1, <2>2 DEF Audit
<1>9. ASSUME NEW q \in Queries, Fail(q) \/ Drop(q) PROVE PaidInv'
    BY <1>9 DEF PaidInv, TypeOK, Fail, Drop, Leaves
<1>10. ASSUME NEW e \in cache, Evict(e) PROVE PaidInv'
    BY <1>10 DEF PaidInv, Evict
<1>11. ASSUME NEW k \in Comps, Register(k) PROVE PaidInv'
    BY <1>11 DEF PaidInv, Register
<1>12. ASSUME NEW c \in Callers, Publish(c) \/ Unpublish(c) PROVE PaidInv'
    BY <1>12 DEF PaidInv, Publish, Unpublish
<1>13. CASE Install \/ Written \/ WriteStops
    BY <1>13 DEF PaidInv, Install, Written, WriteStops
<1> QED BY <1>1, <1>2, <1>3, <1>4, <1>5, <1>6, <1>7, <1>8, <1>9, <1>10, <1>11, <1>12, <1>13
        DEF Next, Step

\* A caller gets nothing before its record is written, and a record is written once.
LEMMA RecordStep == TypeOK /\ StageInv /\ RecordInv /\ [Next]_vars => RecordInv'
<1> SUFFICES ASSUME TypeOK, StageInv, RecordInv, [Next]_vars PROVE RecordInv'
    OBVIOUS
<1> USE DEF StageInv, Goes, engineVars, queryVars, history, RecordInv, Resolved
<1>1. CASE UNCHANGED vars
    BY <1>1 DEF vars
<1>2. ASSUME NEW q \in Queries, NEW c \in Callers, NEW m \in Modes, Ask(q, c, m)
      PROVE  RecordInv'
    BY <1>2 DEF TypeOK, Ask
<1>3. ASSUME NEW q \in Queries,
             Look(q) \/ Check(q) \/ Sign(q) \/ View(q) \/ Shape(q) \/ Run(q)
      PROVE  RecordInv'
    BY <1>3 DEF TypeOK, Look, Check, Sign, View, Shape, Run
<1>4. ASSUME NEW q \in Queries, Resolve(q) \/ Hit(q) PROVE RecordInv'
    BY <1>4 DEF TypeOK, Resolve, Hit
<1>5. ASSUME NEW q \in Queries, Plan(q) PROVE RecordInv'
    BY <1>5 DEF TypeOK, Plan
<1>6. ASSUME NEW q \in Queries, Audit(q) PROVE RecordInv'
  <2>1. CASE pc[q] \in {"signed", "planned", "failed"} /\ Leaves(q, "error") /\ UNCHANGED audit
      BY <2>1 DEF TypeOK, Leaves
  <2>2. CASE /\ pc[q] \in {"signed", "planned", "failed"}
             /\ audit' = [audit EXCEPT ![q] = Record(q, pc[q])]
             /\ Goes(q, Gets(pc[q]))
             /\ UNCHANGED <<engineVars, cache, spent, queryVars, history>>
    <3>1. Gets(pc[q]) = IF pc[q] = "signed" THEN "answered"
                        ELSE IF pc[q] = "planned" THEN "ready" ELSE "error"
        BY <2>2 DEF Gets
    <3>2. /\ audit'[q] = Record(q, pc[q])
          /\ Record(q, pc[q]) \in Records
        BY <2>2 DEF TypeOK, Record, Records, Resolutions
    <3>3. pc'[q] \in {"answered", "ready"} =>
             /\ pc[q] \in {"signed", "planned"}
             /\ Record(q, pc[q]).outcome = pc[q]
             /\ Record(q, pc[q]).comp = res[q].comp
             /\ Record(q, pc[q]).charges = paid[q]
        BY <2>2, <3>1 DEF TypeOK, Record
    <3> QED BY <2>2, <3>2, <3>3 DEF TypeOK
  <2> QED BY <1>6, <2>1, <2>2 DEF Audit
<1>7. ASSUME NEW q \in Queries, Fail(q) \/ Drop(q) PROVE RecordInv'
    BY <1>7 DEF TypeOK, Fail, Drop, Leaves
<1>8. ASSUME NEW e \in cache, Evict(e) PROVE RecordInv'
    BY <1>8 DEF Evict
<1>9. ASSUME NEW k \in Comps, Register(k) PROVE RecordInv'
    BY <1>9 DEF Register
<1>10. ASSUME NEW c \in Callers, Publish(c) \/ Unpublish(c) PROVE RecordInv'
    BY <1>10 DEF Publish, Unpublish
<1>11. CASE Install \/ Written \/ WriteStops
    BY <1>11 DEF Install, Written, WriteStops
<1> QED BY <1>1, <1>2, <1>3, <1>4, <1>5, <1>6, <1>7, <1>8, <1>9, <1>10, <1>11 DEF Next, Step

\* A query goes past its first look at the contract only when its caller could see it.
LEMMA SightStep == TypeOK /\ StageInv /\ SightInv /\ [Next]_vars => SightInv'
<1> SUFFICES ASSUME TypeOK, StageInv, SightInv, [Next]_vars PROVE SightInv'
    OBVIOUS
<1> USE DEF StageInv, Goes, engineVars, queryVars, history, SightInv, Resolved, Visible, Caller
<1>1. CASE UNCHANGED vars
    BY <1>1 DEF vars
<1>2. ASSUME NEW q \in Queries, NEW c \in Callers, NEW m \in Modes, Ask(q, c, m)
      PROVE  SightInv'
    BY <1>2 DEF TypeOK, Ask
<1>3. ASSUME NEW q \in Queries, Look(q) PROVE SightInv'
    BY <1>3 DEF TypeOK, Look
<1>4. ASSUME NEW q \in Queries, Check(q) \/ Sign(q) \/ View(q) \/ Shape(q) \/ Run(q)
      PROVE  SightInv'
    BY <1>4 DEF TypeOK, Check, Sign, View, Shape, Run
<1>5. ASSUME NEW q \in Queries, Resolve(q) \/ Hit(q) PROVE SightInv'
    BY <1>5 DEF TypeOK, Resolve, Hit
<1>6. ASSUME NEW q \in Queries, Plan(q) PROVE SightInv'
    BY <1>6 DEF TypeOK, Plan
<1>7. ASSUME NEW q \in Queries, Audit(q) PROVE SightInv'
  <2>1. CASE pc[q] \in {"signed", "planned", "failed"} /\ Leaves(q, "error") /\ UNCHANGED audit
      BY <2>1 DEF TypeOK, Leaves
  <2>2. CASE /\ pc[q] \in {"signed", "planned", "failed"}
             /\ audit' = [audit EXCEPT ![q] = Record(q, pc[q])]
             /\ Goes(q, Gets(pc[q]))
             /\ UNCHANGED <<engineVars, cache, spent, queryVars, history>>
    <3>1. Gets(pc[q]) = IF pc[q] = "signed" THEN "answered"
                        ELSE IF pc[q] = "planned" THEN "ready" ELSE "error"
        BY <2>2 DEF Gets
    <3> QED BY <2>2, <3>1 DEF TypeOK
  <2> QED BY <1>7, <2>1, <2>2 DEF Audit
<1>8. ASSUME NEW q \in Queries, Fail(q) \/ Drop(q) PROVE SightInv'
    BY <1>8 DEF TypeOK, Fail, Drop, Leaves
<1>9. ASSUME NEW e \in cache, Evict(e) PROVE SightInv'
    BY <1>9 DEF Evict
<1>10. ASSUME NEW k \in Comps, Register(k) PROVE SightInv'
    BY <1>10 DEF Register
<1>11. ASSUME NEW c \in Callers, Publish(c) PROVE SightInv'
  <2>1. \A q \in Queries : pc[q] # "idle" => asked[q] # None
      BY NoneAssumption
  <2> QED BY <1>11, <2>1 DEF Publish
<1>12. ASSUME NEW c \in Callers, Unpublish(c) PROVE SightInv'
    BY <1>12 DEF Unpublish
<1>13. CASE Install \/ Written \/ WriteStops
    BY <1>13 DEF Install, Written, WriteStops
<1> QED BY <1>1, <1>2, <1>3, <1>4, <1>5, <1>6, <1>7, <1>8, <1>9, <1>10, <1>11, <1>12, <1>13
        DEF Next, Step

\* Nothing but a registration between prepare's steps parts what is resolved from what is
\* applied.
LEMMA GovernStep == TypeOK /\ StageInv /\ GovernInv /\ [Next]_vars => GovernInv'
<1> SUFFICES ASSUME TypeOK, StageInv, GovernInv, [Next]_vars PROVE GovernInv'
    OBVIOUS
<1> USE DEF StageInv, GovernInv, Governed, Goes, engineVars, queryVars, history, Resolved, Viewed, Shaped,
            Drawn, Asks, Resolutions, Batches, Keys
<1>1. CASE UNCHANGED vars
    BY <1>1 DEF vars
<1>2. ASSUME NEW q \in Queries, NEW c \in Callers, NEW m \in Modes, Ask(q, c, m) PROVE GovernInv'
    BY <1>2 DEF TypeOK, Ask
<1>3. ASSUME NEW q \in Queries, Look(q) \/ Check(q) \/ Sign(q) PROVE GovernInv'
    BY <1>3 DEF TypeOK, Look, Check, Sign
<1>4. ASSUME NEW q \in Queries, Resolve(q) PROVE GovernInv'
    BY <1>4 DEF TypeOK, Resolve, Caller
<1>5. ASSUME NEW q \in Queries, View(q) PROVE GovernInv'
    BY <1>5 DEF TypeOK, View
<1>6. ASSUME NEW q \in Queries, Shape(q) PROVE GovernInv'
    BY <1>6 DEF TypeOK, Shape, Caller
<1>7. ASSUME NEW q \in Queries, Hit(q) PROVE GovernInv'
  <2>1. PICK e \in cache : e.key = Key(q) /\ ans' = [ans EXCEPT ![q] = e.batches]
      BY <1>7 DEF Hit
  <2>2. Governed(e.batches, res[q].comp, res[q].shapes)
      BY <2>1 DEF Key
  <2> QED BY <1>7, <2>1, <2>2 DEF TypeOK, Hit
<1>8. ASSUME NEW q \in Queries, Plan(q) PROVE GovernInv'
  <2>1. PICK b : b = Planned(q)
      OBVIOUS
  <2>2. b.draw = q /\ b.view = view[q] /\ b.noise = noise[q]
      BY <2>1 DEF Planned
  <2>3. ans' = [ans EXCEPT ![q] = b]
      BY <1>8, <2>1 DEF Plan
  <2> QED BY <1>8, <2>2, <2>3 DEF TypeOK, Plan
<1>9. ASSUME NEW q \in Queries, Run(q) PROVE GovernInv'
  <2>1. Governed(ans[q], Key(q).comp, Key(q).shapes)
      BY <1>9 DEF Run, Key
  <2>2. \A e \in cache' : Governed(e.batches, e.key.comp, e.key.shapes)
      BY <1>9, <2>1 DEF Run
  <2> QED BY <1>9, <2>2 DEF TypeOK, Run
<1>10. ASSUME NEW q \in Queries, Audit(q) PROVE GovernInv'
  <2>1. CASE pc[q] \in {"signed", "planned", "failed"} /\ Leaves(q, "error") /\ UNCHANGED audit
      BY <2>1 DEF TypeOK, Leaves
  <2>2. CASE /\ pc[q] \in {"signed", "planned", "failed"}
             /\ Goes(q, Gets(pc[q]))
             /\ UNCHANGED <<engineVars, cache, spent, queryVars, history>>
    <3>1. Gets(pc[q]) = IF pc[q] = "signed" THEN "answered"
                        ELSE IF pc[q] = "planned" THEN "ready" ELSE "error"
        BY <2>2 DEF Gets
    <3> QED BY <2>2, <3>1 DEF TypeOK
  <2> QED BY <1>10, <2>1, <2>2 DEF Audit
<1>11. ASSUME NEW q \in Queries, Fail(q) \/ Drop(q) PROVE GovernInv'
    BY <1>11 DEF TypeOK, Fail, Drop, Leaves
<1>12. ASSUME NEW e \in cache, Evict(e) PROVE GovernInv'
    BY <1>12 DEF Evict
<1>13. ASSUME NEW k \in Comps, Register(k) PROVE GovernInv'
  <2>1. \A q \in Queries : steady'[q] => steady[q] /\ pc[q] \notin {"view", "shape"}
      BY <1>13 DEF Register
  <2> QED BY <1>13, <2>1 DEF Register, TypeOK
<1>14. ASSUME NEW c \in Callers, Publish(c) \/ Unpublish(c) PROVE GovernInv'
    BY <1>14 DEF Publish, Unpublish
<1>15. CASE Install \/ Written \/ WriteStops
    BY <1>15 DEF Install, Written, WriteStops
<1> QED BY <1>1, <1>2, <1>3, <1>4, <1>5, <1>6, <1>7, <1>8, <1>9, <1>10, <1>11, <1>12, <1>13,
           <1>14, <1>15 DEF Next, Step

\* What is in the key is what the view was bound to, for the caller the rows are for.
LEMMA OwnStep == TypeOK /\ StageInv /\ GovernInv /\ OwnInv /\ [Next]_vars => OwnInv'
<1> SUFFICES ASSUME TypeOK, StageInv, GovernInv, OwnInv, [Next]_vars PROVE OwnInv'
    OBVIOUS
<1> USE DEF StageInv, OwnInv, Bound, Goes, engineVars, queryVars, history, Resolved, Viewed, Shaped,
            Drawn, Asks, Resolutions, Batches, Keys
<1>1. CASE UNCHANGED vars
    BY <1>1 DEF vars
<1>2. ASSUME NEW q \in Queries, NEW c \in Callers, NEW m \in Modes, Ask(q, c, m) PROVE OwnInv'
    BY <1>2 DEF TypeOK, Ask
<1>3. ASSUME NEW q \in Queries, Look(q) \/ Check(q) \/ Sign(q) PROVE OwnInv'
    BY <1>3, SMTT(30) DEF TypeOK, Look, Check, Sign
<1>4. ASSUME NEW q \in Queries, Resolve(q) \/ View(q) PROVE OwnInv'
    BY <1>4 DEF TypeOK, Resolve, View
<1>5. ASSUME NEW q \in Queries, Shape(q) PROVE OwnInv'
  <2>1. steady[q] => res[q].comp = comp
      BY <1>5 DEF Shape, GovernInv
  <2> QED BY <1>5, <2>1 DEF TypeOK, Shape, Caller
<1>6. ASSUME NEW q \in Queries, Hit(q) PROVE OwnInv'
  <2>1. PICK e \in cache : e.key = Key(q) /\ ans' = [ans EXCEPT ![q] = e.batches]
      BY <1>6 DEF Hit
  <2>2. Bound(e.batches, fingerprint[q])
      BY <2>1 DEF Key
  <2> QED BY <1>6, <2>1, <2>2 DEF TypeOK, Hit
<1>7. ASSUME NEW q \in Queries, Plan(q) PROVE OwnInv'
  <2>1. steady[q] => view[q] = res[q].comp
      BY <1>7 DEF Plan, GovernInv
  <2>2. PICK b : b = Planned(q)
      OBVIOUS
  <2>3. b.draw = q /\ b.bound = Params[view[q]][asked[q].caller]
      BY <2>2 DEF Planned, Caller
  <2>4. ans' = [ans EXCEPT ![q] = b]
      BY <1>7, <2>2 DEF Plan
  <2> QED BY <1>7, <2>1, <2>3, <2>4 DEF TypeOK, Plan
<1>8. ASSUME NEW q \in Queries, Run(q) PROVE OwnInv'
  <2>1. Bound(ans[q], Key(q).params)
      BY <1>8 DEF Run, Key
  <2>2. \A e \in cache' : Bound(e.batches, e.key.params)
      BY <1>8, <2>1 DEF Run
  <2> QED BY <1>8, <2>2 DEF TypeOK, Run
<1>9. ASSUME NEW q \in Queries, Audit(q) PROVE OwnInv'
  <2>1. CASE pc[q] \in {"signed", "planned", "failed"} /\ Leaves(q, "error") /\ UNCHANGED audit
      BY <2>1 DEF TypeOK, Leaves
  <2>2. CASE /\ pc[q] \in {"signed", "planned", "failed"}
             /\ Goes(q, Gets(pc[q]))
             /\ UNCHANGED <<engineVars, cache, spent, queryVars, history>>
    <3>1. Gets(pc[q]) = IF pc[q] = "signed" THEN "answered"
                        ELSE IF pc[q] = "planned" THEN "ready" ELSE "error"
        BY <2>2 DEF Gets
    <3> QED BY <2>2, <3>1 DEF TypeOK
  <2> QED BY <1>9, <2>1, <2>2 DEF Audit
<1>10. ASSUME NEW q \in Queries, Fail(q) \/ Drop(q) PROVE OwnInv'
    BY <1>10 DEF TypeOK, Fail, Drop, Leaves
<1>11. ASSUME NEW e \in cache, Evict(e) PROVE OwnInv'
    BY <1>11 DEF Evict
<1>12. ASSUME NEW k \in Comps, Register(k) PROVE OwnInv'
  <2>1. \A q \in Queries : steady'[q] => steady[q]
      BY <1>12 DEF Register
  <2> QED BY <1>12, <2>1 DEF Register, TypeOK
<1>13. ASSUME NEW c \in Callers, Publish(c) \/ Unpublish(c) PROVE OwnInv'
    BY <1>13 DEF Publish, Unpublish
<1>14. CASE Install \/ Written \/ WriteStops
    BY <1>14 DEF Install, Written, WriteStops
<1> QED BY <1>1, <1>2, <1>3, <1>4, <1>5, <1>6, <1>7, <1>8, <1>9, <1>10, <1>11, <1>12, <1>13,
           <1>14 DEF Next, Step

\* The invariant of the query path holds of every state of every engine.
LEMMA Invariant == Spec => []IInv
<1>1. IInv /\ [Next]_vars => IInv'
    BY StageStep, SeenStep, PaidStep, RecordStep, SightStep, GovernStep, OwnStep DEF IInv
<1> QED BY InitInv, <1>1, PTL DEF Spec

\* The state of the query path is well typed, for any callers, rules and queries.
THEOREM TypeCorrect == Spec => []TypeOK
<1>1. IInv => TypeOK
    BY DEF IInv
<1> QED BY Invariant, <1>1, PTL

\* A write that reported before a query was asked (Engine::publish_write) is in its
\* answer, cached or not, for any number of queries and writes.
THEOREM FinishedWritesAreSeen == Spec => []ReadsSeeFinishedWrites
<1>1. IInv => ReadsSeeFinishedWrites
    BY DEF IInv, TypeOK, StageInv, SeenInv, ReadsSeeFinishedWrites, Asks, Resolutions, Batches,
           Resolved, Drawn
<1> QED BY Invariant, <1>1, PTL

\* Every draw of noise that leaves the engine was charged (BudgetStore::charge_all), by the
\* query that drew it.
THEOREM EveryDrawIsPaid == Spec => []NoiseIsPaidFor
<1>1. IInv => NoiseIsPaidFor
    BY DEF IInv, PaidInv, NoiseIsPaidFor, Drawable, Drawn, Resolved
<1> QED BY Invariant, <1>1, PTL

\* What a caller gets was recorded first (Engine::audit), with the contract its envelope
\* names and what it was charged.
THEOREM EveryAnswerIsRecorded == Spec => []AnswersAreOnRecord
<1>1. IInv => AnswersAreOnRecord
  <2> SUFFICES ASSUME IInv, NEW q \in Queries, pc[q] \in {"answered", "ready"}
               PROVE  /\ audit[q] # None
                      /\ audit[q].outcome \in {"signed", "planned"}
                      /\ audit[q].comp = res[q].comp
                      /\ audit[q].charges = IF ans[q].draw = q THEN ans[q].noise ELSE 0
      BY DEF AnswersAreOnRecord
  <2>1. audit[q] # None
      BY NoneAssumption DEF IInv, RecordInv
  <2>2. paid[q] = IF ans[q].draw = q THEN ans[q].noise ELSE 0
      BY DEF IInv, PaidInv, Drawable, Drawn, Resolved
  <2> QED BY <2>1, <2>2 DEF IInv, RecordInv
<1> QED BY Invariant, <1>1, PTL

\* Nobody is answered who could not see the contract at some moment since it asked
\* (Engine::visible), not even from the cache.
THEOREM AnswersGoToTheAudience == Spec => []AnswersWereVisible
<1>1. IInv => AnswersWereVisible
    BY DEF IInv, SightInv, AnswersWereVisible, Resolved
<1> QED BY Invariant, <1>1, PTL

\* The envelope (Resolution) names the rules and the noise its batches were made with, for
\* any compilations and whatever the cache handed out, unless the contract was registered
\* again while the query that drew them was prepared.
THEOREM EnvelopesNameTheRules == Spec => []GovernedAsReported
<1>1. IInv => GovernedAsReported
    BY DEF IInv, GovernInv, Governed, GovernedAsReported, Drawn, Resolved
<1> QED BY Invariant, <1>1, PTL

\* A caller's answer is the one the contract gives that caller, whoever's query left it in
\* the cache (CacheKey::new, params_fingerprint), for any callers and parameters, unless the
\* contract was registered again while it, or the query that drew it, was prepared.
THEOREM CallersAreKeptApart == Spec => []AnswersAreForTheCaller
<1>1. IInv => AnswersAreForTheCaller
    BY DEF IInv, OwnInv, Bound, AnswersAreForTheCaller, Caller, Drawn, Resolved
<1> QED BY Invariant, <1>1, PTL

(***************************************************************************)
(* The ledger: what a caller's queries charged adds up to what it has      *)
(* spent.  Few queries, though there is no bound on how many there may be, *)
(* have been asked at any moment.                                          *)
(***************************************************************************)
Of(c) == {q \in Queries : asked[q] # None /\ Caller(q) = c}

LedgerInv ==
    /\ \A q \in Queries : pc[q] = "idle" => asked[q] = None
    /\ \A c \in Callers : IsFiniteSet(Of(c)) /\ spent[c] <= Limit /\ spent[c] = SumOf(paid, Of(c))

\* Nobody has asked anything, and nothing is spent.
LEMMA LedgerInit == Init => LedgerInv
<1> SUFFICES ASSUME Init PROVE LedgerInv
    OBVIOUS
<1>1. \A q \in Queries : asked[q] = None
    BY DEF Init
<1>2. ASSUME NEW c \in Callers
      PROVE  IsFiniteSet(Of(c)) /\ spent[c] <= Limit /\ spent[c] = SumOf(paid, Of(c))
  <2>1. Of(c) = {}
      BY <1>1 DEF Of
  <2>2. IsFiniteSet({}) /\ SumOf(paid, {}) = 0
      BY FS_EmptySet, SumOne
  <2>3. spent[c] = 0 /\ 0 <= Limit
      BY RulesAssumption DEF Init
  <2> QED BY <2>1, <2>2, <2>3
<1> QED BY <1>1, <1>2 DEF LedgerInv

\* A query that is asked has charged nothing yet.
LEMMA LedgerAsk ==
    ASSUME TypeOK, PaidInv, LedgerInv, NEW q \in Queries, NEW c \in Callers, NEW m \in Modes, Ask(q, c, m)
    PROVE  LedgerInv'
<1>1. /\ asked \in [Queries -> Asks \cup {None}] /\ pc \in [Queries -> PCs] /\ stamp \in Nat
      /\ \A x \in Queries : paid[x] \in Nat
    BY DEF TypeOK
<1>2. PICK a \in Asks : a = [caller |-> c, mode |-> m, since |-> stamp]
    BY <1>1 DEF Asks
<1>3. a # None /\ a.caller = c
    BY <1>2, NoneAssumption
<1>4. /\ pc[q] = "idle" /\ pc' = [pc EXCEPT ![q] = "asked"] /\ asked' = [asked EXCEPT ![q] = a]
      /\ spent' = spent /\ paid' = paid
    BY <1>2 DEF Ask, Goes
<1>5. asked[q] = None /\ paid[q] = 0
    BY <1>4 DEF LedgerInv, PaidInv, Early
<1>6. ASSUME NEW p \in Queries, pc'[p] = "idle" PROVE asked'[p] = None
    BY <1>1, <1>4, <1>6 DEF LedgerInv
<1>7. ASSUME NEW d \in Callers
      PROVE  IsFiniteSet(Of(d)') /\ spent'[d] <= Limit /\ spent'[d] = SumOf(paid', Of(d)')
  <2>1. PICK S : S = Of(d)
      OBVIOUS
  <2>2. IsFiniteSet(S) /\ spent[d] <= Limit /\ spent[d] = SumOf(paid, S) /\ S \subseteq Queries
      BY <2>1 DEF LedgerInv, Of
  <2>3. CASE d = c
    <3>1. Of(d)' = S \cup {q} /\ q \notin S
        BY <1>1, <1>3, <1>4, <1>5, <2>1, <2>3 DEF Of, Caller
    <3>2. PICK T : T = S \cup {q}
        OBVIOUS
    <3>3. IsFiniteSet(T)
        BY <2>2, <3>2, FS_AddElement
    <3>4. SumOf(paid, T) = paid[q] + SumOf(paid, T \ {q})
      <4>1. (\A x \in T : paid[x] \in Nat) /\ q \in T
          BY <1>1, <2>2, <3>2
      <4> QED BY <3>3, <4>1, SumAny
    <3>5. T \ {q} = S
        BY <3>1, <3>2
    <3>6. SumOf(paid, S) \in Nat
      <4>1. \A x \in S : paid[x] \in Nat
          BY <1>1, <2>2
      <4> QED BY <2>2, <4>1, SumNat
    <3>7. SumOf(paid, T) = SumOf(paid, S)
        BY <1>5, <3>4, <3>5, <3>6
    <3> QED BY <1>4, <2>2, <3>1, <3>2, <3>3, <3>7
  <2>4. CASE d # c
    <3>1. Of(d)' = S
        BY <1>1, <1>3, <1>4, <1>5, <2>1, <2>4 DEF Of, Caller
    <3> QED BY <1>4, <2>2, <3>1
  <2> QED BY <2>3, <2>4
<1> QED BY <1>6, <1>7 DEF LedgerInv

\* charge_all adds to the caller's account what the query draws.
LEMMA LedgerPlan ==
    ASSUME TypeOK, StageInv, PaidInv, LedgerInv, NEW q \in Queries, Plan(q)
    PROVE  LedgerInv'
<1>1. /\ asked \in [Queries -> Asks \cup {None}] /\ pc \in [Queries -> PCs]
      /\ paid \in [Queries -> Nat] /\ noise[q] \in Nat /\ spent \in [Callers -> Nat]
    BY DEF TypeOK
<1>2. PICK c, e : c = Caller(q) /\ e = noise[q]
    OBVIOUS
<1>3. /\ pc[q] = "prepared" /\ spent[c] + e <= Limit
      /\ spent' = [spent EXCEPT ![c] = spent[c] + e] /\ paid' = [paid EXCEPT ![q] = e] /\ asked' = asked
      /\ pc' = [pc EXCEPT ![q] = IF asked[q].mode = "plan" THEN "planned" ELSE "run"]
    BY <1>2 DEF Plan, Goes
<1>4. asked[q] \in Asks /\ paid[q] = 0
    BY <1>3 DEF StageInv, PaidInv, Early
<1>5. asked[q] # None /\ c \in Callers
    BY <1>2, <1>4, NoneAssumption DEF Asks, Caller
<1>6. ASSUME NEW p \in Queries, pc'[p] = "idle" PROVE asked'[p] = None
    BY <1>1, <1>3, <1>6 DEF LedgerInv
<1>7. ASSUME NEW d \in Callers
      PROVE  IsFiniteSet(Of(d)') /\ spent'[d] <= Limit /\ spent'[d] = SumOf(paid', Of(d)')
  <2>1. PICK S : S = Of(d)
      OBVIOUS
  <2>2. /\ IsFiniteSet(S) /\ spent[d] <= Limit /\ spent[d] = SumOf(paid, S) /\ S \subseteq Queries
        /\ Of(d)' = S
      BY <1>3, <2>1 DEF LedgerInv, Of, Caller
  <2>3. PICK f \in [Queries -> Nat] : f = paid'
      BY <1>1, <1>2, <1>3
  <2>4. CASE d = c
    <3>1. q \in S
        BY <1>2, <1>5, <2>1, <2>4 DEF Of
    <3>2. IsFiniteSet(S \ {q})
        BY <2>2, FS_RemoveElement
    <3>3. (\A x \in S : paid[x] \in Nat) /\ (\A x \in S : f[x] \in Nat)
        BY <1>1, <2>2, <2>3
    <3>4. SumOf(paid, S) = paid[q] + SumOf(paid, S \ {q})
        BY <2>2, <3>1, <3>3, SumAny
    <3>5. SumOf(f, S) = f[q] + SumOf(f, S \ {q})
        BY <2>2, <3>1, <3>3, SumAny
    <3>6. SumOf(paid, S \ {q}) = SumOf(f, S \ {q})
      <4>1. Equal(paid, f, S \ {q})
          BY <1>1, <1>3, <2>2, <2>3 DEF Equal
      <4> QED BY <3>2, <4>1, SumSame
    <3>7. SumOf(f, S \ {q}) \in Nat
      <4>1. \A x \in S \ {q} : f[x] \in Nat
          BY <3>3
      <4> QED BY <3>2, <4>1, SumNat
    <3>8. f[q] = e
        BY <1>1, <1>3, <2>3
    <3>9. spent[d] = SumOf(f, S \ {q})
        BY <1>4, <2>2, <3>4, <3>6, <3>7
    <3>10. spent'[d] = spent[d] + e
        BY <1>1, <1>3, <2>4
    <3>11. spent'[d] = SumOf(f, S)
        BY <1>1, <1>2, <3>5, <3>7, <3>8, <3>9, <3>10
    <3> QED BY <1>3, <2>2, <2>3, <2>4, <3>10, <3>11
  <2>5. CASE d # c
    <3>1. Equal(paid, f, S)
      <4>1. q \notin S
          BY <1>2, <2>1, <2>5 DEF Of
      <4> QED BY <1>1, <1>3, <2>2, <2>3, <4>1 DEF Equal
    <3>2. SumOf(paid, S) = SumOf(f, S)
        BY <2>2, <3>1, SumSame
    <3>3. spent'[d] = spent[d]
        BY <1>1, <1>3, <2>5
    <3> QED BY <2>2, <2>3, <3>2, <3>3
  <2> QED BY <2>4, <2>5
<1> QED BY <1>6, <1>7 DEF LedgerInv

\* Nothing but a plan charges, whatever fails, is dropped or is answered from the cache.
LEMMA LedgerStep == TypeOK /\ StageInv /\ PaidInv /\ LedgerInv /\ [Next]_vars => LedgerInv'
<1> SUFFICES ASSUME TypeOK, StageInv, PaidInv, LedgerInv, [Next]_vars PROVE LedgerInv'
    OBVIOUS
<1>1. ASSUME NEW q \in Queries, NEW c \in Callers, NEW m \in Modes, Ask(q, c, m) PROVE LedgerInv'
    BY <1>1, LedgerAsk
<1>2. ASSUME NEW q \in Queries, Plan(q) PROVE LedgerInv'
    BY <1>2, LedgerPlan
<1>3. ASSUME asked' = asked, spent' = spent, paid' = paid, \A p \in Queries : pc'[p] = "idle" => pc[p] = "idle"
      PROVE  LedgerInv'
  <2>1. ASSUME NEW c \in Callers PROVE Of(c)' = Of(c)
      BY <1>3 DEF Of, Caller
  <2> QED BY <1>3, <2>1 DEF LedgerInv
<1> DEFINE Quiet == /\ asked' = asked /\ spent' = spent /\ paid' = paid
                    /\ \A p \in Queries : pc'[p] = "idle" => pc[p] = "idle"
<1>4. ASSUME NEW q \in Queries, Look(q) \/ Resolve(q) \/ View(q) \/ Shape(q) \/ Check(q) PROVE Quiet
    BY <1>4 DEF TypeOK, Look, Resolve, View, Shape, Check, Goes, queryVars
<1>5. ASSUME NEW q \in Queries, Hit(q) \/ Run(q) \/ Sign(q) \/ Fail(q) \/ Drop(q) PROVE Quiet
    BY <1>5 DEF TypeOK, Hit, Run, Sign, Fail, Drop, Leaves, Goes, queryVars
<1>6. ASSUME NEW q \in Queries, Audit(q) PROVE Quiet
  <2>1. CASE Leaves(q, "error")
      BY <2>1 DEF TypeOK, Leaves, Goes
  <2>2. CASE /\ pc[q] \in {"signed", "planned", "failed"}
             /\ Goes(q, Gets(pc[q]))
             /\ UNCHANGED <<engineVars, cache, spent, queryVars, history>>
    <3>1. Gets(pc[q]) # "idle"
        BY <2>2 DEF Gets
    <3> QED BY <2>2, <3>1 DEF TypeOK, Goes, queryVars
  <2> QED BY <1>6, <2>1, <2>2 DEF Audit
<1>7. ASSUME NEW e \in cache, Evict(e) PROVE Quiet
    BY <1>7 DEF Evict, queryVars
<1>8. ASSUME NEW k \in Comps, Register(k) PROVE Quiet
    BY <1>8 DEF Register, queryVars
<1>9. ASSUME NEW c \in Callers, Publish(c) \/ Unpublish(c) PROVE Quiet
    BY <1>9 DEF Publish, Unpublish, queryVars
<1>10. CASE Install \/ Written \/ WriteStops
  <2>1. Quiet
      BY <1>10 DEF Install, Written, WriteStops, queryVars
  <2> QED BY <1>3, <2>1
<1>11. CASE UNCHANGED vars
  <2>1. Quiet
      BY <1>11 DEF vars, queryVars
  <2> QED BY <1>3, <2>1
<1>12. ASSUME NEW q \in Queries, Step(q) \/ Drop(q) PROVE LedgerInv'
  <2>1. CASE Plan(q)
      BY <1>2, <2>1
  <2>2. CASE ~Plan(q)
    <3>1. Quiet
        BY <1>4, <1>5, <1>6, <1>12, <2>2 DEF Step
    <3> QED BY <1>3, <3>1
  <2> QED BY <2>1, <2>2
<1> QED BY <1>1, <1>3, <1>7, <1>8, <1>9, <1>10, <1>11, <1>12 DEF Next

\* BudgetLedger through the engine: however a caller's queries interleave, fail or are
\* dropped, its account holds exactly what they charged (charge_all), within its limit.
THEOREM LedgerHolds == Spec => []LedgerIsExact
<1>1. IInv /\ LedgerInv /\ [Next]_vars => LedgerInv'
    BY LedgerStep DEF IInv
<1>2. Spec => []LedgerInv
    BY LedgerInit, Invariant, <1>1, PTL DEF Spec
<1>3. LedgerInv => LedgerIsExact
    BY DEF LedgerInv, LedgerIsExact, SumOf, Of
<1> QED BY <1>2, <1>3, PTL
=============================================================================

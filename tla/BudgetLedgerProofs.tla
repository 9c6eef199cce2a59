------------------------ MODULE BudgetLedgerProofs ------------------------
(***************************************************************************)
(* BudgetLedger for every set of callers, budgets, charges and limits: when *)
(* one engine at a time has the workspace open, spending survives restarts *)
(* and failed saves, and no answer goes over the limit.                    *)
(***************************************************************************)
EXTENDS BudgetLedger, TLAPS

\* What a query has been charged and not yet saved (charge_all) is a number.
LEMMA PendingType ==
    ASSUME TypeOK, NEW e \in Engines, NEW a \in Accounts
    PROVE  Pending(e, a) \in Nat
BY DEF TypeOK, Pending, Accounts

\* Adding a query's charges (charge_all) keeps the spending a number for every budget.
LEMMA PlusType ==
    ASSUME NEW s \in [Accounts -> Nat], NEW c, NEW ch \in [Budgets -> Nat]
    PROVE  Plus(s, c, ch) \in [Accounts -> Nat]
BY DEF Plus, Accounts

\* The ledger of a new workspace (BudgetStore::open) is a ledger.
LEMMA EmptyType == Empty \in Ledger /\ Free \in [at : {"free", "taken", "saved"},
                       caller : Callers \cup {None}, charges : [Budgets -> Nat]]
BY LimitsAssumption DEF Empty, Ledger, Free, Accounts

(***************************************************************************)
(* The inductive invariant of one account a while engine e has the         *)
(* workspace open: memory is ahead of the file, both lie between what was  *)
(* paid and what was paid or is owed, and neither is over the limit.  The  *)
(* charge in progress (Pending) is in memory, and in owed, already.        *)
(***************************************************************************)
AccountInv(a) ==
    /\ paid[a] <= file.spent[a]
    /\ file.spent[a] <= paid[a] + owed[a]
    /\ file.spent[a] <= top[a[1]]
    /\ file.limits[a[1]] <= top[a[1]]
    /\ \A e \in Engines : Pending(e, a) <= owed[a]
    /\ \A e \in up :
          /\ mem[e].spent[a] <= paid[a] + owed[a]
          /\ paid[a] + Pending(e, a) <= mem[e].spent[a]
          /\ held[e].at = "saved" => paid[a] + Pending(e, a) <= file.spent[a]
          /\ mem[e].spent[a] <= top[a[1]]
          /\ mem[e].limits[a[1]] <= top[a[1]]

\* The lock is free in an engine that is not running.
LockInv == \A e \in Engines : /\ held[e].at = "free" => held[e] = Free
                              /\ e \notin up => held[e] = Free

IInv == TypeOK /\ LockInv /\ \A a \in Accounts : AccountInv(a)

\* One engine has the workspace open at a time.
OneEngine == \A e, f \in Engines : e = f

\* The invariant holds of a new workspace, before any engine opened it.
LEMMA InitInv == Init => IInv
<1> SUFFICES ASSUME Init PROVE IInv
    OBVIOUS
<1>1. TypeOK
    BY EmptyType, LimitsAssumption DEF Init, TypeOK
<1>2. LockInv
    BY DEF Init, LockInv
<1>3. ASSUME NEW a \in Accounts PROVE AccountInv(a)
    BY LimitsAssumption, CallersAssumption
       DEF Init, AccountInv, Accounts, Empty, Free, Pending
<1> QED BY <1>1, <1>2, <1>3 DEF IInv

\* A step of the one engine e leaves the invariant true.
LEMMA StepInv == OneEngine /\ IInv /\ [Next]_vars => IInv'
<1> SUFFICES ASSUME OneEngine, IInv, [Next]_vars PROVE IInv'
    OBVIOUS
<1> USE DEF IInv
<1>a. \A e \in Engines, a \in Accounts : Pending(e, a) \in Nat
    BY PendingType
<1>1. ASSUME UNCHANGED vars PROVE IInv'
    BY <1>1 DEF vars, TypeOK, LockInv, AccountInv, Pending
<1>2. ASSUME NEW e \in Engines, Open(e) PROVE IInv'
  <2> USE <1>2 DEF Open
  <2>1. TypeOK'
      BY DEF TypeOK
  <2>2. LockInv'
      BY DEF LockInv
  <2>3. ASSUME NEW a \in Accounts PROVE AccountInv(a)'
    <3>1. Pending(e, a) = 0 /\ held[e].at = "free"
        BY CallersAssumption DEF LockInv, Free, Pending, Accounts
    <3>2. up' = {e} /\ mem'[e] = file
        BY DEF OneEngine, TypeOK
    <3>3. \A f \in Engines : Pending(f, a)' = Pending(f, a)
        BY DEF Pending
    <3> QED BY <3>1, <3>2, <3>3, <1>a DEF AccountInv, TypeOK, Accounts, Ledger, OneEngine
  <2> QED BY <2>1, <2>2, <2>3
<1>3. ASSUME NEW e \in Engines, NEW c \in Callers, NEW ch \in Charges, ChargeAll(e, c, ch)
      PROVE  IInv'
  <2> USE <1>3 DEF ChargeAll
  <2>0. ch \in [Budgets -> Nat]
      BY ChargesAssumption
  <2>a. ASSUME NEW a \in Accounts
        PROVE  /\ mem'[e].spent[a] = mem[e].spent[a] + Pending(e, a)'
               /\ owed'[a] = owed[a] + Pending(e, a)'
               /\ Pending(e, a)' \in Nat
               /\ Pending(e, a) = 0
               /\ a[1] \in Budgets
               /\ mem'[e].limits = mem[e].limits
               /\ mem[e].spent[a] + Pending(e, a)' <= IF mem[e].spent[a] > mem[e].limits[a[1]]
                                           THEN mem[e].spent[a] ELSE mem[e].limits[a[1]]
    <3>1. a[1] \in Budgets /\ a[2] \in Callers /\ a = <<a[1], a[2]>>
        BY DEF Accounts
    <3>2. held'[e] = [at |-> "taken", caller |-> c, charges |-> ch]
        BY DEF TypeOK
    <3>3. Pending(e, a)' = IF a[2] = c THEN ch[a[1]] ELSE 0
        BY <3>2 DEF Pending
    <3>4. Pending(e, a) = 0
        BY <3>1, CallersAssumption DEF LockInv, Free, Pending
    <3>5. /\ mem[e] \in Ledger
          /\ mem'[e] = [limits |-> mem[e].limits, spent |-> Plus(mem[e].spent, c, ch)]
        BY DEF TypeOK
    <3>6. /\ mem'[e].spent[a] = IF a[2] = c THEN mem[e].spent[a] + ch[a[1]] ELSE mem[e].spent[a]
          /\ mem'[e].limits = mem[e].limits
          /\ mem[e].spent[a] \in Nat
          /\ mem[e].limits[a[1]] \in Nat
        BY <3>5, <3>1 DEF Ledger, Plus
    <3>8. owed'[a] = IF a[2] = c THEN owed[a] + ch[a[1]] ELSE owed[a]
        BY DEF Plus
    <3>7. a[2] = c => mem[e].spent[a] + ch[a[1]] <= mem[e].limits[a[1]] \/ ch[a[1]] = 0
        BY <3>1, <2>0 DEF Fits
    <3> QED BY <3>1, <3>3, <3>4, <3>6, <3>7, <3>8, <2>0 DEF TypeOK
  <2>1. TypeOK'
    <3>1. owed' \in [Accounts -> Nat]
        BY <2>0, PlusType DEF TypeOK
    <3>2. mem' \in [Engines -> Ledger]
        BY <2>0, PlusType DEF TypeOK, Ledger
    <3>3. held' \in [Engines -> [at : {"free", "taken", "saved"},
                                 caller : Callers \cup {None}, charges : [Budgets -> Nat]]]
        BY <2>0 DEF TypeOK
    <3> QED BY <3>1, <3>2, <3>3 DEF TypeOK
  <2>2. LockInv'
      BY DEF LockInv, TypeOK
  <2>3. ASSUME NEW a \in Accounts PROVE AccountInv(a)'
    <3>1. held'[e].at = "taken" /\ Engines = {e} /\ up = {e} /\ up' = {e}
        BY DEF TypeOK, OneEngine
    <3>2. /\ paid[a] \in Nat /\ owed[a] \in Nat /\ top[a[1]] \in Nat
          /\ file.spent[a] \in Nat /\ file.limits[a[1]] \in Nat
          /\ mem[e].spent[a] \in Nat /\ mem[e].limits[a[1]] \in Nat
        BY <2>a DEF TypeOK, Ledger
    <3>3. AccountInv(a)
        OBVIOUS
    <3>4. UNCHANGED <<file, paid, top>>
        OBVIOUS
    <3> HIDE <1>3 DEF ChargeAll, IInv
    <3> QED BY <2>a, <3>1, <3>2, <3>3, <3>4 DEF AccountInv
  <2> QED BY <2>1, <2>2, <2>3
<1>4. ASSUME NEW e \in Engines, NEW b \in Budgets, NEW n \in Limits, SetLimit(e, b, n)
      PROVE  IInv'
  <2> USE <1>4 DEF SetLimit
  <2>0. n \in Nat
      BY LimitsAssumption
  <2>1. TypeOK'
    <3>1. mem' \in [Engines -> Ledger]
        BY <2>0 DEF TypeOK, Ledger
    <3>2. held' \in [Engines -> [at : {"free", "taken", "saved"},
                                 caller : Callers \cup {None}, charges : [Budgets -> Nat]]]
        BY DEF TypeOK, Free
    <3>3. top' \in [Budgets -> Nat]
        BY <2>0 DEF TypeOK
    <3> QED BY <3>1, <3>2, <3>3 DEF TypeOK
  <2>2. LockInv'
      BY DEF LockInv, TypeOK
  <2>3. ASSUME NEW a \in Accounts PROVE AccountInv(a)'
    <3>1. a[1] \in Budgets /\ a[2] \in Callers
        BY DEF Accounts
    <3>2. Pending(e, a) = 0 /\ Pending(e, a)' = 0
        BY <3>1, CallersAssumption DEF LockInv, Free, Pending, TypeOK
    <3>3. mem[e] \in Ledger /\ mem'[e] = [limits |-> [mem[e].limits EXCEPT ![b] = n],
                                          spent |-> mem[e].spent]
        BY DEF TypeOK
    <3>4. /\ mem'[e].spent = mem[e].spent
          /\ mem'[e].limits[a[1]] = IF a[1] = b THEN n ELSE mem[e].limits[a[1]]
          /\ mem[e].spent[a] \in Nat
          /\ mem[e].limits[a[1]] \in Nat
        BY <3>1, <3>3 DEF Ledger
    <3>5. top'[a[1]] = IF a[1] = b /\ n > top[a[1]] THEN n ELSE top[a[1]]
        BY <3>1, <2>0 DEF TypeOK
    <3>6. held'[e].at = "taken"
        BY DEF TypeOK
    <3> QED BY <3>1, <3>2, <3>4, <3>5, <3>6, <2>0 DEF AccountInv, TypeOK, Ledger, OneEngine
  <2> QED BY <2>1, <2>2, <2>3
<1>5. ASSUME NEW e \in Engines, Save(e) PROVE IInv'
  <2> USE <1>5 DEF Save
  <2>0. held'[e] = [at |-> "saved", caller |-> held[e].caller, charges |-> held[e].charges]
      BY DEF TypeOK
  <2>1. TypeOK'
      BY DEF TypeOK
  <2>2. LockInv' /\ e \in up
      BY DEF LockInv, Free, TypeOK
  <2>3. ASSUME NEW a \in Accounts PROVE AccountInv(a)'
    <3>1. Pending(e, a)' = Pending(e, a) /\ Pending(e, a) \in Nat
        BY <2>0, PendingType DEF Pending
    <3>2. a[1] \in Budgets
        BY DEF Accounts
    <3> QED BY <2>2, <3>1, <3>2 DEF AccountInv, TypeOK, Ledger, OneEngine
  <2> QED BY <2>1, <2>2, <2>3
<1>6. ASSUME NEW e \in Engines, SaveFails(e) PROVE IInv'
  <2> USE <1>6 DEF SaveFails
  <2>1. TypeOK'
      BY EmptyType DEF TypeOK
  <2>2. LockInv'
      BY DEF LockInv, TypeOK
  <2>3. ASSUME NEW a \in Accounts PROVE AccountInv(a)'
    <3>1. a[1] \in Budgets /\ a[2] \in Callers
        BY DEF Accounts
    <3>2. held'[e] = Free
        BY DEF TypeOK
    <3>3. Pending(e, a)' = 0 /\ held'[e].at = "free" /\ Pending(e, a) \in Nat
        BY <3>1, <3>2, CallersAssumption, PendingType DEF Free, Pending
    <3> QED BY <3>1, <3>3 DEF AccountInv, TypeOK, Ledger, OneEngine
  <2> QED BY <2>1, <2>2, <2>3
<1>7. ASSUME NEW e \in Engines, Answered(e) PROVE IInv'
  <2> USE <1>7 DEF Answered
  <2>0. e \in up
      BY DEF LockInv, Free, TypeOK
  <2>a. \A a \in Accounts : Pending(e, a) \in Nat /\ Pending(e, a) <= owed[a]
      BY PendingType DEF AccountInv
  <2>1. TypeOK'
    <3>1. paid' \in [Accounts -> Nat] /\ owed' \in [Accounts -> Nat]
        BY <2>a DEF TypeOK
    <3> QED BY <3>1, EmptyType DEF TypeOK
  <2>2. LockInv'
      BY DEF LockInv, TypeOK
  <2>3. ASSUME NEW a \in Accounts PROVE AccountInv(a)'
    <3>1. a[1] \in Budgets /\ a[2] \in Callers
        BY DEF Accounts
    <3>2. held'[e] = Free
        BY DEF TypeOK
    <3>3. Pending(e, a)' = 0 /\ held'[e].at = "free"
        BY <3>1, <3>2, CallersAssumption DEF Free, Pending
    <3>4. paid'[a] = paid[a] + Pending(e, a) /\ owed'[a] = owed[a] - Pending(e, a)
        OBVIOUS
    <3> QED BY <2>0, <2>a, <3>1, <3>3, <3>4 DEF AccountInv, TypeOK, Ledger, OneEngine
  <2> QED BY <2>1, <2>2, <2>3
<1>8. ASSUME NEW e \in Engines, Stop(e) PROVE IInv'
  <2> USE <1>8 DEF Stop
  <2>1. TypeOK'
      BY EmptyType DEF TypeOK
  <2>2. LockInv'
      BY DEF LockInv, TypeOK
  <2>3. ASSUME NEW a \in Accounts PROVE AccountInv(a)'
    <3>1. a[1] \in Budgets /\ a[2] \in Callers
        BY DEF Accounts
    <3>2. held'[e] = Free /\ up' = {}
        BY DEF TypeOK, OneEngine
    <3>3. Pending(e, a)' = 0 /\ Pending(e, a) \in Nat
        BY <3>1, <3>2, CallersAssumption, PendingType DEF Free, Pending
    <3> QED BY <3>1, <3>2, <3>3 DEF AccountInv, TypeOK, Ledger, OneEngine
  <2> QED BY <2>1, <2>2, <2>3
<1> QED BY <1>1, <1>2, <1>3, <1>4, <1>5, <1>6, <1>7, <1>8 DEF Next

\* With one engine, the ledger in memory, on disk and in the hands of charge_all stays a
\* ledger: in particular nothing owed goes below zero, so no charge is answered twice.
THEOREM LedgerTypeCorrect == OneEngine => (Spec => []TypeOK)
<1> SUFFICES ASSUME OneEngine PROVE Spec => []TypeOK
    OBVIOUS
<1>1. IInv => TypeOK
    BY DEF IInv
<1> QED BY InitInv, StepInv, <1>1, PTL DEF Spec

\* With one engine, spending survives every crash and failed save (BudgetStore::save
\* before charge_all answers Ok), for any callers, budgets, charges and limits.
THEOREM SpendingSurvives == OneEngine => (Spec => []SpendingIsKept)
<1> SUFFICES ASSUME OneEngine PROVE Spec => []SpendingIsKept
    OBVIOUS
<1>1. IInv => SpendingIsKept
    BY DEF IInv, AccountInv, SpendingIsKept
<1> QED BY InitInv, StepInv, <1>1, PTL DEF Spec

\* With one engine, the file never holds spending nobody was charged: charge_all takes
\* every charge of a query or none.
THEOREM SpendingIsCharged == OneEngine => (Spec => []NothingElseIsSpent)
<1> SUFFICES ASSUME OneEngine PROVE Spec => []NothingElseIsSpent
    OBVIOUS
<1>1. IInv => NothingElseIsSpent
    BY DEF IInv, AccountInv, NothingElseIsSpent
<1> QED BY InitInv, StepInv, <1>1, PTL DEF Spec

\* With one engine, the answers a caller gets cost at most the highest limit the budget
\* had (charge_all's check), across restarts, failed saves and changes of the limit.
THEOREM LimitHolds == OneEngine => (Spec => []AnswersWithinLimit)
<1> SUFFICES ASSUME OneEngine PROVE Spec => []AnswersWithinLimit
    OBVIOUS
<1>1. ASSUME IInv, NEW b \in Budgets, NEW c \in Callers PROVE paid[<<b, c>>] <= top[b]
  <2> DEFINE a == <<b, c>>
  <2>1. a \in Accounts /\ a[1] = b
      BY DEF Accounts
  <2>2. AccountInv(a) /\ paid[a] \in Nat /\ file.spent[a] \in Nat /\ top[b] \in Nat
      BY <1>1, <2>1 DEF IInv, TypeOK, Ledger
  <2> HIDE DEF a
  <2> QED BY <2>1, <2>2 DEF AccountInv, a
<1>2. IInv => AnswersWithinLimit
    BY <1>1 DEF AnswersWithinLimit
<1> QED BY InitInv, StepInv, <1>2, PTL DEF Spec
=============================================================================

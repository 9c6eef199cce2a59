---------------------------- MODULE BudgetLedger ----------------------------
(***************************************************************************)
(* The privacy budget ledger (src/src/budget.rs) of one workspace: engines *)
(* (processes) that opened it, each with the ledger in memory behind its   *)
(* lock, over one file.  A store opened over a file is never permissive.   *)
(*                                                                         *)
(* Epsilon is counted in whole units.  parcel_runtime's shape::apply,      *)
(* which lists a query's charges, is outside this repository; it gives one *)
(* amount per budget, the largest (docs/execution.md:50), so the charges   *)
(* are a function from budgets to amounts; 0 is "not charged".             *)
(***************************************************************************)
EXTENDS Integers

CONSTANTS
    Engines, Callers, Budgets,
    Charges,       \* what a query may charge: amounts by budget
    Limits,        \* the limits an operator may set
    DefaultLimit,  \* the limit of a budget that has none of its own
    None

ASSUME ChargesAssumption == Charges \subseteq [Budgets -> Nat]
ASSUME LimitsAssumption == Limits \subseteq Nat /\ DefaultLimit \in Nat
ASSUME CallersAssumption == None \notin Callers

VARIABLES
    file,  \* budgets.json; the ledger of nothing spent when it does not exist
    up,    \* the engines that have the workspace open
    mem,   \* mem[e]: the ledger e holds in memory
    held,  \* held[e]: what the holder of e's lock is doing
    paid,  \* history: epsilon of the charges answered Ok
    owed,  \* history: epsilon of the charges taken and not (yet) answered Ok
    top    \* history: the highest limit a budget ever had

vars == <<file, up, mem, held, paid, owed, top>>

Accounts == Budgets \X Callers
Ledger   == [limits : [Budgets -> Nat], spent : [Accounts -> Nat]]

\* Ledger::default.  A budget without a limit of its own has the default one.
Empty == [limits |-> [b \in Budgets |-> DefaultLimit], spent |-> [a \in Accounts |-> 0]]

Free == [at |-> "free", caller |-> None, charges |-> [b \in Budgets |-> 0]]

\* What the charge in progress at e takes from account a.
Pending(e, a) == IF held[e].caller = a[2] THEN held[e].charges[a[1]] ELSE 0

Init ==
    /\ file = Empty
    /\ up   = {}
    /\ mem  = [e \in Engines |-> Empty]
    /\ held = [e \in Engines |-> Free]
    /\ paid = [a \in Accounts |-> 0]
    /\ owed = [a \in Accounts |-> 0]
    /\ top  = [b \in Budgets |-> DefaultLimit]

\* Mutant of Open: a workspace is opened with nothing spent.
OpenEmpty(e) ==
    /\ e \notin up
    /\ up'  = up \cup {e}
    /\ mem' = [mem EXCEPT ![e] = [file EXCEPT !.spent = Empty.spent]]
    /\ UNCHANGED <<file, held, paid, owed, top>>

\* BudgetStore::open.
Open(e) ==
    /\ e \notin up
    /\ up'  = up \cup {e}
    /\ mem' = [mem EXCEPT ![e] = file]
    /\ UNCHANGED <<file, held, paid, owed, top>>

\* The amounts s of the accounts with charges ch of caller c added.
Plus(s, c, ch) == [a \in Accounts |-> IF a[2] = c THEN s[a] + ch[a[1]] ELSE s[a]]

\* Whether the charges fit what is left of every budget they are taken from.
Fits(l, c, ch) ==
    \A b \in Budgets : ch[b] > 0 => l.spent[<<b, c>>] + ch[b] <= l.limits[b]

\* Mutant of ChargeAll: each budget is checked and charged in turn.
ChargeEach(e, c, ch) ==
    /\ e \in up
    /\ held[e].at = "free"
    /\ mem' = [mem EXCEPT ![e].spent = [a \in Accounts |->
           IF a[2] = c /\ @[a] + ch[a[1]] <= mem[e].limits[a[1]] THEN @[a] + ch[a[1]] ELSE @[a]]]
    /\ held' = IF Fits(mem[e], c, ch)
               THEN [held EXCEPT ![e] = [at |-> "taken", caller |-> c, charges |-> ch]]
               ELSE held
    /\ owed' = IF Fits(mem[e], c, ch)
               THEN Plus(owed, c, ch) ELSE owed
    /\ UNCHANGED <<file, up, paid, top>>

\* BudgetStore::charge_all up to the save, under the lock.  Charges that do not fit
\* change nothing: the query is refused.
ChargeAll(e, c, ch) ==
    /\ e \in up
    /\ held[e].at = "free"
    /\ Fits(mem[e], c, ch)
    /\ mem'  = [mem EXCEPT ![e] = [limits |-> @.limits, spent |-> Plus(@.spent, c, ch)]]
    /\ held' = [held EXCEPT ![e] = [at |-> "taken", caller |-> c, charges |-> ch]]
    /\ owed' = Plus(owed, c, ch)
    /\ UNCHANGED <<file, up, paid, top>>

\* BudgetStore::set_limit up to the save.
SetLimit(e, b, n) ==
    /\ e \in up
    /\ held[e].at = "free"
    /\ mem'  = [mem EXCEPT ![e] = [limits |-> [@.limits EXCEPT ![b] = n], spent |-> @.spent]]
    /\ held' = [held EXCEPT ![e] = [at |-> "taken", caller |-> None, charges |-> Free.charges]]
    /\ top'  = [top EXCEPT ![b] = IF n > @ THEN n ELSE @]
    /\ UNCHANGED <<file, up, paid, owed>>

\* BudgetStore::save: the whole ledger, renamed into place.
Save(e) ==
    /\ held[e].at = "taken"
    /\ file' = mem[e]
    /\ held' = [held EXCEPT ![e] = [at |-> "saved", caller |-> @.caller, charges |-> @.charges]]
    /\ UNCHANGED <<up, mem, paid, owed, top>>

\* The file cannot be written: an error, and what was taken stays taken.
SaveFails(e) ==
    /\ held[e].at = "taken"
    /\ held' = [held EXCEPT ![e] = Free]
    /\ UNCHANGED <<file, up, mem, paid, owed, top>>

\* Mutant of Answered: Ok whether or not the ledger was saved.
AnsweredEarly(e) ==
    /\ held[e].at \in {"taken", "saved"}
    /\ paid' = [a \in Accounts |-> paid[a] + Pending(e, a)]
    /\ owed' = [a \in Accounts |-> owed[a] - Pending(e, a)]
    /\ held' = [held EXCEPT ![e] = Free]
    /\ UNCHANGED <<file, up, mem, top>>

\* Mutant of Answered: the lock is not released.
AnsweredAgain(e) ==
    /\ held[e].at = "saved"
    /\ paid' = [a \in Accounts |-> paid[a] + Pending(e, a)]
    /\ owed' = [a \in Accounts |-> owed[a] - Pending(e, a)]
    /\ UNCHANGED <<file, up, mem, held, top>>

\* charge_all answers Ok and releases the lock; the query goes on.
Answered(e) ==
    /\ held[e].at = "saved"
    /\ paid' = [a \in Accounts |-> paid[a] + Pending(e, a)]
    /\ owed' = [a \in Accounts |-> owed[a] - Pending(e, a)]
    /\ held' = [held EXCEPT ![e] = Free]
    /\ UNCHANGED <<file, up, mem, top>>

\* The process ends, at any point.
Stop(e) ==
    /\ e \in up
    /\ up'   = up \ {e}
    /\ mem'  = [mem EXCEPT ![e] = Empty]
    /\ held' = [held EXCEPT ![e] = Free]
    /\ UNCHANGED <<file, paid, owed, top>>

Next == \E e \in Engines :
    \/ Open(e) \/ Save(e) \/ SaveFails(e) \/ Answered(e) \/ Stop(e)
    \/ \E c \in Callers, ch \in Charges : ChargeAll(e, c, ch)
    \/ \E b \in Budgets, n \in Limits : SetLimit(e, b, n)

Spec == Init /\ [][Next]_vars

-----------------------------------------------------------------------------
\* The state is well typed.
TypeOK ==
    /\ file \in Ledger
    /\ up \subseteq Engines
    /\ mem \in [Engines -> Ledger]
    /\ held \in [Engines -> [at : {"free", "taken", "saved"},
                             caller : Callers \cup {None}, charges : [Budgets -> Nat]]]
    /\ paid \in [Accounts -> Nat]
    /\ owed \in [Accounts -> Nat]
    /\ top \in [Budgets -> Nat]

\* Spending survives restarts: what callers were told they paid (charge_all answered
\* Ok) is in the file, whatever crashes and failed saves came since.
SpendingIsKept == \A a \in Accounts : paid[a] <= file.spent[a]

\* All or none: the file never holds more than was paid, but for charges that were
\* taken whole and whose caller got an error (a save that failed) or no answer.
NothingElseIsSpent == \A a \in Accounts : file.spent[a] <= paid[a] + owed[a]

\* The answers a caller got never cost more than the highest limit the budget had,
\* across restarts and changes of the limit.
AnswersWithinLimit == \A b \in Budgets, c \in Callers : paid[<<b, c>>] <= top[b]
=============================================================================

------------------------------ MODULE CommitLoop ------------------------------
(***************************************************************************)
(* The loop a commit that peQL computes itself runs in when the table      *)
(* moves under it (src/src/iceberg_table.rs): the schema change a write    *)
(* begins with (IcebergLocation::evolve) and the commit of a rewrite       *)
(* (IcebergWrite::commit_rewrite), both retried by CommitRetry.  In        *)
(* IcebergTable the other writers are as few as the instance has; here     *)
(* they never stop, and what they leave is seen only by what it means to   *)
(* the loop:                                                               *)
(*   "open"    the columns lack / what was appended can be carried forward *)
(*   "spoilt"  a column has another type / the files were replaced         *)
(*   "made"    another writer made the same schema change                  *)
(* Time is a clock since the loop started, which stops once it is past the *)
(* table's total-timeout: later moments are alike to the loop.             *)
(***************************************************************************)
EXTENDS Naturals, FiniteSetsExt

CONSTANTS
    Policies,   \* what a table's commit.retry.* properties may say
    Delays      \* how long a load or a commit may take

ASSUME PoliciesAssumption ==
    Policies \subseteq [retries : Nat, minWait : Nat, maxWait : Nat, total : Nat]
ASSUME DelaysAssumption == Delays \subseteq Nat /\ Delays # {}

VARIABLES
    job,      \* "schema" or "rewrite"
    policy,   \* the table's retry properties, read once
    pc,
    table,    \* the table as the catalog has it
    saw,      \* the table as the loop last loaded it
    moved,    \* another writer committed since
    taken,    \* the catalog took a commit of the loop
    retried,  \* Retrying.retried
    elapsed   \* Retrying.started.elapsed()

vars == <<job, policy, pc, table, saw, moved, taken, retried, elapsed>>

Tables == IF job = "schema" THEN {"open", "spoilt", "made"} ELSE {"open", "spoilt"}

Init ==
    /\ job \in {"schema", "rewrite"}
    /\ policy \in Policies
    /\ pc = "load"
    /\ table \in Tables
    /\ saw = table
    /\ moved = FALSE
    /\ taken = FALSE
    /\ retried = 0
    /\ elapsed = 0

\* The clock after d more.
Later(d) == LET t == elapsed + d IN IF t > policy.total THEN policy.total + 1 ELSE t

\* What the loop does with a table it has just loaded: schema_change, carried.
Looked(t) ==
    CASE t = "made"   -> "done"
      [] t = "spoilt" -> "refused"
      [] t = "open"   -> "attempt"

\* The table is loaded for an attempt.  (A rewrite also loads and looks once before
\* its first attempt, to read what was appended: one load stands for both.)
Load ==
    /\ pc = "load"
    /\ saw' = table
    /\ moved' = FALSE
    /\ pc' = Looked(table)
    /\ \E d \in Delays : elapsed' = Later(d)
    /\ UNCHANGED <<job, policy, table, taken, retried>>

\* Mutant of Changed: the catalog's answer is enough.
ChangedForSure ==
    /\ job = "schema"
    /\ table' \in IF moved THEN Tables ELSE {"made"}
    /\ pc' = "done"

\* The catalog took a schema change.  The crate may have applied it, in a retry of
\* its own, over a schema that had moved again: the table committed is looked at
\* once more.
Changed ==
    /\ job = "schema"
    /\ table' \in IF moved THEN Tables ELSE {"made"}
    /\ pc' = IF table' = "open" THEN "wait" ELSE Looked(table')

\* The catalog takes the commit.  When the answer does not arrive, a rewrite ends in an
\* error, as it does when its manifest list cannot be removed; a schema change loads the
\* table, which has moved, and takes its own change for another writer's.
Take ==
    /\ pc = "attempt"
    /\ \/ Changed
       \/ job = "rewrite" /\ ~moved /\ pc' = "done" /\ UNCHANGED table
       \/ /\ ~moved
          /\ table' = IF job = "schema" THEN "made" ELSE table
          /\ pc' \in IF job = "schema" THEN {"wait", "failed"} ELSE {"failed"}
    /\ saw' = table'
    /\ moved' = FALSE
    /\ taken' = TRUE
    /\ \E d \in Delays : elapsed' = Later(d)
    /\ UNCHANGED <<job, policy, retried>>

\* The catalog refuses the commit: the table moved.  A schema change loads it again
\* to see that it did.
Refuse ==
    /\ pc = "attempt"
    /\ moved
    /\ pc' = "wait"
    /\ IF job = "schema" THEN saw' = table /\ moved' = FALSE ELSE UNCHANGED <<saw, moved>>
    /\ \E d \in Delays : elapsed' = Later(d)
    /\ UNCHANGED <<job, policy, table, taken, retried>>

\* CommitRetry::wait_for: how long the wait before retry n + 1 may be, its random
\* share included.  The shift, the product and the sum saturate, above max-wait.
Waits(n) ==
    LET most == policy.maxWait
        base == Min({policy.minWait * 2^Min({n, 31}), most})
    IN  base .. Min({2 * base, most})

\* The retries or the time are spent.  A schema change looks at the table once more:
\* another writer may have made it.
GiveUp ==
    /\ pc' = IF job = "schema" /\ saw # "open" THEN Looked(saw) ELSE "conflict"
    /\ UNCHANGED <<retried, elapsed>>

\* Mutant of Wait: the retries are not counted out.
WaitUncounted ==
    /\ pc = "wait"
    /\ \E u \in Waits(retried) :
          IF elapsed + u > policy.total THEN GiveUp
          ELSE /\ retried' = IF retried < policy.retries THEN retried + 1 ELSE retried
               /\ elapsed' = Later(u)
               /\ pc' = "load"
    /\ UNCHANGED <<job, policy, table, saw, moved, taken>>

\* Mutant of Wait: only the time that has passed is compared, not the wait.
WaitTooLong ==
    /\ pc = "wait"
    /\ \/ retried >= policy.retries /\ GiveUp
       \/ /\ retried < policy.retries
          /\ \E u \in Waits(retried) :
                IF elapsed > policy.total THEN GiveUp
                ELSE /\ retried' = retried + 1
                     /\ elapsed' = Later(u)
                     /\ pc' = "load"
    /\ UNCHANGED <<job, policy, table, saw, moved, taken>>

\* Mutant of Wait: one retry more than the table allows.
WaitOnceMore ==
    /\ pc = "wait"
    /\ \/ retried > policy.retries /\ GiveUp
       \/ /\ retried <= policy.retries
          /\ \E u \in Waits(retried) :
                IF elapsed + u > policy.total THEN GiveUp
                ELSE /\ retried' = retried + 1
                     /\ elapsed' = Later(u)
                     /\ pc' = "load"
    /\ UNCHANGED <<job, policy, table, saw, moved, taken>>

\* Retrying::wait.
Wait ==
    /\ pc = "wait"
    /\ \/ retried >= policy.retries /\ GiveUp
       \/ /\ retried < policy.retries
          /\ \E u \in Waits(retried) :
                IF elapsed + u > policy.total THEN GiveUp
                ELSE /\ retried' = retried + 1
                     /\ elapsed' = Later(u)
                     /\ pc' = "load"
    /\ UNCHANGED <<job, policy, table, saw, moved, taken>>

\* A load, a file or a commit fails: the error is the write's.
Fail ==
    /\ pc \in {"load", "attempt"}
    /\ pc' = "failed"
    /\ UNCHANGED <<job, policy, table, saw, moved, taken, retried, elapsed>>

\* Another writer commits to the table.
Move ==
    /\ table' \in Tables
    /\ moved' = TRUE
    /\ UNCHANGED <<job, policy, pc, saw, taken, retried, elapsed>>

Step == Load \/ Take \/ Refuse \/ Wait

Next == Step \/ Fail \/ Move

\* The runtime polls the write until it ends; nothing makes the other writers stop,
\* and nothing makes them move the table.
Spec == Init /\ [][Next]_vars /\ WF_vars(Step)

-----------------------------------------------------------------------------
Ended == {"done", "refused", "conflict", "failed"}

\* A commit ends, with the table's answer or an error, though other writers move the
\* table under every attempt and for ever (the bound of Retrying::wait): also when
\* the table asks for no wait at all, so that its time never runs out.
CommitsEnd == pc = "load" ~> pc \in Ended

\* A table's retry properties are kept: no more retries than num-retries, and "no retry
\* starts once total-timeout-ms has passed": each begins with time left, its own wait
\* and everything the attempts before it took included.
RetriesKeepThePolicy ==
    /\ retried <= policy.retries
    /\ pc = "load" /\ retried > 0 => elapsed <= policy.total

\* A write begins under a table that was seen with its columns, and never on the
\* catalog's word alone (evolve); a rewrite that reports a conflict is not in the
\* table, though other writers and its own retries came between, and one that
\* reports success is.
AnswersAreTrue ==
    /\ job = "schema" /\ pc = "done" => saw = "made"
    /\ job = "rewrite" /\ pc \in {"conflict", "refused"} => ~taken
    /\ job = "rewrite" /\ pc = "done" => taken
=============================================================================

---------------------------- MODULE MCFileTable ----------------------------
(***************************************************************************)
(* FileTable on a small instance.  Every compilation calls its rule "r":   *)
(* under Strict the rows of Bad break it, under any other no row does.  No *)
(* query runs once a write has stopped halfway: it could record a manifest *)
(* only as a validation does.                                              *)
(***************************************************************************)
EXTENDS FileTable, TLC

CONSTANTS
    Bad, Strict,
    MaxOpen,     \* writes begun and not ended, at once
    MaxBusy,     \* writes publishing and validations, at once
    MaxStopped,  \* writes that stop
    MaxTorn,     \* writes that stop while they publish
    Again,       \* whether contracts are registered again
    Agreeing     \* whether what runs at once is under rules that agree

\* Every file of Bad has four rows, any other three, one of them with a null.
MCRows   == [w \in Writes |-> IF w \in Bad THEN 4 ELSE 3]
MCNulls  == [w \in Writes |-> 1]
MCRules  == [k \in Comps |-> [i \in {"r"} |-> IF k = Strict THEN Bad ELSE {}]]

\* The rules are in the contract's document, or in a function it calls.
InDocument == [c \in Contracts |-> [k \in Comps |-> <<c, k>>]]
InFunction == [c \in Contracts |-> [k \in Comps |-> c]]

Open   == {w \in Writes : job[w] # NoJob}
Stopped == {w \in Writes : pc[w] \in {"stopped", "torn"}}
Active == {r \in Readers : task[r] # Idle}

Bounds ==
    /\ Cardinality(Open) <= MaxOpen
    /\ Cardinality(Publishing) + Cardinality(Refreshing) <= MaxBusy
    /\ Cardinality(Stopped) <= MaxStopped
    /\ Cardinality(Torn) <= MaxTorn
    /\ Agreeing => Agreed
    /\ Torn # {} => \A r \in Readers : task[r].use # "query"

\* A contract is registered again between queries, and not once a write is torn: under
\* Strict, since an old flag that says more rows break their contract does no harm.
Registers ==
    \A c \in Contracts : comp'[c] # comp[c] =>
        Again /\ Active = {} /\ Torn = {} /\ comp'[c] = Strict

Alike == Permutations(Writes \ Bad) \cup Permutations(Contracts)

MCSpec == Init /\ [][Next /\ Bounds' /\ Registers]_vars
=============================================================================

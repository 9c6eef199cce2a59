----------------------------- MODULE MCQueryPath -----------------------------
(***************************************************************************)
(* QueryPath on a small instance: compilations Plain (no noise), Noisy     *)
(* (noise for everyone but the owner), and Closed (noise, and nobody but   *)
(* the owner admitted).  Under Plain the parameters tell the owner from    *)
(* the others; under any other compilation they tell nobody apart.         *)
(***************************************************************************)
EXTENDS QueryPath, TLC

CONSTANTS
    Plain, Noisy, Closed,
    MaxData,      \* writes that publish files
    MaxUncached   \* queries in a mode without a cache: spooled, planned, checked

MCAllows == [k \in Comps |-> [c \in Callers |-> k # Closed \/ c = Owner]]
MCNoise  == [k \in Comps |-> [c \in Callers |-> IF k = Plain \/ c = Owner THEN 0 ELSE 1]]
MCParams == [k \in Comps |-> [c \in Callers |->
                IF k # Plain THEN "any" ELSE IF c = Owner THEN "owner" ELSE "other"]]

Uncached == {q \in Queries : asked[q] # None /\ asked[q].mode # "query"}

\* The files change only among queries that the cache may answer: every other query
\* lists them as they are when it is planned.  Nor is the contract unshared once they
\* have: who may see it and what it shows have nothing to do with each other.
Bounds ==
    /\ data <= MaxData
    /\ Owner \notin audience
    /\ Cardinality(Uncached) <= MaxUncached
    /\ Uncached # {} => data = 0
    /\ data # 0 => audience = Callers \ {Owner}

Alike == Permutations(Queries) \cup Permutations(Callers \ {Owner})

MCSpec == Init /\ [][Next /\ Bounds']_vars
=============================================================================

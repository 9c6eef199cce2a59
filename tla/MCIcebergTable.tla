--------------------------- MODULE MCIcebergTable ---------------------------
(***************************************************************************)
(* IcebergTable on a small instance.  Each batch is one row; the rows of   *)
(* the writes in Bad break a rule under the compilation Strict.            *)
(***************************************************************************)
EXTENDS IcebergTable, TLC

CONSTANTS
    Bad, Strict,
    MaxOpen,      \* writes in progress at once
    MaxOwn,       \* writes and compactions by peQL
    MaxForeign,   \* commits by other engines
    MaxCrashed,   \* writes whose process stops or that fail
    MaxExpired,   \* snapshots expired
    MaxRefuse     \* writes under `refuse'

MCRowCount  == [B \in SUBSET Writes |-> Cardinality(B)]
MCFailCount == [k \in Comps |-> [B \in SUBSET Writes |->
                  IF k = Strict THEN Cardinality(B \cap Bad) ELSE 0]]
\* A guarantee on the number of rows: at least two.
MCGuarantee == [k \in Comps |-> [B \in SUBSET Writes |-> Cardinality(B) >= 2]]

\* How often each thing outside peQL's control happens, counted on the state.
Count(P(_)) == Cardinality({w \in Writes : P(w)})
Bounds ==
    /\ Count(LAMBDA w : pc[w] \in {"writing", "ready", "attempt", "recording"}) <= MaxOpen
    /\ Count(LAMBDA w : kind[w] # "none") <= MaxOwn
    /\ Count(LAMBDA w : pc[w] = "foreign") <= MaxForeign
    /\ Count(LAMBDA w : pc[w] \in {"failed", "crashed"}) <= MaxCrashed
    /\ Count(LAMBDA w : policy[w] = "refuse") <= MaxRefuse
    /\ Len(log) - Cardinality(live) <= MaxExpired

\* The writes that are alike may be exchanged.
Alike == Permutations(Writes \ Bad)

MCSpec == Init /\ [][Next /\ Bounds']_vars

MCFairSpec == MCSpec /\ \A r \in Readers : WF_vars(Read(r))
=============================================================================

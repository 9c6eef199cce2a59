---------------------------- MODULE MCWorkspace ----------------------------
(***************************************************************************)
(* Workspace on a small instance.  The stores and the ledger share nothing *)
(* but the process: a behaviour uses one or the other.                     *)
(***************************************************************************)
EXTENDS Workspace, TLC

CONSTANTS
    MaxOwed,    \* epsilon charged to an account without an answer
    MaxCharge,  \* epsilon a query charges to a budget
    MaxParcel,  \* upgrades
    MaxExcused  \* kinds of damage in one behaviour

\* Names as contracts have them: "sales/orders", and "sales__orders".
Ordinary   == <<"x", "/", "x">>
Underlined == <<"x", "_", "_", "x">>

\* The names that come back from their directory are those in which no underscore is
\* followed by an underscore or a slash.
ASSUME NamesReturn ==
    \A n \in 0 .. 6 : \A name \in [1 .. n -> Chars] :
        Returns(name) <=>
            \A i \in 1 .. (n - 1) : name[i] = "_" => name[i + 1] \notin {"_", "/"}

MCCharges == {ch \in [Budgets -> 0 .. MaxCharge] : \E b \in Budgets : ch[b] > 0}

(***************************************************************************)
(* What a behaviour uses besides the contract: the ledger, or whom the     *)
(* contract is shared with and other versions of parcel, or the function.  *)
(* Another tenant wants the function only where there is no contract.      *)
(***************************************************************************)
LedgerUnused ==
    /\ file = Empty
    /\ \A e \in Engines : mem[e] = Empty /\ held[e] = Free
    /\ \A a \in Accounts : paid[a] = 0 /\ owed[a] = 0
    /\ \A b \in Budgets : top[b] = DefaultLimit

Contracts == ({stored[v] : v \in Versions} \cup {call[c].contract : c \in Calls}) \ {None}

ContractUnused == Contracts = {}

SharingUnused ==
    /\ parcel = 0 /\ published = None
    /\ \A c \in Calls : call[c].at # "names"

FunctionUnused(T) ==
    /\ \A t \in T : module[t] = None /\ \A c \in Calls : call[c].tenant # t
    /\ \A e \in Engines : store[e].registry = None \/ store[e].registry.owner \notin T

StoresUnused == ContractUnused /\ SharingUnused /\ FunctionUnused(Tenants) /\ excused = {}

Bounds ==
    /\ \A a \in Accounts : owed[a] <= MaxOwed
    /\ parcel <= MaxParcel
    /\ Cardinality(excused) <= MaxExcused
    /\ \A e \in Engines : Owner \notin store[e].audiences
    /\ LedgerUnused \/ StoresUnused
    /\ SharingUnused \/ FunctionUnused(Tenants)
    /\ ContractUnused \/ FunctionUnused(Tenants \ {Owner})

Alike == Permutations(Callers) \cup Permutations(Calls) \cup Permutations(Hashes)

MCSpec == WInit /\ [][WNext /\ Bounds']_<<vars, storeVars>>
=============================================================================

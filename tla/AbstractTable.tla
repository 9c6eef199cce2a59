---------------------------- MODULE AbstractTable ----------------------------
(***************************************************************************)
(* What the table promises its writers: the rows a reader of the current   *)
(* version sees change only by a whole write, atomically.  An append adds  *)
(* its rows to whatever is there; an overwrite replaces exactly the        *)
(* version it began from; a rewrite changes no row; a write that is not in *)
(* the table when it ends never is.  Another engine's commit does what it  *)
(* likes, as a version of its own.                                         *)
(***************************************************************************)
EXTENDS Naturals

CONSTANT Writes

VARIABLES
    rows,     \* the batches a reader of the current version sees
    version,  \* how many commits made it
    state,    \* state[w]: "idle", "open", "in" the table, "out" of it
    kind,     \* kind[w]: what w does to the rows
    began     \* began[w]: the version current when w began

vars == <<rows, version, state, kind, began>>

Init ==
    /\ rows = {}
    /\ version = 0
    /\ state = [w \in Writes |-> "idle"]
    /\ kind  = [w \in Writes |-> "none"]
    /\ began = [w \in Writes |-> 0]

Begin(w, k) ==
    /\ state[w] = "idle"
    /\ state' = [state EXCEPT ![w] = "open"]
    /\ kind'  = [kind EXCEPT ![w] = k]
    /\ began' = [began EXCEPT ![w] = version]
    /\ UNCHANGED <<rows, version>>

Take(w, from) ==
    /\ state[w] = from
    /\ state' = [state EXCEPT ![w] = "in"]
    /\ version' = version + 1
    /\ UNCHANGED <<kind, began>>

AppendRows(w)  == kind[w] = "append" /\ rows' = rows \cup {w} /\ Take(w, "open")
ReplaceRows(w) == kind[w] = "overwrite" /\ began[w] = version /\ rows' = {w} /\ Take(w, "open")
RewriteRows(w) == kind[w] = "rewrite" /\ rows' = rows /\ Take(w, "open")

Fail(w) ==
    /\ state[w] = "open"
    /\ state' = [state EXCEPT ![w] = "out"]
    /\ UNCHANGED <<rows, version, kind, began>>

Other(w) == rows' \subseteq rows \cup {w} /\ Take(w, "idle")

Next == \E w \in Writes :
    \/ \E k \in {"append", "overwrite", "rewrite"} : Begin(w, k)
    \/ AppendRows(w) \/ ReplaceRows(w) \/ RewriteRows(w) \/ Fail(w) \/ Other(w)

Spec == Init /\ [][Next]_vars
=============================================================================

---------------------------- MODULE MCDelivery ----------------------------
(***************************************************************************)
(* Delivery on a small instance: answers under Small are withheld below    *)
(* two rows.  Bound: the queries that run together either all go through   *)
(* the cache or none does, and in the second case the cache is empty.  A   *)
(* spooled answer and a plan do not use the cache, and every query has its *)
(* own connection to the signer.                                           *)
(***************************************************************************)
EXTENDS Delivery

CONSTANTS Small

MCK == [k \in Keys |-> IF k = Small THEN 2 ELSE 0]
MCReadsOf == [k \in Keys |-> Tables]

Cached == \E q \in Queries : job[q].mode = "collect"
Uncached == \E q \in Queries : job[q].mode \in {"spool", "plan"}

Together == ~(Cached /\ Uncached) /\ (Uncached => lru = <<>>)

MCSpec == Init /\ [][Next /\ Together']_vars /\ Fairness
=============================================================================

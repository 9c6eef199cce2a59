---------------------------- MODULE MCCommitLoop ----------------------------
(***************************************************************************)
(* CommitLoop under retry properties of every shape: no retry, no wait, a  *)
(* wait that reaches its maximum, time that runs out first.                *)
(***************************************************************************)
EXTENDS CommitLoop

CONSTANTS
    MaxRetries,   \* num-retries
    MaxTotal      \* total-timeout, in the clock's units

MCPolicies ==
    [retries : 0 .. MaxRetries, minWait : {0, 1}, maxWait : {1, 3}, total : {0, MaxTotal}]
=============================================================================

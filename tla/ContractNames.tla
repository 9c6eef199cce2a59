---------------------------- MODULE ContractNames ----------------------------
(***************************************************************************)
(* The directory of a contract in a workspace (src/src/store.rs): its name *)
(* with every "/" written as "__", and back when the workspace is opened.  *)
(* The versions in the directory carry their contract's name themselves;   *)
(* the audiences in published.json and the names of stale versions are     *)
(* those of the name the directory decodes to.                             *)
(***************************************************************************)
EXTENDS Naturals, Sequences

\* The characters of a name, as far as the conversion tells them apart.
Chars == {"x", "/", "_"}

\* DirStore::contract_dir.
ContractDir(name) ==
    LET from[i \in 1 .. (Len(name) + 1)] ==
            IF i > Len(name) THEN <<>>
            ELSE (IF name[i] = "/" THEN <<"_", "_">> ELSE <<name[i]>>) \o from[i + 1]
    IN  from[1]

\* decode: the pairs of underscores from the left.
Decode(dir) ==
    LET from[i \in 1 .. (Len(dir) + 1)] ==
            IF i > Len(dir) THEN <<>>
            ELSE IF i < Len(dir) /\ dir[i] = "_" /\ dir[i + 1] = "_" THEN <<"/">> \o from[i + 2]
            ELSE <<dir[i]>> \o from[i + 1]
    IN  from[1]

\* The name comes back from its directory.
Returns(name) == Decode(ContractDir(name)) = name
=============================================================================

------------------------------ MODULE Delivery ------------------------------
(***************************************************************************)
(* How the rows of a planned query reach its caller: the operator that     *)
(* withholds a small result (src/src/shape.rs, SuppressExec), the engine   *)
(* that collects or spools what it lets through (Engine::run, spool), the  *)
(* cache of collected answers (src/src/cache.rs), the signer at the other  *)
(* end of a socket (src/src/signer.rs) and the Flight stream               *)
(* (src/src/flight.rs, FlightSql::answer).  What a query is allowed, pays  *)
(* and records is QueryPath's; here a query is planned and charged already.*)
(*                                                                         *)
(* Batches are counted in rows, and a row takes one byte.  Time passes in  *)
(* ticks.                                                                  *)
(***************************************************************************)
EXTENDS Integers, Sequences

CONSTANTS
    Queries,
    Keys,        \* cache keys: everything an answer depends on (QueryPath)
    K,           \* K[k]: the suppress threshold in force under key k; 0 for none
    Tables,
    ReadsOf,     \* ReadsOf[k]: the contracts a query of key k reads
    MaxBatch,    \* rows of a batch
    MaxRows,     \* rows of a result
    MaxEntries, MaxBytes, Ttl,   \* QueryCacheConfig
    None

ASSUME KAssumption == K \in [Keys -> Nat] /\ ReadsOf \in [Keys -> SUBSET Tables]
ASSUME SizesAssumption ==
    MaxBatch \in Nat /\ MaxRows \in Nat /\ MaxEntries \in Nat \ {0} /\ MaxBytes \in Nat /\ Ttl \in Nat

\* What is signed, and what is on a connection to the signer.
Envelopes == [query : Queries \cup {None}, rows : Nat]
Connections == [asked : Envelopes, answer : Envelopes \cup {None}]

ASSUME NoneAssumption == None \notin Connections

VARIABLES
    signer,   \* whether the engine signs (Engine::with_signer)
    job,      \* job[q]: what the engine does for q
    conn,     \* conn[q]: q's connection to the signer
    seen,     \* seen[q]: rows that left the engine for q, while it lasts
    lru,      \* the cache, least recently used first
    bytes     \* Inner::total_bytes

vars == <<signer, job, conn, seen, lru, bytes>>

\* total: the rows the plan's input gave; held: rows SuppressExec holds back; out: the
\* rows collected or spooled; age: how old a cached answer was when it was taken; sig:
\* what the signer signed.
NoJob == [at |-> "idle", mode |-> "none", key |-> None, total |-> 0, held |-> 0, out |-> 0,
          age |-> 0, sig |-> None]

Modes == {"collect", "spool", "plan"}

Init ==
    /\ signer \in BOOLEAN
    /\ job  = [q \in Queries |-> NoJob]
    /\ conn = [q \in Queries |-> None]
    /\ seen = [q \in Queries |-> 0]
    /\ lru = <<>> /\ bytes = 0

cacheVars == <<lru, bytes>>

Becomes(q, j) == job' = [job EXCEPT ![q] = j] /\ UNCHANGED signer

(***************************************************************************)
(* The cache                                                               *)
(***************************************************************************)
\* The bytes of the entries of s.
Weight(s) ==
    LET W[n \in 0 .. Len(s)] == IF n = 0 THEN 0 ELSE W[n - 1] + s[n].bytes
    IN  W[Len(s)]

\* The entries of s whose key is in S, in order.
Those(s, S) ==
    LET T[n \in 0 .. Len(s)] == IF n = 0 THEN <<>>
                                ELSE IF s[n].key \in S THEN Append(T[n - 1], s[n]) ELSE T[n - 1]
    IN  T[Len(s)]

\* The entries of the cache whose key is not in S.
Without(S) == Those(lru, Keys \ S)

\* The key's entry: age is what Entry::at says, old the time since it was computed.
Entry(k) == {lru[i] : i \in {n \in DOMAIN lru : lru[n].key = k}}

\* Mutant of Get: an entry that is asked for is as good as new.
GetRenewed(k) ==
    LET live == {e \in Entry(k) : e.age <= Ttl}
        rest == Without({k})
    IN  /\ lru' = IF live = {} THEN rest
                  ELSE Append(rest, [CHOOSE e \in live : TRUE EXCEPT !.age = 0])
        /\ bytes' = IF live = {} THEN bytes - Weight(Those(lru, {k})) ELSE bytes

\* QueryCache::get: an entry past its time is dropped; one that is not is now the most
\* recently used, and no younger.
Get(k) ==
    LET live == {e \in Entry(k) : e.age <= Ttl}
        rest == Without({k})
    IN  /\ lru' = IF live = {} THEN rest ELSE Append(rest, CHOOSE e \in live : TRUE)
        /\ bytes' = IF live = {} THEN bytes - Weight(Those(lru, {k})) ELSE bytes

\* How many of the least recently used entries go to make room for n bytes.
Popped(n) ==
    CHOOSE i \in 0 .. Len(lru) :
        /\ bytes - Weight(SubSeq(lru, 1, i)) + n <= MaxBytes \/ i = Len(lru)
        /\ \A j \in 0 .. (i - 1) : bytes - Weight(SubSeq(lru, 1, j)) + n > MaxBytes

\* Mutant of Put: the bytes of an entry that is replaced are not given back.
PutForgetful(k, rows, total) ==
    LET left == SubSeq(lru, Popped(rows) + 1, Len(lru))
        same == Those(left, Keys \ {k})
    IN  IF rows > MaxBytes THEN UNCHANGED cacheVars
        ELSE /\ lru' = Append(IF Len(same) = MaxEntries THEN Tail(same) ELSE same,
                              [key |-> k, rows |-> rows, total |-> total, bytes |-> rows, age |-> 0, old |-> 0])
             /\ bytes' = Weight(left) + rows

\* Mutant of Put: nothing goes when there are as many entries as there may be.
PutUncounted(k, rows, total) ==
    LET left == SubSeq(lru, Popped(rows) + 1, Len(lru))
    IN  IF rows > MaxBytes THEN UNCHANGED cacheVars
        ELSE /\ lru' = Append(Those(left, Keys \ {k}),
                              [key |-> k, rows |-> rows, total |-> total, bytes |-> rows, age |-> 0, old |-> 0])
             /\ bytes' = bytes - Weight(SubSeq(lru, 1, Popped(rows))) - Weight(Those(left, {k})) + rows

\* QueryCache::put: an answer too large for the cache is not kept; otherwise entries are
\* popped until it fits, and LruCache::push replaces the key's own entry or, when there
\* are as many as there may be, pops one more.
Put(k, rows, total) ==
    LET left == SubSeq(lru, Popped(rows) + 1, Len(lru))
        same == Those(left, Keys \ {k})
        kept == IF Len(same) = MaxEntries THEN Tail(same) ELSE same
    IN  IF rows > MaxBytes THEN UNCHANGED cacheVars
        ELSE /\ lru' = Append(kept, [key |-> k, rows |-> rows, total |-> total,
                                     bytes |-> rows, age |-> 0, old |-> 0])
             /\ bytes' = bytes - Weight(SubSeq(lru, 1, Popped(rows)))
                           - (Weight(left) - Weight(kept)) + rows

\* QueryCache::invalidate_contract and invalidate_all, which an embedding calls.
InvalidateContract(t) ==
    LET S == {k \in Keys : t \in ReadsOf[k]}
    IN  /\ lru' = Without(S)
        /\ bytes' = bytes - Weight(Those(lru, S))
        /\ UNCHANGED <<signer, job, conn, seen>>

InvalidateAll ==
    /\ lru' = <<>> /\ bytes' = 0
    /\ UNCHANGED <<signer, job, conn, seen>>

\* An entry that is past its time does not get older.
Older(n) == IF n > Ttl THEN n ELSE n + 1

\* Time passes.
Tick ==
    /\ lru' = [i \in DOMAIN lru |-> [lru[i] EXCEPT !.age = Older(@), !.old = Older(@)]]
    /\ UNCHANGED <<signer, job, conn, seen, bytes>>

(***************************************************************************)
(* Signing                                                                 *)
(***************************************************************************)
\* The envelope: whose answer it is and how many rows it has.
Envelope(q, j) == [query |-> q, rows |-> j.out]

\* An answer that is an error, or no signature.
Refusal == [query |-> None, rows |-> 0]

\* Engine::sign: SocketSigner::exchange sends the envelope on a connection of its own.
Sign(q, j) ==
    /\ Becomes(q, [j EXCEPT !.at = IF signer THEN "signing" ELSE "ready"])
    /\ conn' = IF signer
               THEN [conn EXCEPT ![q] = [asked |-> Envelope(q, j), answer |-> None]]
               ELSE conn

(***************************************************************************)
(* Running the plan                                                        *)
(***************************************************************************)
\* Engine::run for query: a hit is the answer, and is signed again; its rows are counted
\* anew.  Otherwise the plan is executed, and so it is for query_spooled and for the
\* executor of a plan, which do not look at the cache.
Ask(q, k, m) ==
    LET j == [NoJob EXCEPT !.at = "execute", !.mode = m, !.key = k]
        live == {e \in Entry(k) : e.age <= Ttl}
    IN  /\ job[q] = NoJob
        /\ IF m = "collect" THEN Get(k) ELSE UNCHANGED cacheVars
        /\ \/ /\ m # "collect" \/ live = {}
              /\ Becomes(q, j)
              /\ UNCHANGED conn
           \/ /\ m = "collect"
              /\ \E e \in live :
                    Sign(q, [j EXCEPT !.total = e.total, !.out = e.rows, !.age = e.old])
        /\ UNCHANGED seen

\* Mutant of Released: one row short of the threshold is enough.
ReleasedEarly(j, n) == j.total + n + 1 >= K[j.key]

\* hold_first: the rows held are released with the batch that makes them k.
Released(j, n) == j.total + n >= K[j.key]

\* The input gives a batch of n rows (some may have none), in whatever order its
\* partitions are merged.  What SuppressExec lets through is collected, or written to
\* the spool, or is the executor's at once.
Batch(q, n) ==
    LET j == job[q]
        free == IF Released(j, n) THEN j.held + n ELSE 0
    IN  /\ j.at = "execute"
        /\ j.total + n <= MaxRows
        /\ Becomes(q, [j EXCEPT !.total = @ + n, !.out = @ + free, !.held = @ + n - free])
        /\ seen' = [seen EXCEPT ![q] = IF j.mode = "plan" THEN @ + free ELSE @]
        /\ UNCHANGED <<conn, cacheVars>>

\* Mutant of End: what is held when the input ends is flushed.
EndFlushed(q) ==
    LET j == [job[q] EXCEPT !.out = @ + job[q].held, !.held = 0]
    IN  /\ job[q].at = "execute"
        /\ IF j.mode = "collect" THEN Put(j.key, j.out, j.total) ELSE UNCHANGED cacheVars
        /\ \/ j.mode # "plan" /\ Sign(q, j)
           \/ j.mode = "plan" /\ Becomes(q, [j EXCEPT !.at = "over"]) /\ UNCHANGED conn
        /\ UNCHANGED seen

\* The input ends, and what is held is dropped.  A collected answer is kept before its
\* envelope is signed; the file a spooled one was written to is the call's own.
End(q) ==
    LET j == [job[q] EXCEPT !.held = 0]
    IN  /\ job[q].at = "execute"
        /\ IF j.mode = "collect" THEN Put(j.key, j.out, j.total) ELSE UNCHANGED cacheVars
        /\ \/ j.mode # "plan" /\ Sign(q, j)
           \/ j.mode = "plan" /\ Becomes(q, [j EXCEPT !.at = "over"]) /\ UNCHANGED conn
        /\ UNCHANGED seen

(***************************************************************************)
(* The signature, the record and the stream                                *)
(***************************************************************************)
\* The process that holds the key signs what it was asked, or refuses; it may also close
\* the connection, or never answer.
SignerAnswers(q) ==
    /\ conn[q] # None /\ conn[q].answer = None
    /\ \E a \in {conn[q].asked, Refusal} : conn' = [conn EXCEPT ![q].answer = a]
    /\ UNCHANGED <<signer, job, seen, cacheVars>>

\* Mutant of Ends: the connection to the signer stays open.
EndsOpen(q) ==
    /\ Becomes(q, NoJob)
    /\ seen' = [seen EXCEPT ![q] = 0]
    /\ UNCHANGED <<conn, cacheVars>>

\* The call is over, and so are its connection and its spool file.
Ends(q) ==
    /\ Becomes(q, NoJob)
    /\ conn' = [conn EXCEPT ![q] = None]
    /\ seen' = [seen EXCEPT ![q] = 0]
    /\ UNCHANGED cacheVars

\* Mutant of Signed: the answer on any connection will do.
SignedByAny(q) ==
    /\ job[q].at = "signing"
    /\ \E o \in Queries :
          /\ conn[o] # None /\ conn[o].answer \notin {None, Refusal}
          /\ Becomes(q, [job[q] EXCEPT !.at = "ready", !.sig = conn[o].answer])
    /\ conn' = [conn EXCEPT ![q] = None]
    /\ UNCHANGED <<seen, cacheVars>>

Signed(q) ==
    /\ job[q].at = "signing" /\ conn[q].answer \notin {None, Refusal}
    /\ Becomes(q, [job[q] EXCEPT !.at = "ready", !.sig = conn[q].answer])
    /\ conn' = [conn EXCEPT ![q] = None]
    /\ UNCHANGED <<seen, cacheVars>>

\* Mutant of NotSigned: the engine waits until the signer answers.
NotSignedEver(q) ==
    /\ job[q].at = "signing" /\ conn[q].answer = Refusal
    /\ Ends(q)

\* The signer refused, or closed the connection, or did not answer within the timeout:
\* the query is an error, and an answer that comes later comes to nobody.
NotSigned(q) ==
    /\ job[q].at = "signing"
    /\ Ends(q)

\* The query is on record (QueryPath); then the caller gets the batches, or the Flight
\* stream begins with the envelope.
Record(q) ==
    LET j == job[q]
    IN  /\ j.at = "ready"
        /\ Becomes(q, [j EXCEPT !.at = IF j.mode = "spool" THEN "stream" ELSE "over"])
        /\ seen' = [seen EXCEPT ![q] = IF j.mode = "spool" THEN 0 ELSE j.out]
        /\ UNCHANGED <<conn, cacheVars>>

\* FlightSql::answer: the batches in the spool file, one by one.
Stream(q, n) ==
    /\ job[q].at = "stream"
    /\ seen[q] + n <= job[q].out
    /\ seen' = [seen EXCEPT ![q] = @ + n]
    /\ Becomes(q, IF seen[q] + n = job[q].out THEN [job[q] EXCEPT !.at = "over"] ELSE job[q])
    /\ UNCHANGED <<conn, cacheVars>>

\* Execution, the record or the stream fails, or the client goes away and the future is
\* dropped where it waits.
Fails(q) ==
    /\ job[q].at \in {"execute", "signing", "ready", "stream"}
    /\ Ends(q)

\* The caller has it all.
Leave(q) ==
    /\ job[q].at = "over"
    /\ Ends(q)

-----------------------------------------------------------------------------
\* What the engine does by itself, and what it waits for.
Step(q) ==
    \/ End(q) \/ Signed(q) \/ NotSigned(q) \/ Record(q)
    \/ \E n \in 0 .. MaxBatch : Batch(q, n)

Next ==
    \/ \E q \in Queries, k \in Keys, m \in Modes : Ask(q, k, m)
    \/ \E q \in Queries :
          Step(q) \/ SignerAnswers(q) \/ Fails(q) \/ Leave(q) \/ \E n \in 0 .. MaxBatch : Stream(q, n)
    \/ \E t \in Tables : InvalidateContract(t)
    \/ InvalidateAll \/ Tick

Spec == Init /\ [][Next]_vars

\* The runtime polls every query, its input ends, and the timer of the signer's timeout
\* goes off.  Nothing is assumed of the signer, of the client or of an executor of plans.
Fairness == \A q \in Queries : WF_vars(job[q].mode # "plan" /\ Step(q))

FairSpec == Spec /\ Fairness

-----------------------------------------------------------------------------
Stages == {"idle", "execute", "signing", "ready", "stream", "over"}

\* The state is well typed, and a query has a connection to the signer only while it is
\* being signed.
TypeOK ==
    /\ signer \in BOOLEAN
    /\ \A q \in Queries :
          /\ job[q].at \in Stages /\ job[q].mode \in Modes \cup {"none"}
          /\ {job[q].total, job[q].held, job[q].out, job[q].age, seen[q]} \subseteq Nat
          /\ conn[q] # None <=> job[q].at = "signing"
    /\ \A i \in DOMAIN lru : lru[i].key \in Keys /\ {lru[i].age, lru[i].old} \subseteq 0 .. (Ttl + 1)

\* A result of fewer than k rows is withheld whole, and any other is given whole,
\* however its batches and its partitions fall about the boundary, and from the cache
\* too.
SmallResultsAreWithheld ==
    \A q \in Queries : job[q].at \in {"signing", "ready", "stream"} =>
        job[q].out = IF job[q].total < K[job[q].key] THEN 0 ELSE job[q].total

\* Nobody sees a row before k rows of the result are there, not even an executor that
\* runs the plan itself, or a caller whose query fails halfway.
NothingIsSeenBelowK ==
    \A q \in Queries : seen[q] > 0 => job[q].total >= K[job[q].key]

\* The cache never holds more than it may, in entries or in bytes, and its count of bytes
\* is that of its entries, whatever was replaced, popped, expired or invalidated.
CacheKeepsItsBounds ==
    /\ bytes = Weight(lru) /\ bytes <= MaxBytes
    /\ Len(lru) <= MaxEntries
    /\ \A i, j \in DOMAIN lru : lru[i].key = lru[j].key => i = j

\* An answer from the cache was computed no longer ago than the time to live, however
\* often it was asked for since.
HitsAreFresh == \A q \in Queries : job[q].age <= Ttl

\* With a signer, what a caller gets is what the signer signed for this query: no answer
\* leaves without its certificate (Engine::with_signer), and no late answer of the signer
\* becomes the certificate of another.
AnswersAreCertified ==
    \A q \in Queries : job[q].mode # "plan" /\ seen[q] > 0 =>
        /\ signer => job[q].sig = Envelope(q, job[q])
        /\ seen[q] <= job[q].out

\* A query is over, or its answer is on its way, in the end, whatever the signer does.
QueriesEnd ==
    \A q \in Queries :
        job[q].mode \in {"collect", "spool"} ~> job[q].at \in {"idle", "stream", "over"}
=============================================================================

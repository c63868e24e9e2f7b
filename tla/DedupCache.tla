----------------------------- MODULE DedupCache -----------------------------
(***************************************************************************)
(* The set of event ids seen on one partition (processors/dedup.py): an    *)
(* ordered dictionary of time buckets. A cache has a record for each       *)
(* bucket's index: its ids, and since when it is there, which is its place *)
(* in the order of insertion. Times are in milliseconds.                   *)
(***************************************************************************)
EXTENDS Integers, Sequences, FiniteSetsExt

CONSTANTS
    WindowMs,  \* window_ms
    Buckets,   \* buckets
    MaxIds     \* max_ids

ASSUME CacheAssumption ==
    WindowMs \in Nat \ {0} /\ Buckets \in Nat \ {0} /\ MaxIds \in Nat

BucketSpanMs == Max({WindowMs \div Buckets, 1})

EmptyCache == <<>>

Ids(cache) == UNION {cache[b].ids : b \in DOMAIN cache}

\* size: an id counts for each bucket it is in.
Size(cache) == Cardinality(UNION {{b} \X cache[b].ids : b \in DOMAIN cache})

\* _expire: whole buckets, once nothing in them is inside the window. Mutant:
\* one bucket too early.
MutantExpireBuckets(cache, now) ==
    LET cutoff == (now - WindowMs) \div BucketSpanMs
    IN Restrict(cache, {b \in DOMAIN cache : b > cutoff})
ExpireBuckets(cache, now) ==
    LET cutoff == (now - WindowMs) \div BucketSpanMs
    IN Restrict(cache, {b \in DOMAIN cache : b >= cutoff})

\* The bucket b and those inserted after it.
Since(cache, b) == Restrict(cache, {c \in DOMAIN cache : cache[c].since >= cache[b].since})

\* _enforce_size: the oldest inserted buckets go, but never the last one. Mutant:
\* never the last two.
MutantEnforceSize(cache) ==
    IF Size(cache) > MaxIds /\ Cardinality(DOMAIN cache) > 2
    THEN Restrict(cache, {c \in DOMAIN cache : \E b \in DOMAIN cache : cache[b].since < cache[c].since})
    ELSE cache
EnforceSize(cache) ==
    LET enough == {b \in DOMAIN cache :
                       \/ Size(Since(cache, b)) =< MaxIds
                       \/ \A c \in DOMAIN cache : cache[c].since =< cache[b].since}
        first == CHOOSE b \in enough : \A c \in enough : cache[b].since =< cache[c].since
    IN Since(cache, first)

\* is_new: the bucket of a new id, after the others when it is new itself.
Insert(cache, id, time) ==
    LET index == time \div BucketSpanMs
        bucket == IF index \in DOMAIN cache THEN cache[index]
                  ELSE [ids |-> {}, since |-> Max({0} \union {cache[b].since : b \in DOMAIN cache}) + 1]
    IN [b \in DOMAIN cache \union {index} |->
           IF b = index THEN [ids |-> bucket.ids \union {id}, since |-> bucket.since]
           ELSE cache[b]]

\* is_new: its answer, and the cache it leaves.
IsNew(cache, id, time) == id \notin Ids(ExpireBuckets(cache, time))

Record(cache, id, time) ==
    IF IsNew(cache, id, time)
    THEN EnforceSize(Insert(ExpireBuckets(cache, time), id, time))
    ELSE ExpireBuckets(cache, time)
=============================================================================

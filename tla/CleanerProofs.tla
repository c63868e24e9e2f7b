---------------------------- MODULE CleanerProofs ---------------------------
(***************************************************************************)
(* Proofs about the dedup cache (DedupCache) and about a cleaner that      *)
(* feeds it and rebuilds it from a replay (CleanerFeed), for any window,   *)
(* number of buckets and size of the cache, any messages and owners.       *)
(***************************************************************************)
EXTENDS CleanerFeed, FiniteSetTheorems, WellFoundedInduction, TLAPS

(***************************************************************************)
(* The cache. It stays a dictionary in which every id is in one bucket, at *)
(* its time or later.                                                      *)
(***************************************************************************)

\* The ids of a cache, each with its bucket.
Entries(c) == UNION {{b} \X c[b].ids : b \in DOMAIN c}

CacheOK(c) ==
    /\ DOMAIN c \subseteq Int
    /\ IsFiniteSet(DOMAIN c) /\ IsFiniteSet(Entries(c))
    /\ \A b \in DOMAIN c : c[b].since \in Nat
    /\ \A b \in DOMAIN c : \A x \in c[b].ids : x \in Nat /\ x \div BucketSpanMs =< b
    /\ \A a, b \in DOMAIN c : a # b => c[a].since # c[b].since /\ c[a].ids \cap c[b].ids = {}
    /\ \E n \in Nat : \A b \in DOMAIN c : c[b].since =< n

Bounded(c) == Size(c) =< MaxIds \/ Cardinality(DOMAIN c) = 1

-----------------------------------------------------------------------------
\* The largest of some numbers is the one that is no smaller than any.
LEMMA MaxIs ==
    ASSUME NEW S \in SUBSET Int, NEW l \in S, \A k \in S : k =< l
    PROVE  Max(S) = l
<1>1. \A y \in S : l >= y
  OBVIOUS
<1>2. \A x \in S : (\A y \in S : x >= y) => x = l
  OBVIOUS
<1> QED
  BY <1>1, <1>2 DEF Max

\* Some numbers have a smallest.
LEMMA SmallestOf ==
    ASSUME NEW S \in SUBSET Nat, S # {}
    PROVE  \E x \in S : \A y \in S : x =< y
<1>1. OpToRel(<, Nat) = {pair \in Nat \X Nat : pair[1] < pair[2]}
  BY DEF OpToRel
<1>2. IsWellFoundedOn({pair \in Nat \X Nat : pair[1] < pair[2]}, Nat)
  BY <1>1, NatLessThanWellFounded, Zenon
<1>3. PICK x \in S : \A y \in S : <<y, x>> \notin {pair \in Nat \X Nat : pair[1] < pair[2]}
  BY <1>2, WFMin, Zenon
<1>4. ASSUME NEW y \in S PROVE x =< y
  <2>1. <<y, x>> \in Nat \X Nat /\ <<y, x>>[1] = y /\ <<y, x>>[2] = x
    OBVIOUS
  <2>2. ~(y < x)
    BY <2>1, <1>3, Zenon
  <2> QED
    BY <2>2
<1> QED
  BY <1>4

\* Numbers that do not exceed a bound have a largest.
LEMMA LargestOf ==
    ASSUME NEW n \in Nat, NEW S \in SUBSET Nat, S # {}, \A k \in S : k =< n
    PROVE  \E x \in S : \A y \in S : y =< x
<1>1. PICK T \in SUBSET Nat : T = {n - k : k \in S}
  <2>1. {n - k : k \in S} \in SUBSET Nat
    OBVIOUS
  <2> QED
    BY <2>1
<1>2. T # {}
  BY <1>1
<1>3. PICK x \in T : \A y \in T : x =< y
  BY <1>2, SmallestOf
<1>4. PICK l \in S : x = n - l
  BY <1>1
<1>5. ASSUME NEW k \in S PROVE k =< l
  <2>1. n - k \in T
    BY <1>1
  <2>2. x =< n - k
    BY <1>3, <2>1
  <2> QED
    BY <1>4, <2>2
<1> QED
  BY <1>5

\* _span is at least a millisecond.
LEMMA SpanPositive ==
    BucketSpanMs \in Nat \ {0}
<1>1. WindowMs \div Buckets \in Nat
  BY CacheAssumption
<1>2. PICK q \in Nat : q = WindowMs \div Buckets
  BY <1>1
<1>3. CASE q >= 1
  <2>1. {q, 1} \in SUBSET Int /\ q \in {q, 1} /\ \A k \in {q, 1} : k =< q
    BY <1>3
  <2> QED
    BY <1>2, <1>3, <2>1, MaxIs DEF BucketSpanMs
<1>4. CASE ~(q >= 1)
  <2>1. {q, 1} \in SUBSET Int /\ 1 \in {q, 1} /\ \A k \in {q, 1} : k =< 1
    BY <1>4
  <2> QED
    BY <1>2, <2>1, MaxIs DEF BucketSpanMs
<1> QED
  BY <1>3, <1>4

\* Later times have no earlier bucket.
LEMMA BucketOrder ==
    ASSUME NEW s \in Int, NEW t \in Int
    PROVE  /\ s \div BucketSpanMs \in Int
           /\ s =< t => s \div BucketSpanMs =< t \div BucketSpanMs
<1>1. PICK w \in Nat \ {0} : w = BucketSpanMs
  BY SpanPositive
<1>2. s \div w \in Int
  OBVIOUS
<1>3. s =< t => s \div w =< t \div w
  OBVIOUS
<1> QED
  BY <1>1, <1>2, <1>3

\* What the cache holds, id by id.
LEMMA InIds ==
    ASSUME NEW c, NEW x
    PROVE  x \in Ids(c) <=> \E b \in DOMAIN c : x \in c[b].ids
BY DEF Ids

\* The entries of a cache.
LEMMA InEntries ==
    ASSUME NEW c, NEW b, NEW x
    PROVE  <<b, x>> \in Entries(c) <=> b \in DOMAIN c /\ x \in c[b].ids
BY DEF Entries

\* An entry is a bucket and an id in it.
LEMMA EntryIs ==
    ASSUME NEW c, NEW e \in Entries(c)
    PROVE  e[1] \in DOMAIN c /\ e[2] \in c[e[1]].ids /\ e = <<e[1], e[2]>>
BY DEF Entries

\* len() of a cache counts its entries.
LEMMA SizeIs ==
    ASSUME NEW c
    PROVE  Size(c) = Cardinality(Entries(c))
BY DEF Size, Entries

\* Some of the buckets of a cache are a cache.
LEMMA Restricted ==
    ASSUME NEW c, CacheOK(c), NEW K \in SUBSET DOMAIN c, NEW d, d = Restrict(c, K)
    PROVE  /\ CacheOK(d)
           /\ DOMAIN d = K
           /\ \A b \in K : d[b] = c[b]
           /\ Ids(d) \subseteq Ids(c)
           /\ Size(d) \in Nat /\ Size(d) =< Size(c)
<1>1. d = [b \in K |-> c[b]]
  BY DEF Restrict
<1>2. DOMAIN d = K /\ \A b \in K : d[b] = c[b]
  BY <1>1
<1>3. Entries(d) \in SUBSET Entries(c)
  BY <1>2 DEF Entries
<1>4. IsFiniteSet(Entries(c)) /\ IsFiniteSet(DOMAIN c)
  BY DEF CacheOK
<1>5. IsFiniteSet(Entries(d)) /\ Cardinality(Entries(d)) =< Cardinality(Entries(c))
  BY <1>3, <1>4, FS_Subset
<1>6. IsFiniteSet(K)
  BY <1>4, FS_Subset
<1>7. CacheOK(d)
  <2>1. \E n \in Nat : \A b \in DOMAIN d : d[b].since =< n
    BY <1>2 DEF CacheOK
  <2>2. \A a, b \in DOMAIN d : a # b => d[a].since # d[b].since /\ d[a].ids \cap d[b].ids = {}
    BY <1>2 DEF CacheOK
  <2>3. \A b \in DOMAIN d : \A x \in d[b].ids : x \in Nat /\ x \div BucketSpanMs =< b
    BY <1>2 DEF CacheOK
  <2>4. DOMAIN d \subseteq Int /\ \A b \in DOMAIN d : d[b].since \in Nat
    BY <1>2 DEF CacheOK
  <2> QED
    BY <1>2, <1>5, <1>6, <2>1, <2>2, <2>3, <2>4, Zenon DEF CacheOK
<1>8. Ids(d) \subseteq Ids(c)
  BY <1>2 DEF Ids
<1>9. Size(d) \in Nat /\ Size(d) =< Size(c)
  BY <1>5, SizeIs, FS_CardinalityType
<1> QED
  BY <1>2, <1>7, <1>8, <1>9

\* A cache keeps its bound when buckets go.
LEMMA RestrictedBounded ==
    ASSUME NEW c, CacheOK(c), Bounded(c), NEW K \in SUBSET DOMAIN c, NEW d, d = Restrict(c, K)
    PROVE  Bounded(d)
<1>1. DOMAIN d = K /\ Size(d) \in Nat /\ Size(d) =< Size(c)
  BY Restricted, Zenon
<1>2. Size(c) \in Nat
  BY SizeIs, FS_CardinalityType DEF CacheOK
<1>3. CASE Size(c) =< MaxIds
  BY <1>1, <1>2, <1>3, CacheAssumption DEF Bounded
<1>4. CASE Cardinality(DOMAIN c) = 1
  <2>1. PICK x : DOMAIN c = {x}
    BY <1>4, FS_Singleton DEF CacheOK
  <2>2. CASE K = {x}
    BY <1>1, <2>2, FS_Singleton, Zenon DEF Bounded
  <2>3. CASE K = {}
    <3>1. Entries(d) = {}
      BY <1>1, <2>3 DEF Entries
    <3>2. Size(d) = 0
      BY <3>1, SizeIs, FS_EmptySet
    <3> QED
      BY <3>2, CacheAssumption DEF Bounded
  <2> QED
    BY <2>1, <2>2, <2>3
<1> QED
  BY <1>3, <1>4 DEF Bounded

\* A new id, inserted at its time or later.
LEMMA Inserted ==
    ASSUME NEW c, CacheOK(c), NEW id \in Nat, id \notin Ids(c), NEW time \in Nat, id =< time,
           NEW d, d = Insert(c, id, time)
    PROVE  /\ CacheOK(d)
           /\ DOMAIN d = DOMAIN c \union {time \div BucketSpanMs}
           /\ Ids(d) = Ids(c) \union {id}
           /\ \A b \in DOMAIN c : c[b].ids \subseteq d[b].ids
<1>1. PICK i \in Int : i = time \div BucketSpanMs /\ id \div BucketSpanMs =< i
  BY BucketOrder
<1>2. PICK top \in Nat : \A b \in DOMAIN c : c[b].since =< top
  BY DEF CacheOK
<1>3. PICK S \in SUBSET Nat : S = {0} \union {c[b].since : b \in DOMAIN c}
  <2>1. {0} \union {c[b].since : b \in DOMAIN c} \in SUBSET Nat
    BY DEF CacheOK
  <2> QED
    BY <2>1
<1>4. PICK last \in Nat : last = Max(S) /\ \A b \in DOMAIN c : c[b].since =< last
  <2>1. S # {} /\ \A k \in S : k =< top
    BY <1>2, <1>3
  <2>2. PICK x \in S : \A y \in S : y =< x
    BY <2>1, LargestOf
  <2>3. S \in SUBSET Int
    OBVIOUS
  <2>4. Max(S) = x
    BY <2>2, <2>3, MaxIs
  <2> QED
    BY <1>3, <2>2, <2>4
<1>5. PICK bucket : bucket = IF i \in DOMAIN c THEN c[i] ELSE [ids |-> {}, since |-> last + 1]
  OBVIOUS
<1>6. d = [b \in DOMAIN c \union {i} |->
              IF b = i THEN [ids |-> bucket.ids \union {id}, since |-> bucket.since] ELSE c[b]]
  BY <1>1, <1>3, <1>4, <1>5 DEF Insert
<1>7. DOMAIN d = DOMAIN c \union {i} /\ \A b \in DOMAIN c : b # i => d[b] = c[b]
  BY <1>6
<1>8. d[i].ids = bucket.ids \union {id} /\ d[i].since = bucket.since
  BY <1>6
<1>9. \A b \in DOMAIN c : c[b].ids \subseteq d[b].ids
  BY <1>5, <1>7, <1>8
<1>10. bucket.since \in Nat /\ bucket.since =< last + 1
       /\ \A b \in DOMAIN c : b # i => c[b].since # bucket.since
  <2>1. CASE i \in DOMAIN c
    <3>1. bucket = c[i]
      BY <1>5, <2>1
    <3> QED
      BY <2>1, <3>1, <1>4 DEF CacheOK
  <2>2. CASE i \notin DOMAIN c
    <3>1. bucket.since = last + 1
      BY <1>5, <2>2
    <3>2. \A b \in DOMAIN c : c[b].since \in Nat
      BY DEF CacheOK
    <3> QED
      BY <3>1, <3>2, <1>4
  <2> QED
    BY <2>1, <2>2
<1>11. bucket.ids = {} \/ (i \in DOMAIN c /\ bucket.ids = c[i].ids)
  BY <1>5
<1>12. \A b \in DOMAIN c : id \notin c[b].ids
  BY InIds
<1>13. Ids(d) = Ids(c) \union {id}
  <2>1. ASSUME NEW x \in Ids(d) PROVE x \in Ids(c) \union {id}
    <3>1. PICK b \in DOMAIN d : x \in d[b].ids
      BY InIds
    <3>2. CASE b = i
      BY <1>8, <1>11, <3>1, <3>2, InIds
    <3>3. CASE b # i
      BY <1>7, <3>1, <3>3, InIds
    <3> QED
      BY <3>2, <3>3
  <2>2. ASSUME NEW x \in Ids(c) PROVE x \in Ids(d)
    <3>1. PICK b \in DOMAIN c : x \in c[b].ids
      BY InIds
    <3>2. b \in DOMAIN d /\ x \in d[b].ids
      BY <1>7, <1>9, <3>1
    <3> QED
      BY <3>2, InIds
  <2>3. i \in DOMAIN d /\ id \in d[i].ids
    BY <1>7, <1>8
  <2>4. id \in Ids(d)
    BY <2>3, InIds
  <2> QED
    BY <2>1, <2>2, <2>4
<1>14. IsFiniteSet(DOMAIN d) /\ IsFiniteSet(Entries(d))
  <2>1. Entries(d) \in SUBSET (Entries(c) \union {<<i, id>>})
    <3>1. ASSUME NEW e \in Entries(d) PROVE e \in Entries(c) \union {<<i, id>>}
      <4>1. e[1] \in DOMAIN d /\ e[2] \in d[e[1]].ids /\ e = <<e[1], e[2]>>
        BY EntryIs
      <4>2. CASE e[1] = i
        <5>1. CASE e[2] = id
          BY <4>1, <4>2, <5>1
        <5>2. CASE e[2] # id
          <6>1. i \in DOMAIN c /\ e[2] \in c[i].ids
            BY <1>8, <1>11, <4>1, <4>2, <5>2
          <6> QED
            BY <4>1, <4>2, <6>1, InEntries
        <5> QED
          BY <5>1, <5>2
      <4>3. CASE e[1] # i
        <5>1. e[1] \in DOMAIN c /\ e[2] \in c[e[1]].ids
          BY <1>7, <4>1, <4>3
        <5> QED
          BY <4>1, <5>1, InEntries
      <4> QED
        BY <4>2, <4>3
    <3> QED
      BY <3>1
  <2>2. IsFiniteSet(Entries(c) \union {<<i, id>>}) /\ IsFiniteSet(DOMAIN c \union {i})
    BY FS_AddElement DEF CacheOK
  <2> QED
    BY <1>7, <2>1, <2>2, FS_Subset
<1>15. CacheOK(d)
  <2>1. \E n \in Nat : \A b \in DOMAIN d : d[b].since =< n
    <3>1. \A b \in DOMAIN c : c[b].since \in Nat
      BY DEF CacheOK
    <3>2. last + 1 \in Nat /\ \A b \in DOMAIN d : d[b].since =< last + 1
      BY <1>4, <1>7, <1>8, <1>10, <3>1
    <3> QED
      BY <3>2
  <2>2. \A a, b \in DOMAIN d : a # b => d[a].since # d[b].since /\ d[a].ids \cap d[b].ids = {}
    <3>1. \A a, b \in DOMAIN c : a # b => c[a].since # c[b].since /\ c[a].ids \cap c[b].ids = {}
      BY DEF CacheOK
    <3>2. \A b \in DOMAIN c : b # i =>
             d[b].since # d[i].since /\ d[b].ids \cap d[i].ids = {}
      BY <1>7, <1>8, <1>10, <1>11, <1>12, <3>1
    <3> QED
      BY <1>7, <3>1, <3>2
  <2>3. \A b \in DOMAIN d : \A x \in d[b].ids : x \in Nat /\ x \div BucketSpanMs =< b
    <3>1. \A b \in DOMAIN c : \A x \in c[b].ids : x \in Nat /\ x \div BucketSpanMs =< b
      BY DEF CacheOK
    <3> QED
      BY <1>1, <1>7, <1>8, <1>11, <3>1
  <2>4. DOMAIN d \subseteq Int /\ \A b \in DOMAIN d : d[b].since \in Nat
    BY <1>7, <1>8, <1>10 DEF CacheOK
  <2> QED
    BY <1>14, <2>1, <2>2, <2>3, <2>4, Zenon DEF CacheOK
<1> QED
  BY <1>1, <1>7, <1>9, <1>13, <1>15

\* _enforce_size leaves a cache within its bound, and leaves one alone that was.
LEMMA Enforced ==
    ASSUME NEW c, CacheOK(c), DOMAIN c # {}, NEW d, d = EnforceSize(c)
    PROVE  /\ CacheOK(d)
           /\ Bounded(d)
           /\ DOMAIN d \subseteq DOMAIN c
           /\ Ids(d) \subseteq Ids(c)
           /\ Size(c) =< MaxIds => Ids(d) = Ids(c)
<1> DEFINE From(b) == {a \in DOMAIN c : c[a].since >= c[b].since}
           enough == {b \in DOMAIN c :
                          \/ Size(Since(c, b)) =< MaxIds
                          \/ \A a \in DOMAIN c : c[a].since =< c[b].since}
           first == CHOOSE b \in enough : \A a \in enough : c[b].since =< c[a].since
<1>1. \A b \in DOMAIN c : c[b].since \in Nat
  BY DEF CacheOK
<1>2. PICK top \in Nat : \A b \in DOMAIN c : c[b].since =< top
  BY DEF CacheOK
<1>3. PICK S \in SUBSET Nat : S = {c[b].since : b \in DOMAIN c}
  <2>1. {c[b].since : b \in DOMAIN c} \in SUBSET Nat
    BY <1>1
  <2> QED
    BY <2>1
<1>4. S # {} /\ \A k \in S : k =< top
  BY <1>2, <1>3
<1>5. PICK newest \in DOMAIN c : \A b \in DOMAIN c : c[b].since =< c[newest].since
  <2>1. PICK x \in S : \A y \in S : y =< x
    BY <1>4, LargestOf
  <2> QED
    BY <1>3, <2>1
<1>6. PICK oldest \in DOMAIN c : \A b \in DOMAIN c : c[oldest].since =< c[b].since
  <2>1. PICK x \in S : \A y \in S : x =< y
    BY <1>4, SmallestOf
  <2> QED
    BY <1>3, <2>1
<1>7. first \in enough /\ \A a \in enough : c[first].since =< c[a].since
  <2>1. newest \in enough
    BY <1>5
  <2>2. PICK T \in SUBSET Nat : T = {c[b].since : b \in enough}
    <3>1. {c[b].since : b \in enough} \in SUBSET Nat
      BY <1>1
    <3> QED
      BY <3>1
  <2> HIDE DEF enough
  <2>3. T # {}
    BY <2>1, <2>2
  <2>4. PICK x \in T : \A y \in T : x =< y
    BY <2>3, SmallestOf
  <2>5. \E b \in enough : \A a \in enough : c[b].since =< c[a].since
    BY <2>2, <2>4
  <2> QED
    BY <2>5
<1>8. \A b \in DOMAIN c : Since(c, b) = Restrict(c, From(b)) /\ From(b) \in SUBSET DOMAIN c
  BY DEF Since
<1>9. d = Since(c, first)
  BY DEF EnforceSize
<1>10. first \in DOMAIN c /\ (\/ Size(Since(c, first)) =< MaxIds
                              \/ \A a \in DOMAIN c : c[a].since =< c[first].since)
  BY <1>7
<1>11. oldest \in enough => \A a \in DOMAIN c : c[first].since =< c[a].since
  <2>1. first \in DOMAIN c
    BY <1>7
  <2> HIDE DEF first, enough
  <2> QED
    BY <1>1, <1>6, <1>7, <2>1
<1>12. Size(Since(c, oldest)) =< MaxIds => oldest \in enough
  OBVIOUS
<1> HIDE DEF first, enough
<1>13. PICK f \in DOMAIN c : f = first
  BY <1>10
<1>14. f \in DOMAIN c /\ d = Restrict(c, From(f)) /\ From(f) \in SUBSET DOMAIN c
  <2>1. d = Since(c, f)
    BY <1>9, <1>13
  <2>2. Since(c, f) = Restrict(c, From(f)) /\ From(f) \in SUBSET DOMAIN c
    BY <1>8
  <2> QED
    BY <2>1, <2>2
<1>15. CacheOK(d) /\ DOMAIN d = From(f) /\ Ids(d) \subseteq Ids(c) /\ (\A b \in From(f) : d[b] = c[b])
  <2>1. PICK K \in SUBSET DOMAIN c : K = From(f)
    BY <1>14
  <2>2. d = Restrict(c, K)
    BY <1>14, <2>1
  <2>3. CacheOK(d) /\ DOMAIN d = K /\ Ids(d) \subseteq Ids(c) /\ \A b \in K : d[b] = c[b]
    BY <2>2, Restricted
  <2> QED
    BY <2>1, <2>3
<1>16. Bounded(d)
  <2>1. CASE Size(d) =< MaxIds
    BY <2>1 DEF Bounded
  <2>2. CASE \A a \in DOMAIN c : c[a].since =< c[f].since
    <3>1. \A a, b \in DOMAIN c : a # b => c[a].since # c[b].since
      BY DEF CacheOK
    <3>2. From(f) = {f}
      BY <1>1, <1>14, <2>2, <3>1
    <3> QED
      BY <1>15, <3>2, FS_Singleton, Zenon DEF Bounded
  <2> QED
    BY <1>9, <1>10, <1>13, <2>1, <2>2
<1>17. ASSUME Size(c) =< MaxIds PROVE Ids(d) = Ids(c)
  <2>1. Size(Since(c, oldest)) \in Nat /\ Size(Since(c, oldest)) =< Size(c) /\ Size(c) \in Nat
    <3>1. Since(c, oldest) = Restrict(c, From(oldest)) /\ From(oldest) \in SUBSET DOMAIN c
      BY <1>8
    <3>2. Size(Since(c, oldest)) \in Nat /\ Size(Since(c, oldest)) =< Size(c)
      BY <3>1, Restricted, Zenon
    <3>3. Size(c) \in Nat
      BY SizeIs, FS_CardinalityType DEF CacheOK
    <3> QED
      BY <3>2, <3>3
  <2>2. oldest \in enough
    BY <1>12, <1>17, <2>1, CacheAssumption
  <2>3. \A a \in DOMAIN c : c[f].since =< c[a].since
    BY <1>11, <1>13, <2>2
  <2>4. From(f) = DOMAIN c
    BY <1>1, <1>14, <2>3
  <2>5. DOMAIN d = DOMAIN c /\ \A b \in DOMAIN c : d[b] = c[b]
    BY <1>15, <2>4
  <2> QED
    BY <2>5 DEF Ids
<1> QED
  BY <1>14, <1>15, <1>16, <1>17

\* A cache holds no more than the ids there are.
LEMMA SizeOfIds ==
    ASSUME NEW c, CacheOK(c), NEW H, IsFiniteSet(H), Ids(c) \subseteq H
    PROVE  Size(c) =< Cardinality(H)
<1>1. PICK f : f = [e \in Entries(c) |-> e[2]]
  OBVIOUS
<1>2. ASSUME NEW e \in Entries(c) PROVE e[1] \in DOMAIN c /\ e[2] \in c[e[1]].ids /\ e[2] \in H
  BY EntryIs, InIds
<1>3. f \in [Entries(c) -> H]
  BY <1>1, <1>2
<1>4. ASSUME NEW e \in Entries(c), NEW g \in Entries(c), f[e] = f[g] PROVE e = g
  <2>1. e[2] = g[2]
    BY <1>1, <1>4
  <2>2. e[1] = g[1]
    BY <1>2, <2>1 DEF CacheOK
  <2>3. e = <<e[1], e[2]>> /\ g = <<g[1], g[2]>>
    BY EntryIs
  <2> QED
    BY <2>1, <2>2, <2>3, Zenon
<1>5. f \in Injection(Entries(c), H)
  BY <1>3, <1>4 DEF Injection, IsInjective
<1>6. Cardinality(Entries(c)) =< Cardinality(H)
  BY <1>5, FS_Injection
<1> QED
  BY <1>6, SizeIs

\* _expire keeps the buckets from the cutoff on.
LEMMA Expired ==
    ASSUME NEW c, CacheOK(c), NEW now \in Nat, NEW d, d = ExpireBuckets(c, now)
    PROVE  /\ CacheOK(d)
           /\ DOMAIN d = {b \in DOMAIN c : b >= (now - WindowMs) \div BucketSpanMs}
           /\ Ids(d) \subseteq Ids(c)
           /\ Bounded(c) => Bounded(d)
<1>1. PICK K \in SUBSET DOMAIN c : K = {b \in DOMAIN c : b >= (now - WindowMs) \div BucketSpanMs}
  OBVIOUS
<1>2. d = Restrict(c, K)
  BY <1>1 DEF ExpireBuckets
<1>3. CacheOK(d) /\ DOMAIN d = K /\ Ids(d) \subseteq Ids(c) /\ \A b \in K : d[b] = c[b]
  BY <1>2, Restricted
<1>4. Bounded(c) => Bounded(d)
  BY <1>2, RestrictedBounded
<1> QED
  BY <1>1, <1>3, <1>4

\* is_new, step by step: e is what _expire leaves, g has the new id.
Recording(c, id, time, d, e, g) ==
    /\ DOMAIN e = {b \in DOMAIN c : b >= (time - WindowMs) \div BucketSpanMs}
    /\ \A b \in DOMAIN e : e[b] = c[b]
    /\ CacheOK(e)
    /\ Ids(e) \subseteq Ids(c)
    /\ Bounded(c) => Bounded(e)
    /\ \/ id \in Ids(e) /\ d = e
       \/ /\ CacheOK(g)
          /\ DOMAIN g = DOMAIN e \union {time \div BucketSpanMs}
          /\ Ids(g) = Ids(e) \union {id}
          /\ d = EnforceSize(g)

\* record is such a step.
LEMMA RecordSteps ==
    ASSUME NEW c, CacheOK(c), NEW id \in Nat, NEW time \in Nat, id =< time,
           NEW d, d = Record(c, id, time)
    PROVE  \E e, g : Recording(c, id, time, d, e, g)
<1>1. PICK e : e = ExpireBuckets(c, time)
  OBVIOUS
<1>2. /\ CacheOK(e)
      /\ DOMAIN e = {b \in DOMAIN c : b >= (time - WindowMs) \div BucketSpanMs}
      /\ Ids(e) \subseteq Ids(c)
      /\ Bounded(c) => Bounded(e)
  BY <1>1, Expired
<1>3. \A b \in DOMAIN e : e[b] = c[b]
  BY <1>1 DEF ExpireBuckets, Restrict
<1>4. PICK g : g = Insert(e, id, time)
  OBVIOUS
<1>5. CASE id \in Ids(e)
  <2>1. d = e
    BY <1>1, <1>5 DEF Record, IsNew
  <2> QED
    BY <1>2, <1>3, <1>5, <2>1, Zenon DEF Recording
<1>6. CASE id \notin Ids(e)
  <2>1. /\ CacheOK(g)
        /\ DOMAIN g = DOMAIN e \union {time \div BucketSpanMs}
        /\ Ids(g) = Ids(e) \union {id}
    BY <1>2, <1>4, <1>6, Inserted
  <2>2. d = EnforceSize(g)
    BY <1>1, <1>4, <1>6 DEF Record, IsNew
  <2> QED
    BY <1>2, <1>3, <2>1, <2>2, Zenon DEF Recording
<1> QED
  BY <1>5, <1>6

\* is_new leaves a cache, no larger than it may be, of the ids there were and the
\* new one, in buckets from the cutoff on.
LEMMA Recorded ==
    ASSUME NEW c, CacheOK(c), NEW id \in Nat, NEW time \in Nat, id =< time,
           NEW d, d = Record(c, id, time)
    PROVE  /\ CacheOK(d)
           /\ Bounded(c) => Bounded(d)
           /\ Ids(d) \subseteq Ids(c) \union {id}
           /\ \A b \in DOMAIN d : \/ b = time \div BucketSpanMs
                                  \/ b \in DOMAIN c /\ b >= (time - WindowMs) \div BucketSpanMs
<1>1. PICK e, g : Recording(c, id, time, d, e, g)
  BY RecordSteps, Zenon
<1>2. CASE d = e
  BY <1>1, <1>2 DEF Recording
<1>3. CASE d # e
  <2>1. /\ CacheOK(g)
        /\ DOMAIN g = DOMAIN e \union {time \div BucketSpanMs}
        /\ Ids(g) = Ids(e) \union {id}
        /\ d = EnforceSize(g)
    BY <1>1, <1>3 DEF Recording
  <2>2. DOMAIN g # {}
    BY <2>1
  <2>3. CacheOK(d) /\ Bounded(d) /\ DOMAIN d \subseteq DOMAIN g /\ Ids(d) \subseteq Ids(g)
    BY <2>1, <2>2, Enforced
  <2>4. Ids(d) \subseteq Ids(c) \union {id}
    BY <1>1, <2>1, <2>3 DEF Recording
  <2>5. \A b \in DOMAIN d : \/ b = time \div BucketSpanMs
                            \/ b \in DOMAIN c /\ b >= (time - WindowMs) \div BucketSpanMs
    BY <1>1, <2>1, <2>3 DEF Recording
  <2> QED
    BY <2>3, <2>4, <2>5
<1> QED
  BY <1>2, <1>3

\* While all of the ids fit into the cache, is_new adds the new one and forgets
\* none from the cutoff on.
LEMMA RecordedKeeps ==
    ASSUME NEW c, CacheOK(c), NEW id \in Nat, NEW time \in Nat, id =< time,
           NEW d, d = Record(c, id, time)
    PROVE  \A H : IsFiniteSet(H) /\ Ids(c) \union {id} \subseteq H /\ Cardinality(H) =< MaxIds =>
             /\ id \in Ids(d)
             /\ \A b \in DOMAIN c : b >= (time - WindowMs) \div BucketSpanMs => c[b].ids \subseteq Ids(d)
<1>1. PICK e, g : Recording(c, id, time, d, e, g)
  BY RecordSteps, Zenon
<1>2. ASSUME NEW b \in DOMAIN c, b >= (time - WindowMs) \div BucketSpanMs
      PROVE  c[b].ids \subseteq Ids(e)
  <2>1. b \in DOMAIN e /\ e[b] = c[b]
    BY <1>1, <1>2 DEF Recording
  <2> QED
    BY <2>1, InIds
<1>3. TAKE H
<1>4. HAVE IsFiniteSet(H) /\ Ids(c) \union {id} \subseteq H /\ Cardinality(H) =< MaxIds
<1>5. CASE id \in Ids(e) /\ d = e
  BY <1>2, <1>5
<1>6. CASE ~(id \in Ids(e) /\ d = e)
  <2>1. /\ CacheOK(g)
        /\ DOMAIN g = DOMAIN e \union {time \div BucketSpanMs}
        /\ Ids(g) = Ids(e) \union {id}
        /\ d = EnforceSize(g)
    BY <1>1, <1>6 DEF Recording
  <2>2. DOMAIN g # {}
    BY <2>1
  <2>3. Ids(g) \subseteq H
    BY <1>1, <1>4, <2>1 DEF Recording
  <2>4. Size(g) =< Cardinality(H)
    BY <1>4, <2>1, <2>3, SizeOfIds
  <2>5. Size(g) \in Nat
    BY <2>1, SizeIs, FS_CardinalityType DEF CacheOK
  <2>6. Cardinality(H) \in Nat
    BY <1>4, FS_CardinalityType
  <2>7. Size(g) =< MaxIds
    BY <1>4, <2>4, <2>5, <2>6, CacheAssumption
  <2>8. Ids(d) = Ids(g)
    BY <2>1, <2>2, <2>7, Enforced
  <2> QED
    BY <1>2, <2>1, <2>8
<1> QED
  BY <1>5, <1>6

(***************************************************************************)
(* The feed. The ids of the messages handled so far; why a copy of message *)
(* m may no longer be found.                                               *)
(***************************************************************************)
HandledIds == {log[k].id : k \in 1..done}

Excused(m) ==
    \/ m \in missed
    \/ \E j \in 1..done : Valid(j) /\ log[j].time - log[m].time > WindowMs
    \/ log[done].stamp - log[m].stamp > WindowMs
    \/ Cardinality(HandledIds) > MaxIds

LogOK ==
    /\ Len(log) = MaxEvents /\ DOMAIN log = 1..MaxEvents
    /\ \A n \in 1..MaxEvents : \E id \in EventIds, stamp \in Stamps :
           log[n] = Message(id, stamp) /\ id =< stamp
    /\ \A m, n \in 1..MaxEvents : m =< n => log[m].stamp =< log[n].stamp

PlacesOK ==
    /\ done \in 0..MaxEvents
    /\ next \in 1..(done + 1)
    /\ emitted \in SUBSET (1..done)
    /\ \E t \in Nat : \A k \in 1..done : log[k].time =< t

\* During a replay: what is still to be read is inside the window, and the buckets
\* are too.
ReplayOK ==
    next =< done =>
        /\ \A k \in next..done : log[k].stamp >= log[done].stamp - WindowMs
        /\ \A b \in DOMAIN cache : b >= (log[done].stamp - WindowMs) \div BucketSpanMs

\* The cache knows only what was handled, and all of it that a copy may be found for.
KnowsHandled ==
    /\ CacheOK(cache)
    /\ Ids(cache) \subseteq HandledIds
    /\ \A m \in 1..done : Valid(m) /\ m < next => log[m].id \in Ids(cache) \/ Excused(m)

FeedInv == LogOK /\ PlacesOK /\ ReplayOK /\ KnowsHandled
\* FeedInv is the inductive invariant. HandledIds grow with the messages handled.
LEMMA IdsUpTo ==
    ASSUME NEW f, NEW n \in Nat
    PROVE  IsFiniteSet({f[k].id : k \in 1..n}) /\ Cardinality({f[k].id : k \in 1..n}) \in Nat
<1>1. PICK g : g = [k \in 1..n |-> f[k].id]
  OBVIOUS
<1>2. PICK T : T = {f[k].id : k \in 1..n}
  OBVIOUS
<1>3. g \in [1..n -> T] /\ \A t \in T : \E k \in 1..n : g[k] = t
  BY <1>1, <1>2
<1>4. g \in Surjection(1..n, T)
  BY <1>3 DEF Surjection
<1>5. IsFiniteSet(1..n)
  BY FS_Interval
<1>6. IsFiniteSet(T)
  BY <1>4, <1>5, FS_Surjection
<1> QED
  BY <1>2, <1>6, FS_CardinalityType

\* More messages have no fewer ids.
LEMMA MoreIds ==
    ASSUME NEW f, NEW m \in Nat, NEW n \in Nat, m =< n
    PROVE  Cardinality({f[k].id : k \in 1..m}) =< Cardinality({f[k].id : k \in 1..n})
<1>1. PICK S, T : S = {f[k].id : k \in 1..m} /\ T = {f[k].id : k \in 1..n}
  OBVIOUS
<1>2. S \in SUBSET T
  BY <1>1
<1>3. IsFiniteSet(T)
  BY <1>1, IdsUpTo
<1> QED
  BY <1>1, <1>2, <1>3, FS_Subset

\* What the cleaner does with a message of the feed.
LEMMA MessageFacts ==
    ASSUME LogOK, NEW n \in 1..MaxEvents
    PROVE  /\ log[n].id \in Nat /\ log[n].time = log[n].id
           /\ log[n].stamp \in Nat /\ log[n].id =< log[n].stamp
           /\ \A c : CleanAbsorb(c, log[n]) = IF Valid(n) THEN Record(c, log[n].id, log[n].id) ELSE c
           /\ \A c : Load(c, log[n]) = Record(c, log[n].id, log[n].stamp)
           /\ \A c : CleanEmits(c, log[n]) = <<<<"clean", log[n].id>>>> <=>
                         Valid(n) /\ IsNew(c, log[n].id, log[n].id)
<1>1. PICK id \in EventIds, stamp \in Stamps : log[n] = Message(id, stamp) /\ id =< stamp
  BY DEF LogOK
<1>2. id \in Nat /\ stamp \in Nat
  BY FeedAssumption
<1>3. PICK msg : msg = log[n]
  OBVIOUS
<1>4. /\ msg.id = id /\ msg.time = id /\ msg.stamp = stamp
      /\ msg.kind = IF id \in InvalidIds THEN "invalid" ELSE "edit"
  BY <1>1, <1>3 DEF Message
<1>5. Valid(n) <=> id \notin InvalidIds
  BY <1>3, <1>4 DEF Valid
<1>6. HasId(msg) /\ ~IsCanary(msg) /\ (IsValid(msg) <=> id \notin InvalidIds) /\ EventTime(msg) = id
  BY <1>4 DEF HasId, IsCanary, IsValid, EventTime
<1>7. \A c : CleanAbsorb(c, msg) = IF id \notin InvalidIds THEN Record(c, id, id) ELSE c
  BY <1>4, <1>6 DEF CleanAbsorb
<1>8. \A c : Load(c, msg) = Record(c, id, stamp)
  BY <1>4, <1>6 DEF Load
<1>9. ASSUME NEW c
      PROVE  CleanEmits(c, msg) = <<<<"clean", id>>>> <=> id \notin InvalidIds /\ IsNew(c, id, id)
  <2>1. CASE id \in InvalidIds
    <3>1. CleanEmits(c, msg) = <<<<"dlq", id>>>>
      BY <1>4, <1>6, <2>1 DEF CleanEmits, DlqRecord
    <3> QED
      BY <2>1, <3>1
  <2>2. CASE id \notin InvalidIds
    <3>1. CleanEmits(c, msg) = IF IsNew(c, id, id) THEN <<<<"clean", id>>>> ELSE <<>>
      BY <1>4, <1>6, <2>2 DEF CleanEmits
    <3> QED
      BY <2>2, <3>1
  <2> QED
    BY <2>1, <2>2
<1> QED
  BY <1>1, <1>2, <1>3, <1>4, <1>5, <1>7, <1>8, <1>9

\* A new owner begins with nothing.
LEMMA NoIds ==
    DOMAIN EmptyCache = {} /\ CacheOK(EmptyCache) /\ Ids(EmptyCache) = {} /\ Bounded(EmptyCache)
<1>1. DOMAIN EmptyCache = {}
  BY DEF EmptyCache
<1>2. Entries(EmptyCache) = {} /\ Ids(EmptyCache) = {}
  BY <1>1 DEF Entries, Ids
<1>3. \E n \in Nat : \A b \in DOMAIN EmptyCache : EmptyCache[b].since =< n
  BY <1>1
<1>4. CacheOK(EmptyCache)
  BY <1>1, <1>2, <1>3, FS_EmptySet DEF CacheOK
<1>5. Size(EmptyCache) = 0
  BY <1>2, SizeIs, FS_EmptySet
<1> QED
  BY <1>1, <1>2, <1>4, <1>5, CacheAssumption DEF Bounded

\* The invariant holds initially.
LEMMA StartInv ==
    ASSUME Init
    PROVE  FeedInv
<1>1. PICK ids \in [1..MaxEvents -> EventIds], stamps \in [1..MaxEvents -> Stamps] :
           /\ \A n \in 1..MaxEvents : stamps[n] >= ids[n]
           /\ \A m, n \in 1..MaxEvents : m =< n => stamps[m] =< stamps[n]
           /\ log = [n \in 1..MaxEvents |-> Message(ids[n], stamps[n])]
  BY DEF Init
<1>2. LogOK
  <2>1. \A n \in 1..MaxEvents : log[n] = Message(ids[n], stamps[n]) /\ log[n].stamp = stamps[n]
    BY <1>1 DEF Message
  <2>2. \A n \in 1..MaxEvents : ids[n] \in EventIds /\ stamps[n] \in Stamps /\ ids[n] =< stamps[n]
    BY <1>1, FeedAssumption
  <2>3. DOMAIN log = 1..MaxEvents
    BY <1>1
  <2>4. Len(log) = MaxEvents
    <3>1. log \in Seq({Message(ids[n], stamps[n]) : n \in 1..MaxEvents})
      BY <1>1, FeedAssumption
    <3> QED
      BY <1>1, <3>1, FeedAssumption
  <2>5. \A m, n \in 1..MaxEvents : m =< n => log[m].stamp =< log[n].stamp
    BY <1>1, <2>1
  <2>6. \A n \in 1..MaxEvents : \E id \in EventIds, stamp \in Stamps :
           log[n] = Message(id, stamp) /\ id =< stamp
    BY <2>1, <2>2
  <2> QED
    BY <2>3, <2>4, <2>5, <2>6 DEF LogOK
<1>3. PlacesOK
  <2>1. done = 0 /\ next = 1 /\ emitted = {}
    BY DEF Init, ReplayInit
  <2>2. \E t \in Nat : \A k \in 1..done : log[k].time =< t
    BY <2>1
  <2>3. done \in 0..MaxEvents /\ next \in 1..(done + 1) /\ emitted \in SUBSET (1..done)
    BY <2>1, FeedAssumption
  <2> QED
    BY <2>2, <2>3 DEF PlacesOK
<1>4. ReplayOK
  BY DEF Init, ReplayInit, ReplayOK
<1>5. KnowsHandled
  BY NoIds DEF Init, KnowsHandled
<1> QED
  BY <1>2, <1>3, <1>4, <1>5 DEF FeedInv

\* What steps of the feed have in common.
LEMMA LogKept ==
    ASSUME LogOK, UNCHANGED log
    PROVE  LogOK'
BY DEF LogOK

\* Once a copy of a message may be missed, it may be missed for good.
LEMMA StillExcused ==
    ASSUME LogOK, PlacesOK, UNCHANGED log, done' \in 0..MaxEvents, done =< done',
           missed \subseteq missed', NEW m \in 1..done, Excused(m)
    PROVE  Excused(m)'
<1>1. CASE m \in missed
  BY <1>1 DEF Excused
<1>2. CASE \E j \in 1..done : Valid(j) /\ log[j].time - log[m].time > WindowMs
  <2>1. PICK j \in 1..done : Valid(j) /\ log[j].time - log[m].time > WindowMs
    BY <1>2
  <2>2. j \in 1..done'
    BY DEF PlacesOK
  <2>3. Valid(j)' /\ log'[j].time - log'[m].time > WindowMs
    BY <2>1 DEF Valid
  <2> QED
    BY <2>2, <2>3 DEF Excused
<1>3. CASE log[done].stamp - log[m].stamp > WindowMs
  <2>1. done \in 1..MaxEvents /\ done' \in 1..MaxEvents /\ m \in 1..MaxEvents
    BY FeedAssumption DEF PlacesOK
  <2>2. log[done].stamp =< log[done'].stamp
    BY <2>1 DEF LogOK
  <2>3. log[done].stamp \in Nat /\ log[done'].stamp \in Nat /\ log[m].stamp \in Nat
    BY <2>1, MessageFacts
  <2>4. log'[done'].stamp - log'[m].stamp > WindowMs
    BY <1>3, <2>2, <2>3, CacheAssumption
  <2> QED
    BY <2>4 DEF Excused
<1>4. CASE Cardinality(HandledIds) > MaxIds
  <2> done \in Nat /\ done' \in Nat
    BY DEF PlacesOK
  <2>1. Cardinality(HandledIds) =< Cardinality(HandledIds')
    BY MoreIds, ZenonT(40) DEF HandledIds
  <2>2. Cardinality(HandledIds) \in Nat /\ Cardinality(HandledIds') \in Nat
    BY IdsUpTo, ZenonT(40) DEF HandledIds
  <2>3. Cardinality(HandledIds') > MaxIds
    BY <1>4, <2>1, <2>2, CacheAssumption
  <2> QED
    BY <2>3 DEF Excused
<1> QED
  BY <1>1, <1>2, <1>3, <1>4 DEF Excused

\* Where a replay begins: what is before its window is too old for a copy of it to
\* be found, and all from there on is not.
LEMMA WindowFacts ==
    ASSUME LogOK, PlacesOK, done > 0, NEW w, w = WindowStart(log, done, WindowMs)
    PROVE  /\ w \in 1..done
           /\ \A m \in 1..done : m < w => log[done].stamp - log[m].stamp > WindowMs
           /\ \A m \in 1..done : m >= w => log[m].stamp >= log[done].stamp - WindowMs
           /\ StartOffset(log, done, WindowMs) \in Int
           /\ StartOffset(log, done, WindowMs) >= w
<1>1. PICK S \in SUBSET Nat : S = {o \in 1..Len(log) : log[o].stamp >= log[done].stamp - WindowMs}
  <2>1. {o \in 1..Len(log) : log[o].stamp >= log[done].stamp - WindowMs} \in SUBSET Nat
    OBVIOUS
  <2> QED
    BY <2>1
<1>2. done \in 1..MaxEvents /\ \A m \in 1..MaxEvents : log[m].stamp \in Nat
  BY MessageFacts DEF PlacesOK
<1>3. Len(log) = MaxEvents /\ \A m, n \in 1..MaxEvents : m =< n => log[m].stamp =< log[n].stamp
  BY DEF LogOK
<1>4. done \in S
  BY <1>1, <1>2, <1>3, CacheAssumption
<1>5. PICK x \in S : \A y \in S : x =< y
  BY <1>4, SmallestOf
<1>6. w = x
  <2>1. w = Min(S)
    BY <1>1 DEF WindowStart
  <2>2. Min(S) \in S /\ \A y \in S : Min(S) =< y
    BY <1>5 DEF Min
  <2>3. w \in Nat /\ x \in Nat /\ w =< x /\ x =< w
    BY <1>5, <2>1, <2>2
  <2> QED
    BY <2>3
<1>7. w \in 1..done
  BY <1>1, <1>2, <1>3, <1>4, <1>5, <1>6
<1>8. ASSUME NEW m \in 1..done, m < w PROVE log[done].stamp - log[m].stamp > WindowMs
  <2>1. m \notin S
    BY <1>5, <1>6, <1>8
  <2>2. m \in 1..MaxEvents
    BY <1>2, FeedAssumption
  <2>3. ~(log[m].stamp >= log[done].stamp - WindowMs)
    BY <1>1, <1>3, <2>1, <2>2
  <2> QED
    BY <1>2, <2>2, <2>3, CacheAssumption
<1>9. ASSUME NEW m \in 1..done, m >= w PROVE log[m].stamp >= log[done].stamp - WindowMs
  <2>1. log[w].stamp >= log[done].stamp - WindowMs
    BY <1>1, <1>5, <1>6
  <2>2. m \in 1..MaxEvents /\ w \in 1..MaxEvents
    BY <1>2, <1>7, FeedAssumption
  <2>3. log[w].stamp =< log[m].stamp
    BY <1>3, <1>9, <2>2
  <2> QED
    BY <1>2, <2>1, <2>2, <2>3, CacheAssumption
<1>10. StartOffset(log, done, WindowMs) \in Int /\ StartOffset(log, done, WindowMs) >= w
  <2>1. PICK a \in Int : a = done - MaxRecords + 1
    BY <1>2, ReplayAssumption
  <2>2. StartOffset(log, done, WindowMs) = Max({w, a})
    BY <2>1 DEF StartOffset
  <2>3. CASE w >= a
    <3>1. {w, a} \in SUBSET Int /\ w \in {w, a} /\ \A k \in {w, a} : k =< w
      BY <1>7, <2>3
    <3> QED
      BY <1>7, <2>2, <3>1, MaxIs
  <2>4. CASE w < a
    <3>1. {w, a} \in SUBSET Int /\ a \in {w, a} /\ \A k \in {w, a} : k =< a
      BY <1>7, <2>4
    <3> QED
      BY <1>7, <2>2, <2>4, <3>1, MaxIs
  <2> QED
    BY <1>7, <2>3, <2>4
<1> QED
  BY <1>7, <1>8, <1>9, <1>10

\* Finitely many events have been handled.
LEMMA HandledFinite ==
    ASSUME PlacesOK
    PROVE  IsFiniteSet(HandledIds) /\ Cardinality(HandledIds) \in Nat
<1>1. done \in Nat
  BY DEF PlacesOK
<1> QED
  BY <1>1, IdsUpTo, Zenon DEF HandledIds

\* A new owner's replay begins where its window does, or what it leaves out is missed.
LEMMA NewOwnerInv ==
    ASSUME FeedInv, NewOwner
    PROVE  FeedInv'
<1> USE DEF FeedInv
<1>1. UNCHANGED <<log, done, emitted>> /\ cache' = EmptyCache
  BY DEF NewOwner
<1>2. LogOK'
  BY <1>1, LogKept
<1>3. CacheOK(cache') /\ Ids(cache') = {} /\ DOMAIN cache' = {}
  BY <1>1, NoIds
<1>4. CASE done = 0
  <2>1. next' = 1
    BY <1>4 DEF NewOwner, BeginReplay
  <2>2. PlacesOK'
    BY <1>1, <1>4, <2>1 DEF PlacesOK
  <2>3. ReplayOK'
    BY <1>1, <1>4, <2>1 DEF ReplayOK
  <2>4. KnowsHandled'
    BY <1>1, <1>3, <1>4 DEF KnowsHandled
  <2> QED
    BY <1>2, <2>2, <2>3, <2>4
<1>5. CASE done # 0
  <2>1. PICK w : w = WindowStart(log, done, WindowMs)
    OBVIOUS
  <2>2. done > 0 /\ done \in Nat
    BY <1>5 DEF PlacesOK
  <2>3. /\ w \in 1..done
        /\ \A m \in 1..done : m < w => log[done].stamp - log[m].stamp > WindowMs
        /\ \A m \in 1..done : m >= w => log[m].stamp >= log[done].stamp - WindowMs
    BY <2>1, <2>2, WindowFacts
  <2>4. StartOffset(log, done, WindowMs) \in Int /\ StartOffset(log, done, WindowMs) >= w
    BY <2>1, <2>2, WindowFacts
  <2>5. /\ next' \in StartOffset(log, done, WindowMs)..(done + 1)
        /\ missed' = missed \union w..(next' - 1)
    BY <2>1, <2>2 DEF NewOwner, BeginReplay
  <2>6. next' \in w..(done + 1)
    BY <2>2, <2>3, <2>4, <2>5
  <2>7. PlacesOK'
    <3>1. next' \in 1..(done + 1)
      BY <2>2, <2>3, <2>6
    <3> QED
      BY <1>1, <3>1 DEF PlacesOK
  <2>8. ReplayOK'
    <3>1. \A k \in next'..done : k \in 1..done /\ k >= w
      BY <2>2, <2>3, <2>6
    <3> QED
      BY <1>1, <1>3, <2>3, <3>1 DEF ReplayOK
  <2>9. KnowsHandled'
    <3>1. ASSUME NEW m \in Nat, m \in 1..done, m < next' PROVE Excused(m)'
      <4>1. CASE m < w
        <5>1. log'[done'].stamp - log'[m].stamp > WindowMs
          BY <1>1, <2>3, <3>1, <4>1
        <5> QED
          BY <5>1 DEF Excused
      <4>2. CASE m >= w
        <5>1. PICK u \in Int : u = next' /\ m < u
          BY <2>2, <2>3, <2>6, <3>1
        <5>2. m \in w..(u - 1)
          BY <2>2, <2>3, <4>2, <5>1
        <5> QED
          BY <2>5, <5>1, <5>2 DEF Excused
      <4> QED
        BY <2>2, <2>3, <4>1, <4>2
    <3>2. \A m \in 1..done : m \in Nat
      BY <2>2
    <3> QED
      BY <1>1, <1>3, <3>1, <3>2 DEF KnowsHandled
  <2> QED
    BY <1>2, <2>7, <2>8, <2>9
<1> QED
  BY <1>4, <1>5

\* _replay_into keeps the invariant.
LEMMA WarmInv ==
    ASSUME FeedInv, Warm
    PROVE  FeedInv'
<1> USE DEF FeedInv
<1>1. UNCHANGED <<log, done, emitted, missed>> /\ next' = next + 1 /\ next =< done
  BY DEF Warm, ReplayNext, Replaying
<1>2. LogOK'
  BY <1>1, LogKept
<1>3. done \in 1..MaxEvents /\ next \in 1..done /\ next \in 1..MaxEvents
  BY <1>1, FeedAssumption DEF PlacesOK
<1>4. PICK id \in Nat, s \in Nat : id = log[next].id /\ s = log[next].stamp /\ id =< s
  BY <1>3, MessageFacts
<1>5. cache' = Record(cache, id, s)
  BY <1>3, <1>4, MessageFacts DEF Warm
<1>6. PICK z \in Nat : z = log[done].stamp /\ s =< z /\ s >= z - WindowMs
  <2>1. log[done].stamp \in Nat
    BY <1>3, MessageFacts
  <2>2. s =< log[done].stamp
    BY <1>3, <1>4 DEF LogOK
  <2>3. s >= log[done].stamp - WindowMs
    BY <1>1, <1>3, <1>4 DEF ReplayOK
  <2> QED
    BY <2>1, <2>2, <2>3
<1>7. CacheOK(cache)
  BY DEF KnowsHandled
<1>8. /\ CacheOK(cache')
      /\ Ids(cache') \subseteq Ids(cache) \union {id}
      /\ \A b \in DOMAIN cache' : b = s \div BucketSpanMs \/ b \in DOMAIN cache
  BY <1>4, <1>5, <1>7, Recorded
<1>9. PlacesOK'
  BY <1>1, <1>3 DEF PlacesOK
<1>10. z - WindowMs \in Int /\ s - WindowMs \in Int /\ s - WindowMs =< z - WindowMs
       /\ z - WindowMs =< s
  BY <1>6, CacheAssumption
<1>11. PICK low \in Int : /\ low = (z - WindowMs) \div BucketSpanMs
                          /\ low =< s \div BucketSpanMs
                          /\ (s - WindowMs) \div BucketSpanMs =< low
                          /\ (s - WindowMs) \div BucketSpanMs \in Int
                          /\ s \div BucketSpanMs \in Int
  BY <1>10, BucketOrder
<1>12. \A b \in DOMAIN cache : b \in Int /\ b >= low
  BY <1>1, <1>6, <1>7, <1>11 DEF ReplayOK, CacheOK
<1>13. ReplayOK'
  <2>1. \A b \in DOMAIN cache' : b >= low
    BY <1>8, <1>11, <1>12
  <2>2. \A k \in next'..done' : k \in next..done
    BY <1>1, <1>3
  <2> QED
    BY <1>1, <1>6, <1>11, <2>1, <2>2 DEF ReplayOK
<1>14. Ids(cache) \union {id} \subseteq HandledIds
  BY <1>3, <1>4 DEF KnowsHandled, HandledIds
<1>15. HandledIds' = HandledIds
  BY <1>1 DEF HandledIds
<1>16. ASSUME NEW m \in 1..done, Valid(m), m < next + 1
       PROVE  log[m].id \in Ids(cache') \/ Excused(m)'
  <2>1. CASE Cardinality(HandledIds) > MaxIds
    BY <1>15, <2>1 DEF Excused
  <2>2. CASE ~(Cardinality(HandledIds) > MaxIds)
    <3>1. IsFiniteSet(HandledIds) /\ Cardinality(HandledIds) =< MaxIds
      BY <2>2, HandledFinite, CacheAssumption
    <3>2. /\ id \in Ids(cache')
          /\ \A b \in DOMAIN cache : b >= (s - WindowMs) \div BucketSpanMs => cache[b].ids \subseteq Ids(cache')
      BY <1>4, <1>5, <1>7, <1>14, <3>1, RecordedKeeps
    <3>3. CASE m = next
      BY <1>4, <3>2, <3>3
    <3>4. CASE m # next
      <4>1. m < next
        BY <1>3, <1>16, <3>4
      <4>2. CASE log[m].id \in Ids(cache)
        <5>1. PICK b \in DOMAIN cache : log[m].id \in cache[b].ids
          BY <4>2, InIds
        <5>2. b >= (s - WindowMs) \div BucketSpanMs
          BY <1>11, <1>12
        <5> QED
          BY <3>2, <5>1, <5>2
      <4>3. CASE Excused(m)
        <5>1. done' \in 0..MaxEvents /\ done =< done' /\ missed \subseteq missed' /\ UNCHANGED log
          BY <1>1, <1>3
        <5> QED
          BY <4>3, <5>1, StillExcused
      <4> QED
        BY <1>16, <4>1, <4>2, <4>3 DEF KnowsHandled
    <3> QED
      BY <3>3, <3>4
  <2> QED
    BY <2>1, <2>2
<1>17. KnowsHandled'
  <2>1. Ids(cache') \subseteq HandledIds'
    BY <1>8, <1>14, <1>15
  <2>2. \A m \in 1..done' : Valid(m)' <=> Valid(m)
    BY <1>1 DEF Valid
  <2>3. \A m \in 1..done' : Valid(m)' /\ m < next' => log'[m].id \in Ids(cache') \/ Excused(m)'
    BY <1>1, <1>16, <2>2
  <2> QED
    BY <1>8, <2>1, <2>3 DEF KnowsHandled
<1> QED
  BY <1>2, <1>9, <1>13, <1>17

\* What a replay that is cut short leaves out is missed.
LEMMA CutShortInv ==
    ASSUME FeedInv, CutShort
    PROVE  FeedInv'
<1> USE DEF FeedInv
<1>1. /\ UNCHANGED <<log, done, emitted, cache>>
      /\ next' = done + 1 /\ missed' = missed \union next..done /\ next =< done
  BY DEF CutShort, EndReplay, Replaying
<1>2. LogOK'
  BY <1>1, LogKept
<1>3. done \in 0..MaxEvents /\ done \in Nat /\ next \in 1..done
  BY <1>1 DEF PlacesOK
<1>4. PlacesOK'
  BY <1>1, <1>3 DEF PlacesOK
<1>5. ReplayOK'
  <2>1. ~(next' =< done')
    BY <1>1, <1>3
  <2> QED
    BY <2>1 DEF ReplayOK
<1>6. KnowsHandled'
  <2>1. ASSUME NEW m \in 1..done, Valid(m) PROVE log[m].id \in Ids(cache) \/ Excused(m)'
    <3>1. CASE m < next
      <4>1. CASE Excused(m)
        <5>1. done' \in 0..MaxEvents /\ done =< done' /\ missed \subseteq missed' /\ UNCHANGED log
          BY <1>1, <1>3
        <5> QED
          BY <4>1, <5>1, StillExcused
      <4> QED
        BY <2>1, <3>1, <4>1 DEF KnowsHandled
    <3>2. CASE m >= next
      <4>1. m \in next..done
        BY <1>3, <3>2
      <4> QED
        BY <1>1, <4>1 DEF Excused
    <3> QED
      BY <1>3, <3>1, <3>2
  <2>2. CacheOK(cache') /\ Ids(cache') \subseteq HandledIds'
    BY <1>1 DEF KnowsHandled, HandledIds
  <2>3. \A m \in 1..done' : Valid(m)' <=> Valid(m)
    BY <1>1 DEF Valid
  <2>4. \A m \in 1..done' : Valid(m)' /\ m < next' => log'[m].id \in Ids(cache') \/ Excused(m)'
    BY <1>1, <2>1, <2>3
  <2> QED
    BY <2>2, <2>4 DEF KnowsHandled
<1> QED
  BY <1>2, <1>4, <1>5, <1>6

\* handle keeps the invariant.
LEMMA HandleInv ==
    ASSUME FeedInv, Handle
    PROVE  FeedInv'
<1> USE DEF FeedInv
<1>1. /\ UNCHANGED <<log, missed>>
      /\ done' = done + 1 /\ next' = done + 2 /\ ~(next =< done) /\ done < MaxEvents
      /\ cache' = CleanAbsorb(cache, log[done + 1])
      /\ emitted' \subseteq emitted \union {done + 1}
  BY DEF Handle, ReadOn, Replaying
<1>2. LogOK'
  BY <1>1, LogKept
<1>3. done \in Nat /\ next = done + 1 /\ done + 1 \in 1..MaxEvents /\ done' \in 0..MaxEvents
  BY <1>1, FeedAssumption DEF PlacesOK
<1>4. PICK n \in 1..MaxEvents : n = done + 1
  BY <1>3
<1>5. PICK id \in Nat : id = log[n].id /\ id = log[n].time
  BY MessageFacts
<1>6. cache' = IF Valid(n) THEN Record(cache, id, id) ELSE cache
  BY <1>1, <1>4, <1>5, MessageFacts
<1>7. PlacesOK'
  <2>1. PICK t \in Nat : \A k \in 1..done : log[k].time =< t
    BY DEF PlacesOK
  <2>2. \A k \in 1..done : log[k].time \in Nat
    <3>1. \A k \in 1..done : k \in 1..MaxEvents
      BY <1>3, FeedAssumption
    <3> QED
      BY <3>1, MessageFacts
  <2>3. \A k \in 1..done' : log'[k].time =< t + id
    <3>1. \A k \in 1..done' : k \in 1..done \/ k = n
      BY <1>1, <1>3, <1>4
    <3> QED
      BY <1>1, <1>5, <2>1, <2>2, <3>1
  <2>4. t + id \in Nat
    OBVIOUS
  <2>5. done' \in 0..MaxEvents /\ next' \in 1..(done' + 1)
    BY <1>1, <1>3
  <2>6. emitted' \in SUBSET (1..done')
    BY <1>1, <1>3 DEF PlacesOK
  <2> QED
    BY <2>3, <2>4, <2>5, <2>6 DEF PlacesOK
<1>8. ReplayOK'
  <2>1. ~(next' =< done')
    BY <1>1, <1>3
  <2> QED
    BY <2>1 DEF ReplayOK
<1>9. CacheOK(cache) /\ Ids(cache) \subseteq HandledIds
  BY DEF KnowsHandled
<1>10. HandledIds \union {id} \subseteq HandledIds'
  <2>1. \A k \in 1..done : k \in 1..done'
    BY <1>1, <1>3
  <2>2. n \in 1..done' /\ log'[n].id = id
    BY <1>1, <1>3, <1>4, <1>5
  <2> QED
    BY <1>1, <2>1, <2>2 DEF HandledIds
<1>11. CacheOK(cache') /\ Ids(cache') \subseteq Ids(cache) \union {id}
  BY <1>5, <1>6, <1>9, Recorded
<1>12. ASSUME NEW m \in Nat, m \in 1..done', Valid(m)
       PROVE  log[m].id \in Ids(cache') \/ Excused(m)'
  <2>1. m \in 1..MaxEvents
    BY <1>3, <1>12, FeedAssumption
  <2>2. PICK x \in Nat : x = log[m].id /\ x = log[m].time
    BY <2>1, MessageFacts
  <2>3. CASE Cardinality(HandledIds') > MaxIds
    BY <2>3 DEF Excused
  <2>4. CASE ~(Cardinality(HandledIds') > MaxIds)
    <3>1. IsFiniteSet(HandledIds') /\ Cardinality(HandledIds') =< MaxIds
      <4>1. done' \in Nat
        BY <1>1, <1>3
      <4>2. IsFiniteSet(HandledIds') /\ Cardinality(HandledIds') \in Nat
        BY <4>1, IdsUpTo, Zenon DEF HandledIds
      <4> QED
        BY <2>4, <4>2, CacheAssumption
    <3>2. Ids(cache) \union {id} \subseteq HandledIds'
      BY <1>9, <1>10
    <3>3. ASSUME Valid(n)
          PROVE  /\ id \in Ids(cache')
                 /\ \A b \in DOMAIN cache : b >= (id - WindowMs) \div BucketSpanMs => cache[b].ids \subseteq Ids(cache')
      <4>1. cache' = Record(cache, id, id) /\ id =< id
        BY <1>6, <3>3
      <4> QED
        BY <1>9, <3>1, <3>2, <4>1, RecordedKeeps
    <3>4. CASE m = n
      BY <1>5, <1>12, <2>2, <3>3, <3>4
    <3>5. CASE m # n
      <4>1. m \in 1..done /\ m < next
        BY <1>1, <1>3, <1>4, <1>12, <3>5
      <4>2. CASE Excused(m)
        <5>1. done' \in 0..MaxEvents /\ done =< done' /\ missed \subseteq missed' /\ UNCHANGED log
          BY <1>1, <1>3
        <5> QED
          BY <4>1, <4>2, <5>1, StillExcused
      <4>3. CASE x \in Ids(cache)
        <5>1. CASE ~Valid(n)
          BY <1>6, <2>2, <4>3, <5>1
        <5>2. CASE Valid(n)
          <6>1. PICK b \in DOMAIN cache : x \in cache[b].ids
            BY <4>3, InIds
          <6>2. b \in Int /\ x \div BucketSpanMs =< b
            BY <1>9, <6>1 DEF CacheOK
          <6>3. PICK cut \in Int : cut = (id - WindowMs) \div BucketSpanMs
            BY CacheAssumption, BucketOrder
          <6>4. CASE b >= cut
            BY <2>2, <3>3, <5>2, <6>1, <6>3, <6>4
          <6>5. CASE ~(b >= cut)
            <7>1. x \div BucketSpanMs \in Int /\ id - WindowMs \in Int
                  /\ (id - WindowMs =< x => cut =< x \div BucketSpanMs)
              BY <6>3, CacheAssumption, BucketOrder
            <7>2. ~(id - WindowMs =< x)
              BY <6>2, <6>5, <7>1
            <7>3. id - x > WindowMs
              BY <7>2, CacheAssumption
            <7>4. n \in 1..done' /\ Valid(n)' /\ log'[n].time - log'[m].time > WindowMs
              BY <1>1, <1>3, <1>4, <1>5, <2>2, <5>2, <7>3 DEF Valid
            <7> QED
              BY <7>4 DEF Excused
          <6> QED
            BY <6>4, <6>5
        <5> QED
          BY <5>1, <5>2
      <4> QED
        BY <1>12, <2>2, <4>1, <4>2, <4>3 DEF KnowsHandled
    <3> QED
      BY <3>4, <3>5
  <2> QED
    BY <2>3, <2>4
<1>13. KnowsHandled'
  <2>1. Ids(cache') \subseteq HandledIds'
    BY <1>9, <1>10, <1>11
  <2>2. \A m \in 1..done' : m \in Nat /\ (Valid(m)' <=> Valid(m))
    BY <1>1, <1>3 DEF Valid
  <2>3. \A m \in 1..done' : Valid(m)' /\ m < next' => log'[m].id \in Ids(cache') \/ Excused(m)'
    BY <1>1, <1>12, <2>2
  <2> QED
    BY <1>11, <2>1, <2>3 DEF KnowsHandled
<1> QED
  BY <1>2, <1>7, <1>8, <1>13

\* So does a step that changes nothing.
LEMMA StutterInv ==
    ASSUME FeedInv, UNCHANGED vars
    PROVE  FeedInv'
BY DEF FeedInv, vars, LogOK, PlacesOK, ReplayOK, KnowsHandled, HandledIds, Excused, Valid

\* The inductive invariant holds.
LEMMA FeedInvHolds ==
    Spec => []FeedInv
<1>1. FeedInv /\ [Next]_vars => FeedInv'
  BY HandleInv, NewOwnerInv, WarmInv, CutShortInv, StutterInv DEF Next
<1> QED
  BY <1>1, StartInv, PTL DEF Spec

\* The cache keeps its bound through every handled message, every new owner and
\* every replay.
LEMMA BoundKept ==
    ASSUME FeedInv, BoundedByBuckets, [Next]_vars
    PROVE  BoundedByBuckets'
<1>1. Bounded(cache) /\ LogOK /\ CacheOK(cache)
  BY DEF BoundedByBuckets, Bounded, FeedInv, KnowsHandled
<1>2. CASE Handle
  <2>1. done + 1 \in 1..MaxEvents /\ cache' = CleanAbsorb(cache, log[done + 1])
    BY <1>2, FeedAssumption DEF Handle, FeedInv, PlacesOK
  <2>2. PICK id \in Nat : cache' = cache \/ cache' = Record(cache, id, id)
    BY <1>1, <2>1, MessageFacts
  <2>3. id =< id
    OBVIOUS
  <2>4. Bounded(cache')
    BY <1>1, <2>2, <2>3, Recorded
  <2> QED
    BY <2>4 DEF BoundedByBuckets, Bounded
<1>3. CASE NewOwner
  BY <1>3, NoIds DEF NewOwner, BoundedByBuckets, Bounded
<1>4. CASE Warm
  <2>1. next \in 1..MaxEvents /\ cache' = Load(cache, log[next])
    BY <1>4, FeedAssumption DEF Warm, ReplayNext, Replaying, FeedInv, PlacesOK
  <2>2. PICK id \in Nat, s \in Nat : id =< s /\ cache' = Record(cache, id, s)
    BY <1>1, <2>1, MessageFacts
  <2>3. Bounded(cache')
    BY <1>1, <2>2, Recorded
  <2> QED
    BY <2>3 DEF BoundedByBuckets, Bounded
<1>5. CASE CutShort \/ UNCHANGED vars
  <2>1. cache' = cache
    BY <1>5 DEF CutShort, vars
  <2> QED
    BY <2>1 DEF BoundedByBuckets, Size
<1> QED
  BY <1>2, <1>3, <1>4, <1>5 DEF Next

\* The dedup cache never holds more than max_ids ids, except while they share a
\* bucket: under every sequence of messages, new owners and replays.
THEOREM DedupBounded ==
    Spec => []BoundedByBuckets
<1>1. Init => BoundedByBuckets
  BY NoIds DEF Init, BoundedByBuckets, Bounded
<1>2. FeedInv /\ BoundedByBuckets /\ [Next]_vars => BoundedByBuckets'
  BY BoundKept
<1> QED
  BY <1>1, <1>2, FeedInvHolds, PTL DEF Spec

\* The ids that were emitted stay emitted.
LEMMA SwallowKept ==
    ASSUME FeedInv, NothingSwallowed, [Next]_vars
    PROVE  NothingSwallowed'
<1>1. CASE Handle
  <2>1. /\ UNCHANGED log /\ done' = done + 1 /\ done < MaxEvents
        /\ emitted' = IF CleanEmits(cache, log[done + 1]) = <<<<"clean", log[done + 1].id>>>>
                      THEN emitted \union {done + 1} ELSE emitted
    BY <1>1 DEF Handle
  <2>2. LogOK /\ done \in Nat /\ done + 1 \in 1..MaxEvents /\ CacheOK(cache) /\ Ids(cache) \subseteq HandledIds
    BY <2>1, FeedAssumption DEF FeedInv, PlacesOK, KnowsHandled
  <2>3. PICK n \in 1..MaxEvents : n = done + 1
    BY <2>2
  <2>4. PICK id \in Nat : id = log[n].id
    BY <2>2, MessageFacts
  <2>5. Valid(n) /\ IsNew(cache, id, id) => emitted' = emitted \union {n}
    BY <2>1, <2>2, <2>3, <2>4, MessageFacts
  <2>6. emitted \subseteq emitted'
    BY <2>1
  <2>7. ASSUME NEW k \in 1..done, Valid(k) PROVE log[k].id \in {log[j].id : j \in emitted'}
    BY <2>6, <2>7 DEF NothingSwallowed
  <2>8. ASSUME Valid(n) PROVE log[n].id \in {log[j].id : j \in emitted'}
    <3>1. CASE IsNew(cache, id, id)
      BY <2>5, <2>8, <3>1
    <3>2. CASE ~IsNew(cache, id, id)
      <4>1. PICK e : e = ExpireBuckets(cache, id)
        OBVIOUS
      <4>2. Ids(e) \subseteq Ids(cache)
        BY <2>2, <4>1, Expired
      <4>3. id \in Ids(e)
        BY <3>2, <4>1 DEF IsNew
      <4>4. PICK k \in 1..done : log[k].id = id
        BY <2>2, <4>2, <4>3 DEF HandledIds
      <4>5. Valid(k)
        BY <2>4, <2>8, <4>4 DEF Valid
      <4> QED
        BY <2>4, <2>7, <4>4, <4>5
    <3> QED
      BY <3>1, <3>2
  <2>9. \A k \in 1..done' : k \in 1..done \/ k = n
    BY <2>1, <2>2, <2>3
  <2>10. \A k \in 1..done' : Valid(k)' <=> Valid(k)
    BY <2>1 DEF Valid
  <2> QED
    BY <2>1, <2>7, <2>8, <2>9, <2>10 DEF NothingSwallowed
<1>2. CASE NewOwner \/ Warm \/ CutShort \/ UNCHANGED vars
  <2>1. UNCHANGED <<log, done, emitted>>
    BY <1>2 DEF NewOwner, Warm, CutShort, vars
  <2> QED
    BY <2>1 DEF NothingSwallowed, Valid
<1> QED
  BY <1>1, <1>2 DEF Next

\* No event is taken for a copy of itself, or of one that was never emitted, though
\* new owners fill their caches from the partition that they go on to read.
THEOREM EveryEventEmitted ==
    Spec => []NothingSwallowed
<1>1. Init => NothingSwallowed
  BY DEF Init, NothingSwallowed
<1>2. FeedInv /\ NothingSwallowed /\ [Next]_vars => NothingSwallowed'
  BY SwallowKept
<1> QED
  BY <1>1, <1>2, FeedInvHolds, PTL DEF Spec

\* What CopiesFound says of one emitted message.
Found(n) ==
    \A m \in 1..(n - 1) :
        (log[m].id = log[n].id) =>
            \/ m \in missed
            \/ NewestTime(n) - log[m].time > WindowMs
            \/ NewestStamp(n) - log[m].stamp > WindowMs
            \/ Cardinality({log[k].id : k \in 1..n}) > MaxIds

\* The event times so far have a largest.
LEMMA NewestIs ==
    ASSUME FeedInv, NEW j \in 1..done, Valid(j)
    PROVE  NewestTime(done + 1) \in Nat /\ NewestTime(done + 1) >= log[j].time
<1>1. PICK t \in Nat : \A k \in 1..done : log[k].time =< t
  BY DEF FeedInv, PlacesOK
<1>2. \A k \in 1..done : log[k].time \in Nat
  <2>1. \A k \in 1..done : k \in 1..MaxEvents
    BY FeedAssumption DEF FeedInv, PlacesOK
  <2> QED
    BY <2>1, MessageFacts DEF FeedInv
<1>3. (done + 1) - 1 = done
  BY DEF FeedInv, PlacesOK
<1>4. PICK S \in SUBSET Nat : S = {log[k].time : k \in {i \in 1..done : Valid(i)}}
  <2>1. {log[k].time : k \in {i \in 1..done : Valid(i)}} \in SUBSET Nat
    BY <1>2
  <2> QED
    BY <2>1
<1>5. log[j].time \in S /\ S # {} /\ \A s \in S : s =< t
  BY <1>1, <1>4
<1>6. PICK x \in S : \A y \in S : y =< x
  BY <1>5, LargestOf
<1>7. Max(S) = x
  <2>1. S \in SUBSET Int
    OBVIOUS
  <2> QED
    BY <1>6, <2>1, MaxIs
<1>8. NewestTime(done + 1) = x
  <2>1. 1..((done + 1) - 1) = 1..done
    BY <1>3
  <2>2. NewestTime(done + 1) = Max({log[k].time : k \in {i \in 1..((done + 1) - 1) : Valid(i)}})
    BY DEF NewestTime
  <2> QED
    BY <1>4, <1>7, <2>1, <2>2, Zenon
<1> QED
  BY <1>2, <1>5, <1>6, <1>8

\* A message that is emitted now is no copy, or one that may be missed.
LEMMA EmittedFound ==
    ASSUME FeedInv, ~(next =< done), done < MaxEvents,
           NEW id, id = log[done + 1].id, Valid(done + 1), IsNew(cache, id, id)
    PROVE  Found(done + 1)
<1>1. /\ LogOK /\ done \in Nat /\ done + 1 \in 1..MaxEvents /\ next = done + 1
      /\ CacheOK(cache) /\ (done + 1) - 1 = done
  BY FeedAssumption DEF FeedInv, PlacesOK, KnowsHandled
<1>2. id \in Nat
  BY <1>1, MessageFacts
<1>3. id \notin Ids(cache)
  <2>1. PICK e : e = ExpireBuckets(cache, id)
    OBVIOUS
  <2>2. DOMAIN e = {b \in DOMAIN cache : b >= (id - WindowMs) \div BucketSpanMs}
    BY <1>1, <1>2, <2>1, Expired, ZenonT(60)
  <2>3. \A b \in DOMAIN e : e[b] = cache[b]
    BY <2>1 DEF ExpireBuckets, Restrict
  <2>4. ASSUME NEW b \in DOMAIN cache, id \in cache[b].ids PROVE FALSE
    <3>1. id - WindowMs \in Int /\ id - WindowMs =< id
      BY <1>2, CacheAssumption
    <3>2. PICK cut \in Int : cut = (id - WindowMs) \div BucketSpanMs /\ cut =< id \div BucketSpanMs
                             /\ id \div BucketSpanMs \in Int
      BY <1>2, <3>1, BucketOrder
    <3>3. b \in Int /\ id \div BucketSpanMs =< b
      BY <1>1, <2>4 DEF CacheOK
    <3>4. b >= cut
      BY <3>2, <3>3
    <3>5. b \in DOMAIN e /\ id \in e[b].ids
      BY <2>2, <2>3, <2>4, <3>2, <3>4
    <3>6. id \in Ids(e)
      BY <3>5, InIds
    <3> QED
      BY <2>1, <3>6 DEF IsNew
  <2> QED
    BY <2>4, InIds
<1>4. ASSUME NEW m \in Nat, m \in 1..done, log[m].id = id
      PROVE  \/ m \in missed
             \/ NewestTime(done + 1) - log[m].time > WindowMs
             \/ NewestStamp(done + 1) - log[m].stamp > WindowMs
             \/ Cardinality({log[k].id : k \in 1..(done + 1)}) > MaxIds
  <2>1. Valid(m) /\ m < next
    BY <1>1, <1>4 DEF Valid
  <2>2. Excused(m)
    BY <1>3, <1>4, <2>1 DEF FeedInv, KnowsHandled
  <2>3. ASSUME NEW j \in 1..done, Valid(j), log[j].time - log[m].time > WindowMs
        PROVE  NewestTime(done + 1) - log[m].time > WindowMs
    <3>1. j \in 1..MaxEvents /\ m \in 1..MaxEvents
      BY <1>1, <1>4, FeedAssumption
    <3>2. log[j].time \in Nat /\ log[m].time \in Nat
      BY <1>1, <3>1, MessageFacts
    <3>3. NewestTime(done + 1) \in Nat /\ NewestTime(done + 1) >= log[j].time
      BY <2>3, NewestIs
    <3> QED
      BY <2>3, <3>2, <3>3, CacheAssumption
  <2>4. ASSUME Cardinality(HandledIds) > MaxIds
        PROVE  Cardinality({log[k].id : k \in 1..(done + 1)}) > MaxIds
    <3>1. done + 1 \in Nat /\ done =< done + 1
      BY <1>1
    <3>2. PICK T : T = {log[k].id : k \in 1..(done + 1)}
      OBVIOUS
    <3>3. Cardinality(HandledIds) =< Cardinality(T)
      BY <1>1, <3>1, <3>2, MoreIds, Zenon DEF HandledIds
    <3>4. Cardinality(T) \in Nat
      BY <3>1, <3>2, IdsUpTo, Zenon
    <3>5. Cardinality(HandledIds) \in Nat
      BY HandledFinite DEF FeedInv
    <3>6. Cardinality(T) > MaxIds
      BY <2>4, <3>3, <3>4, <3>5, CacheAssumption
    <3> QED
      BY <3>2, <3>6
  <2>5. NewestStamp(done + 1) = log[done].stamp
    BY <1>1 DEF NewestStamp
  <2> QED
    BY <2>2, <2>3, <2>4, <2>5, Zenon DEF Excused
<1>5. \A m \in 1..((done + 1) - 1) : m \in Nat /\ m \in 1..done
  BY <1>1
<1> QED
  BY <1>4, <1>5, Zenon DEF Found

\* Copies are found in every step.
LEMMA FoundKept ==
    ASSUME FeedInv, CopiesFound, [Next]_vars
    PROVE  CopiesFound'
<1>1. CopiesFound <=> \A n \in emitted : Found(n)
  BY Zenon DEF CopiesFound, Found
<1>2. CopiesFound' <=> \A n \in emitted' : Found(n)'
  BY Zenon DEF CopiesFound, Found
<1>3. ASSUME UNCHANGED log, missed \subseteq missed', NEW n, Found(n)
      PROVE  Found(n)'
  <2>1. NewestTime(n)' = NewestTime(n) /\ NewestStamp(n)' = NewestStamp(n)
    BY <1>3 DEF NewestTime, NewestStamp, Valid
  <2> QED
    BY <1>3, <2>1 DEF Found
<1>4. CASE Handle
  <2>1. /\ UNCHANGED <<log, missed>> /\ ~(next =< done) /\ done < MaxEvents
        /\ emitted' = IF CleanEmits(cache, log[done + 1]) = <<<<"clean", log[done + 1].id>>>>
                      THEN emitted \union {done + 1} ELSE emitted
    BY <1>4 DEF Handle, ReadOn, Replaying
  <2>2. LogOK /\ done + 1 \in 1..MaxEvents
    BY <2>1, FeedAssumption DEF FeedInv, PlacesOK
  <2>3. PICK id : id = log[done + 1].id
    OBVIOUS
  <2>4. CASE emitted' = emitted
    BY <1>1, <1>2, <1>3, <2>1, <2>4
  <2>5. CASE emitted' # emitted
    <3>1. emitted' = emitted \union {done + 1} /\ Valid(done + 1) /\ IsNew(cache, id, id)
      BY <2>1, <2>2, <2>3, <2>5, MessageFacts
    <3>2. Found(done + 1)
      BY <2>1, <2>3, <3>1, EmittedFound
    <3> QED
      BY <1>1, <1>2, <1>3, <2>1, <3>1, <3>2
  <2> QED
    BY <2>4, <2>5
<1>5. CASE NewOwner \/ Warm \/ CutShort \/ UNCHANGED vars
  <2>1. UNCHANGED <<log, emitted>> /\ missed \subseteq missed'
    BY <1>5 DEF NewOwner, Warm, CutShort, vars, BeginReplay, ReplayNext, EndReplay
  <2> QED
    BY <1>1, <1>2, <1>3, <2>1
<1> QED
  BY <1>4, <1>5 DEF Next

\* Whichever owner meets it, a copy of an event is emitted only where the window,
\* the size of the cache or a replay that was cut lets it.
THEOREM CopiesAreFound ==
    Spec => []CopiesFound
<1>1. Init => CopiesFound
  BY DEF Init, CopiesFound
<1>2. FeedInv /\ CopiesFound /\ [Next]_vars => CopiesFound'
  BY FoundKept
<1> QED
  BY <1>1, <1>2, FeedInvHolds, PTL DEF Spec
=============================================================================

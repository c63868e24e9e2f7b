--------------------------- MODULE DetectorProofs ---------------------------
(***************************************************************************)
(* Proofs about the edit war detector (EditWarDetector), fed and replayed  *)
(* as in DetectorFeed: for any window, numbers of reverts and users, any   *)
(* messages, pages and owners.                                             *)
(***************************************************************************)
EXTENDS DetectorFeed, FiniteSetTheorems, WellFoundedInduction, TLAPS

(***************************************************************************)
(* The messages of the partition, and whether they came in order.          *)
(***************************************************************************)
Pages == {e.page : e \in Edits}
Messages == {Message(n, e, t, lag) : n \in Nat, e \in Edits, t \in Times, lag \in Lags}

SeenOK ==
    /\ seen \in Seq(Messages)
    /\ \A n \in 1..Len(seen) : seen[n].id = n
    /\ \E t \in Nat : \A n \in 1..Len(seen) : seen[n].time =< t

InOrder == \A m, n \in 1..Len(seen) : m =< n => seen[m].time =< seen[n].time

(***************************************************************************)
(* What is true of a detector d that has observed messages up to n. The    *)
(* reverts L of a page q are some of the partition's, in its order, and    *)
(* about a window apart.                                                   *)
(***************************************************************************)
ListOK(n, q, L) ==
    /\ L \in Seq(Messages)
    /\ \A i \in 1..Len(L) : /\ L[i].id \in 1..n
                            /\ L[i] = seen[L[i].id]
                            /\ L[i].readable /\ Counts(L[i]) /\ L[i].page = q
    /\ \A i, j \in 1..Len(L) : i < j => L[i].id < L[j].id

Near(L) == \A i, j \in 1..Len(L) : i =< j => L[j].time - L[i].time =< WarWindowMs + LateMs

Lists(n, d) ==
    \A q \in Pages : ListOK(n, q, PageOf(d, q).reverts) /\ Near(PageOf(d, q).reverts)

MarkOK(n, d) ==
    /\ d = [watermark |-> d.watermark, pages |-> d.pages]
    /\ d.watermark \in Nat
    /\ d.watermark = 0 \/ \E m \in 1..n : d.watermark = seen[m].time

\* When messages come in order: a page is in a war up to a window after a revert in it.
UntilOK(n, d) ==
    \A q \in Pages :
        \/ PageOf(d, q).until = -1
        \/ \E m \in 1..n : /\ seen[m].page = q /\ InWar(m)
                           /\ PageOf(d, q).until = seen[m].time + WarWindowMs

\* Every revert in the window before `end` is there, if it is not among `out`.
Complete(n, d, out, end) ==
    \A m \in 1..n :
        IsRevert(m) /\ seen[m].time >= end - WarWindowMs =>
            m \in out \/ \E i \in 1..Len(PageOf(d, seen[m].page).reverts) :
                             PageOf(d, seen[m].page).reverts[i].id = m

\* Every war so far is known, or it is over.
Known(n, d) ==
    \A m \in 1..n :
        InWar(m) => \/ seen[m].time + WarWindowMs =< PageOf(d, seen[m].page).until
                    \/ seen[m].time + WarWindowMs < d.watermark

(***************************************************************************)
(* The inductive invariant.                                                *)
(***************************************************************************)
PlacesOK ==
    /\ next \in 1..(Len(seen) + 1)
    /\ restarts \in Nat
    /\ restarts = 0 => next = Len(seen) + 1 /\ missed = {}
    /\ \A r \in raised : r.at \in 1..Len(seen)

DetectorOK == Lists(next - 1, det) /\ MarkOK(next - 1, det)

\* The windows that were replayed are long enough.
Trusted == restarts = 0 \/ NoneHeldUp

InOrderOK ==
    InOrder =>
        /\ UntilOK(next - 1, det)
        /\ Trusted /\ Len(seen) > 0 => Complete(next - 1, det, missed, seen[Len(seen)].time)
        /\ restarts = 0 => Known(next - 1, det)

DetectorInv == SeenOK /\ PlacesOK /\ DetectorOK /\ InOrderOK
-----------------------------------------------------------------------------
\* The largest of some numbers is the one that is no smaller than any.
LEMMA MaxIs ==
    ASSUME NEW S \in SUBSET Int, NEW l \in S, \A k \in S : k =< l
    PROVE  Max(S) = l
<1>1. \A y \in S : l >= y
  OBVIOUS
<1>2. \A x \in S : (\A y \in S : x >= y) => x = l
  OBVIOUS
<1> QED
  BY <1>1, <1>2 DEF Max

\* Some numbers have a smallest.
LEMMA SmallestOf ==
    ASSUME NEW S \in SUBSET Nat, S # {}
    PROVE  \E x \in S : \A y \in S : x =< y
<1>1. OpToRel(<, Nat) = {pair \in Nat \X Nat : pair[1] < pair[2]}
  BY DEF OpToRel
<1>2. IsWellFoundedOn({pair \in Nat \X Nat : pair[1] < pair[2]}, Nat)
  BY <1>1, NatLessThanWellFounded, Zenon
<1>3. PICK x \in S : \A y \in S : <<y, x>> \notin {pair \in Nat \X Nat : pair[1] < pair[2]}
  BY <1>2, WFMin, Zenon
<1>4. ASSUME NEW y \in S PROVE x =< y
  <2>1. <<y, x>> \in Nat \X Nat /\ <<y, x>>[1] = y /\ <<y, x>>[2] = x
    OBVIOUS
  <2>2. ~(y < x)
    BY <2>1, <1>3, Zenon
  <2> QED
    BY <2>2
<1> QED
  BY <1>4

\* Numbers that do not exceed a bound have a largest.
LEMMA LargestOf ==
    ASSUME NEW n \in Nat, NEW S \in SUBSET Nat, S # {}, \A k \in S : k =< n
    PROVE  \E x \in S : \A y \in S : y =< x
<1>1. PICK T \in SUBSET Nat : T = {n - k : k \in S}
  <2>1. {n - k : k \in S} \in SUBSET Nat
    OBVIOUS
  <2> QED
    BY <2>1
<1>2. T # {}
  BY <1>1
<1>3. PICK x \in T : \A y \in T : x =< y
  BY <1>2, SmallestOf
<1>4. PICK l \in S : x = n - l
  BY <1>1
<1>5. ASSUME NEW k \in S PROVE k =< l
  <2>1. n - k \in T
    BY <1>1
  <2>2. x =< n - k
    BY <1>3, <2>1
  <2> QED
    BY <1>4, <2>2
<1> QED
  BY <1>5

\* There are n numbers up to n.
LEMMA UpTo ==
    ASSUME NEW n \in Nat
    PROVE  IsFiniteSet(1..n) /\ Cardinality(1..n) = n
<1>1. IsFiniteSet(1..n) /\ Cardinality(1..n) = IF 1 > n THEN 0 ELSE n - 1 + 1
  BY FS_Interval
<1> QED
  BY <1>1

\* What a message of the partition looks like.
LEMMA SeenFacts ==
    ASSUME SeenOK, NEW n \in 1..Len(seen)
    PROVE  /\ seen[n] \in Messages
           /\ seen[n].id = n
           /\ seen[n].time \in Nat /\ seen[n].stamp \in Nat
           /\ seen[n].page \in Pages
           /\ seen[n].readable \in BOOLEAN /\ Counts(seen[n]) \in BOOLEAN
<1>1. seen[n] \in Messages /\ seen[n].id = n
  BY DEF SeenOK
<1>2. PICK k \in Nat, e \in Edits, t \in Times, lag \in Lags : seen[n] = Message(k, e, t, lag)
  BY <1>1 DEF Messages
<1>3. t \in Nat /\ lag \in Nat /\ e.bot \in BOOLEAN /\ e.revert \in BOOLEAN /\ e.readable \in BOOLEAN
  BY FeedAssumption
<1>4. seen[n].time = t /\ seen[n].stamp = t + lag /\ seen[n].page = e.page
  BY <1>2 DEF Message
<1>5. seen[n].readable = e.readable /\ seen[n].bot = e.bot /\ seen[n].revert = e.revert
  BY <1>2 DEF Message
<1>6. Counts(seen[n]) \in BOOLEAN
  BY Zenon DEF Counts
<1>7. seen[n].readable \in BOOLEAN
  BY <1>3, <1>5, Zenon
<1>8. e.page \in Pages
  BY DEF Pages
<1> QED
  BY <1>1, <1>3, <1>4, <1>6, <1>7, <1>8

\* LateMs is as late as the latest message, and zero when they are in order.
LEMMA LateFacts ==
    ASSUME SeenOK
    PROVE  /\ LateMs \in Nat
           /\ \A m, n \in 1..Len(seen) : m =< n => seen[m].time - seen[n].time =< LateMs
           /\ LateMs = 0 => InOrder
           /\ LateMs = 0 \/ \E m, n \in 1..Len(seen) :
                                m =< n /\ LateMs = seen[m].time - seen[n].time
<1>1. PICK t \in Nat : \A n \in 1..Len(seen) : seen[n].time =< t
  BY DEF SeenOK
<1>2. Len(seen) \in Nat /\ DOMAIN seen = 1..Len(seen)
  BY DEF SeenOK
<1>3. \A n \in 1..Len(seen) : seen[n].time \in Nat
  BY SeenFacts
<1>4. PICK S : S = {0} \union UNION {{seen[m].time - seen[n].time : m \in 1..n} : n \in DOMAIN seen}
  OBVIOUS
<1>5. ASSUME NEW m \in 1..Len(seen), NEW n \in 1..Len(seen), m =< n
      PROVE  seen[m].time - seen[n].time \in S
  <2>1. m \in 1..n /\ n \in DOMAIN seen
    BY <1>2, <1>5
  <2> QED
    BY <1>4, <2>1
<1>6. ASSUME NEW s \in S PROVE s \in Int /\ s =< t
  <2>1. CASE s = 0
    BY <2>1
  <2>2. CASE s # 0
    <3>1. PICK n \in DOMAIN seen : \E m \in 1..n : s = seen[m].time - seen[n].time
      BY <1>4, <2>2
    <3>2. PICK m \in 1..n : s = seen[m].time - seen[n].time
      BY <3>1
    <3>3. n \in 1..Len(seen) /\ m \in 1..Len(seen)
      BY <1>2
    <3>4. seen[m].time \in Nat /\ seen[n].time \in Nat /\ seen[m].time =< t
      BY <1>1, <1>3, <3>3
    <3> QED
      BY <3>2, <3>4
  <2> QED
    BY <2>1, <2>2
<1>7. PICK x \in S : x \in Nat /\ \A s \in S : s =< x
  <2>1. PICK P \in SUBSET Nat : P = {s \in S : s >= 0}
    <3>1. {s \in S : s >= 0} \in SUBSET Nat
      BY <1>6
    <3> QED
      BY <3>1
  <2>2. 0 \in P /\ \A s \in P : s =< t
    BY <1>4, <1>6, <2>1
  <2>3. P # {}
    BY <2>2
  <2>4. PICK x \in P : \A s \in P : s =< x
    BY <2>2, <2>3, LargestOf
  <2>5. x \in S /\ x \in Nat
    BY <2>1
  <2>6. ASSUME NEW s \in S PROVE s =< x
    <3>1. CASE s >= 0
      BY <2>1, <2>4, <3>1
    <3>2. CASE ~(s >= 0)
      BY <1>6, <2>5, <3>2
    <3> QED
      BY <3>1, <3>2
  <2> QED
    BY <2>5, <2>6
<1>8. LateMs = x
  <2>1. S \in SUBSET Int
    BY <1>6
  <2>2. Max(S) = x
    BY <1>7, <2>1, MaxIs
  <2> QED
    BY <1>4, <2>2, Zenon DEF LateMs
<1>9. \A m, n \in 1..Len(seen) : m =< n => seen[m].time - seen[n].time =< x
  BY <1>5, <1>7
<1>10. x = 0 => InOrder
  BY <1>3, <1>9 DEF InOrder
<1>11. x = 0 \/ \E m, n \in 1..Len(seen) : m =< n /\ x = seen[m].time - seen[n].time
  <2>1. CASE x = 0
    BY <2>1
  <2>2. CASE x # 0
    <3>1. PICK n \in DOMAIN seen : \E m \in 1..n : x = seen[m].time - seen[n].time
      BY <1>4, <1>7, <2>2
    <3>2. PICK m \in 1..n : x = seen[m].time - seen[n].time
      BY <3>1
    <3>3. n \in 1..Len(seen) /\ m \in 1..Len(seen) /\ m =< n
      BY <1>2
    <3> QED
      BY <3>2, <3>3
  <2> QED
    BY <2>1, <2>2
<1> QED
  BY <1>7, <1>8, <1>9, <1>10, <1>11

-----------------------------------------------------------------------------
(***************************************************************************)
(* The rule, one revert at a time.                                         *)
(***************************************************************************)
LEMMA InReverts ==
    ASSUME NEW n, NEW m
    PROVE  /\ m \in Reverts(n) <=> m \in 1..n /\ IsRevert(m) /\ seen[m].page = seen[n].page
           /\ m \in Recent(n) <=> m \in Reverts(n) /\ seen[n].time - seen[m].time =< WarWindowMs
BY DEF Reverts, Recent

\* Enough reverts are a war.
LEMMA WarStarts ==
    ASSUME NEW n \in Nat \ {0}, IsRevert(n), Enough(n)
    PROVE  InWar(n)
<1>1. n \in Reverts(n)
  BY InReverts
<1>2. \A m \in Reverts(n) : ~(m > n)
  BY InReverts
<1> QED
  BY <1>1, <1>2 DEF InWar

\* A revert within a window of one in a war is in it.
LEMMA WarGoesOn ==
    ASSUME SeenOK, InOrder, NEW n \in 1..Len(seen), IsRevert(n),
           NEW m \in Recent(n), m # n, InWar(m)
    PROVE  InWar(n)
<1>1. m \in 1..n /\ IsRevert(m) /\ seen[m].page = seen[n].page /\ seen[n].time - seen[m].time =< WarWindowMs
  BY InReverts
<1>2. Len(seen) \in Nat
  BY DEF SeenOK
<1>3. m \in 1..Len(seen) /\ m < n
  BY <1>1, <1>2
<1>4. PICK first \in Reverts(m) :
          /\ Enough(first)
          /\ \A j \in Reverts(m) : j > first => \E k \in Recent(j) : first =< k /\ k < j
  BY DEF InWar
<1>5. first \in 1..m /\ IsRevert(first) /\ seen[first].page = seen[m].page
  BY <1>4, InReverts
<1>6. first \in Reverts(n)
  <2>1. first \in 1..n
    BY <1>1, <1>3, <1>5
  <2> QED
    BY <1>1, <1>5, <2>1, InReverts
<1>7. ASSUME NEW j \in Reverts(n), j > first
      PROVE  \E k \in Recent(j) : first =< k /\ k < j
  <2>1. j \in 1..n /\ IsRevert(j) /\ seen[j].page = seen[n].page
    BY <1>7, InReverts
  <2>2. CASE j =< m
    <3>1. j \in 1..m
      BY <1>3, <2>1, <2>2
    <3>2. j \in Reverts(m)
      BY <1>1, <2>1, <3>1, InReverts
    <3> QED
      BY <1>4, <1>7, <3>2
  <2>3. CASE ~(j =< m)
    <3>1. j \in 1..Len(seen) /\ j =< n /\ m < j
      BY <1>2, <1>3, <2>1, <2>3
    <3>2. seen[j].time =< seen[n].time
      BY <3>1 DEF InOrder
    <3>3. seen[j].time \in Nat /\ seen[n].time \in Nat /\ seen[m].time \in Nat
      BY <1>3, <3>1, SeenFacts
    <3>4. seen[j].time - seen[m].time =< WarWindowMs
      BY <1>1, <3>2, <3>3, DetectorAssumption, SMTT(40)
    <3>5. m \in 1..j
      BY <1>3, <3>1
    <3>6. m \in Recent(j)
      BY <1>1, <2>1, <3>4, <3>5, InReverts
    <3>7. first =< m
      BY <1>3, <1>5
    <3> QED
      BY <3>1, <3>6, <3>7
  <2> QED
    BY <2>2, <2>3
<1> QED
  BY <1>4, <1>6, <1>7 DEF InWar

\* A revert in a war starts one, or it is within a window of another in the war.
LEMMA WarIs ==
    ASSUME SeenOK, NEW n \in 1..Len(seen), InWar(n)
    PROVE  Enough(n) \/ \E m \in Recent(n) : m # n /\ InWar(m)
<1>1. PICK first \in Reverts(n) :
          /\ Enough(first)
          /\ \A j \in Reverts(n) : j > first => \E k \in Recent(j) : first =< k /\ k < j
  BY DEF InWar
<1>2. first \in 1..n /\ IsRevert(first) /\ seen[first].page = seen[n].page
  BY <1>1, InReverts
<1>3. IsRevert(n) /\ n \in Nat /\ n \in 1..n
  BY DEF InWar
<1>4. n \in Reverts(n)
  BY <1>3, InReverts
<1>5. CASE first = n
  BY <1>1, <1>5
<1>6. CASE first # n
  <2>1. n > first
    BY <1>2, <1>3, <1>6
  <2>2. PICK k \in Recent(n) : first =< k /\ k < n
    BY <1>1, <1>4, <2>1
  <2>3. k \in 1..n /\ IsRevert(k) /\ seen[k].page = seen[n].page
    BY <2>2, InReverts
  <2>4. first \in 1..k
    BY <1>2, <2>2, <2>3
  <2>5. first \in Reverts(k)
    BY <1>2, <2>3, <2>4, InReverts
  <2>6. \A j \in Reverts(k) : j \in Reverts(n)
    <3>1. \A j \in 1..k : j \in 1..n
      BY <1>3, <2>3
    <3> QED
      BY <2>3, <3>1, InReverts
  <2>7. InWar(k)
    BY <1>1, <2>3, <2>5, <2>6 DEF InWar
  <2>8. k # n
    BY <1>3, <2>2, <2>3
  <2> QED
    BY <2>2, <2>7, <2>8
<1> QED
  BY <1>5, <1>6

\* What the rule says of a message does not depend on those after it.
LEMMA RuleKept ==
    ASSUME NEW z \in Nat, \A m \in 1..z : seen'[m] = seen[m], NEW n \in 1..z
    PROVE  /\ IsRevert(n)' <=> IsRevert(n)
           /\ InWar(n)' <=> InWar(n)
           /\ StartsWar(n)' <=> StartsWar(n)
<1>1. \A m \in 1..z : IsRevert(m)' <=> IsRevert(m)
  BY DEF IsRevert, Counts
<1>2. ASSUME NEW k \in 1..z
      PROVE  Reverts(k)' = Reverts(k) /\ Recent(k)' = Recent(k)
  <2>1. \A m \in 1..k : m \in 1..z
    OBVIOUS
  <2>2. Reverts(k)' = Reverts(k)
    BY <1>1, <2>1 DEF Reverts
  <2>3. \A m \in Reverts(k) : m \in 1..z
    BY <2>1 DEF Reverts
  <2>4. Recent(k)' = Recent(k)
    BY <2>2, <2>3 DEF Recent
  <2> QED
    BY <2>2, <2>4
<1>3. \A k \in 1..z : \A m \in Reverts(k) : m \in 1..z
  BY DEF Reverts
<1>4. \A k \in 1..z : \A m \in Recent(k) : m \in 1..z
  BY <1>3 DEF Recent
<1>5. ASSUME NEW k \in 1..z PROVE Enough(k)' <=> Enough(k)
  <2>1. PICK R : R = Recent(k)
    OBVIOUS
  <2>2. Recent(k)' = R /\ \A m \in R : seen'[m] = seen[m]
    BY <1>2, <1>4, <2>1
  <2>3. {seen'[m].user : m \in R} = {seen[m].user : m \in R}
    BY <2>2
  <2> QED
    BY <2>1, <2>2, <2>3, Zenon DEF Enough
<1>6. ASSUME NEW k \in 1..z PROVE InWar(k)' <=> InWar(k)
  BY <1>1, <1>2, <1>3, <1>5 DEF InWar
<1>7. StartsWar(n)' <=> StartsWar(n)
  BY <1>2, <1>4, <1>6 DEF StartsWar
<1> QED
  BY <1>1, <1>6, <1>7

-----------------------------------------------------------------------------
(***************************************************************************)
(* observe, for a page's list of reverts.                                  *)
(***************************************************************************)
LEMMA MessageTime ==
    ASSUME NEW x \in Messages
    PROVE  x.time \in Nat
<1>1. PICK k \in Nat, e \in Edits, t \in Times, lag \in Lags : x = Message(k, e, t, lag)
  BY DEF Messages
<1>2. x.time = t
  BY <1>1 DEF Message
<1> QED
  BY <1>2, FeedAssumption

\* K is what is left of R from f on, where the window of `now` begins.
LeftFrom(f, R, now, K) ==
    /\ Len(K) = Len(R) - f + 1
    /\ \A i \in 1..Len(K) : K[i] = R[i + f - 1]
    /\ R[f].time >= now - WarWindowMs
    /\ \A i \in 1..(f - 1) : R[i].time < now - WarWindowMs

\* _evict drops from the left what is out of the window, and no more.
LEMMA EvictIs ==
    ASSUME NEW R \in Seq(Messages), Len(R) > 0, NEW now \in Nat, R[Len(R)].time = now,
           NEW K, K = Evict(R, now)
    PROVE  K \in Seq(Messages) /\ \E f \in 1..Len(R) : LeftFrom(f, R, now, K)
<1>1. Len(R) \in Nat /\ DOMAIN R = 1..Len(R)
  OBVIOUS
<1>2. \A i \in 1..Len(R) : R[i].time \in Nat
  BY MessageTime
<1>3. PICK stay \in SUBSET Nat : stay = {i \in DOMAIN R : R[i].time >= now - WarWindowMs} \union {Len(R) + 1}
  <2>1. {i \in DOMAIN R : R[i].time >= now - WarWindowMs} \union {Len(R) + 1} \in SUBSET Nat
    BY <1>1
  <2> QED
    BY <2>1
<1>4. \A i \in stay : i # Len(R) + 1 => i \in 1..Len(R) /\ R[i].time >= now - WarWindowMs
  BY <1>1, <1>3
<1>5. Len(R) \in stay
  <2>1. Len(R) \in DOMAIN R
    BY <1>1
  <2>2. now >= now - WarWindowMs
    BY DetectorAssumption
  <2> QED
    BY <1>3, <2>1, <2>2
<1>6. PICK f \in stay : \A i \in stay : f =< i
  BY <1>5, SmallestOf
<1>7. Min(stay) = f
  <2>1. Min(stay) \in stay /\ \A i \in stay : Min(stay) =< i
    BY <1>6 DEF Min
  <2>2. Min(stay) \in Nat /\ f \in Nat /\ Min(stay) =< f /\ f =< Min(stay)
    BY <1>6, <2>1
  <2> QED
    BY <2>2
<1>8. f \in 1..Len(R) /\ R[f].time >= now - WarWindowMs
  <2>1. f # Len(R) + 1
    BY <1>1, <1>5, <1>6
  <2> QED
    BY <1>4, <1>6, <2>1
<1>9. ASSUME NEW i \in 1..(f - 1) PROVE R[i].time < now - WarWindowMs
  <2>1. i \in 1..Len(R) /\ ~(f =< i)
    BY <1>1, <1>8
  <2>2. ~(R[i].time >= now - WarWindowMs)
    BY <1>1, <1>3, <1>6, <2>1
  <2> QED
    BY <1>2, <2>1, <2>2, DetectorAssumption
<1>10. K = SubSeq(R, f, Len(R))
  BY <1>3, <1>7 DEF Evict
<1>11. K \in Seq(Messages) /\ Len(K) = Len(R) - f + 1
  BY <1>1, <1>8, <1>10
<1>12. \A i \in 1..Len(K) : K[i] = R[i + f - 1]
  BY <1>1, <1>8, <1>10
<1> QED
  BY <1>8, <1>9, <1>11, <1>12 DEF LeftFrom

OneMore(L, x, R) == R = Append(L, x)

\* A list with one more revert is still a list.
LEMMA AppendedOK ==
    ASSUME SeenOK, NEW n \in 1..Len(seen), IsRevert(n), NEW q, q = seen[n].page,
           NEW L, ListOK(n - 1, q, L), NEW R, OneMore(L, seen[n], R)
    PROVE  /\ ListOK(n, q, R)
           /\ Len(R) = Len(L) + 1 /\ R[Len(R)] = seen[n] /\ \A i \in 1..Len(L) : R[i] = L[i]
<1>1. L \in Seq(Messages) /\ seen[n] \in Messages /\ seen[n].id = n /\ n \in Nat
  BY SeenFacts DEF ListOK
<1>2. R \in Seq(Messages) /\ Len(L) \in Nat /\ Len(R) = Len(L) + 1
  BY <1>1 DEF OneMore
<1>3. R[Len(R)] = seen[n] /\ \A i \in 1..Len(L) : R[i] = L[i]
  BY <1>1, <1>2 DEF OneMore
<1>4. \A i \in 1..Len(R) : i \in 1..Len(L) \/ i = Len(R)
  BY <1>2
<1>5. ASSUME NEW i \in 1..Len(R)
      PROVE  /\ R[i].id \in 1..n /\ R[i] = seen[R[i].id]
             /\ R[i].readable /\ Counts(R[i]) /\ R[i].page = q
  <2>1. CASE i \in 1..Len(L)
    <3>1. /\ L[i].id \in 1..(n - 1) /\ L[i] = seen[L[i].id]
          /\ L[i].readable /\ Counts(L[i]) /\ L[i].page = q
      BY <2>1 DEF ListOK
    <3>2. L[i].id \in 1..n
      BY <1>1, <3>1
    <3> QED
      BY <1>3, <2>1, <3>1, <3>2
  <2>2. CASE i = Len(R)
    BY <1>1, <1>3, <2>2 DEF IsRevert
  <2> QED
    BY <1>4, <2>1, <2>2
<1>6. ASSUME NEW i \in 1..Len(R), NEW j \in 1..Len(R), i < j
      PROVE  R[i].id < R[j].id
  <2>1. i \in 1..Len(L) /\ L[i].id \in 1..(n - 1)
    BY <1>2, <1>6 DEF ListOK
  <2>2. CASE j \in 1..Len(L)
    BY <1>3, <1>6, <2>1, <2>2 DEF ListOK
  <2>3. CASE j = Len(R)
    BY <1>1, <1>3, <2>1, <2>3
  <2> QED
    BY <1>4, <2>2, <2>3
<1> QED
  BY <1>2, <1>3, <1>5, <1>6, Zenon DEF ListOK

\* K is what observe makes of the list L at message n: it ends with n, begins inside
\* the window, and nothing that is inside the window is gone.
Updated(n, L, K) ==
    /\ Len(K) > 0 /\ K[Len(K)] = seen[n] /\ K[1].time >= seen[n].time - WarWindowMs
    /\ \A i \in 1..Len(L) : L[i].time >= seen[n].time - WarWindowMs =>
           \E j \in 1..Len(K) : K[j] = L[i]

\* observe keeps the list of the page.
LEMMA WithRevertIs ==
    ASSUME SeenOK, NEW n \in 1..Len(seen), IsRevert(n), NEW q, q = seen[n].page,
           NEW d, NEW L, L = PageOf(d, q).reverts, ListOK(n - 1, q, L), Near(L),
           NEW K, K = WithRevert(d, seen[n])
    PROVE  ListOK(n, q, K) /\ Near(K) /\ Updated(n, L, K)
<1>1. PICK R : R = Append(L, seen[n]) /\ OneMore(L, seen[n], R)
  BY DEF OneMore
<1>2. ListOK(n, q, R)
  BY <1>1, AppendedOK
<1>3. L \in Seq(Messages) /\ seen[n] \in Messages
  BY SeenFacts DEF ListOK
<1>4. Len(R) = Len(L) + 1 /\ R[Len(R)] = seen[n] /\ \A i \in 1..Len(L) : R[i] = L[i]
  BY <1>1, <1>3
<1>5. K = Evict(R, seen[n].time)
  BY <1>1 DEF WithRevert
<1>6. seen[n].time \in Nat /\ R \in Seq(Messages) /\ L \in Seq(Messages) /\ Len(L) \in Nat /\ Len(R) > 0
  BY <1>4, <1>2, <1>3, SeenFacts DEF ListOK
<1>7. K \in Seq(Messages)
  BY <1>4, <1>5, <1>6, EvictIs
<1>8. PICK f \in 1..Len(R) : LeftFrom(f, R, seen[n].time, K)
  BY <1>4, <1>5, <1>6, EvictIs
<1>9. /\ Len(K) = Len(R) - f + 1
      /\ \A i \in 1..Len(K) : K[i] = R[i + f - 1]
      /\ R[f].time >= seen[n].time - WarWindowMs
      /\ \A i \in 1..(f - 1) : R[i].time < seen[n].time - WarWindowMs
  BY <1>8 DEF LeftFrom
<1>10. Len(K) \in Nat /\ Len(K) > 0 /\ f \in Nat /\ Len(R) \in Nat
  BY <1>6, <1>7, <1>9
<1>11. \A i \in 1..Len(K) : i + f - 1 \in 1..Len(R) /\ i + f - 1 \in Nat
  BY <1>9, <1>10
<1>12. K[1] = R[f] /\ K[Len(K)] = R[Len(R)]
  <2>1. 1 \in 1..Len(K) /\ Len(K) \in 1..Len(K) /\ 1 + f - 1 = f /\ Len(K) + f - 1 = Len(R)
    BY <1>9, <1>10
  <2> QED
    BY <1>9, <2>1
<1>13. ListOK(n, q, K)
  <2>1. \A i \in 1..Len(K) : /\ K[i].id \in 1..n /\ K[i] = seen[K[i].id]
                             /\ K[i].readable /\ Counts(K[i]) /\ K[i].page = q
    <3>1. \A i \in 1..Len(R) : /\ R[i].id \in 1..n /\ R[i] = seen[R[i].id]
                               /\ R[i].readable /\ Counts(R[i]) /\ R[i].page = q
      BY <1>2 DEF ListOK
    <3> QED
      BY <1>9, <1>11, <3>1, ZenonT(60)
  <2>2. ASSUME NEW i \in 1..Len(K), NEW j \in 1..Len(K), i < j
        PROVE  K[i].id < K[j].id
    <3>1. i + f - 1 < j + f - 1
      BY <1>10, <2>2
    <3>2. R[i + f - 1].id < R[j + f - 1].id
      BY <1>2, <1>11, <3>1 DEF ListOK
    <3> QED
      BY <1>9, <3>2
  <2> QED
    BY <1>7, <2>1, <2>2, Zenon DEF ListOK
<1>14. \A i \in 1..Len(K) : K[i].time \in Nat
  BY <1>7, MessageTime
<1>15. LateMs \in Nat /\ \A a, b \in 1..Len(seen) : a =< b => seen[a].time - seen[b].time =< LateMs
  BY LateFacts
<1>16. Near(K)
  <2>1. ASSUME NEW i \in 1..Len(K)
        PROVE  seen[n].time - K[i].time =< WarWindowMs + LateMs
    <3>1. PICK a \in 1..Len(seen), b \in 1..Len(seen) : a =< b /\ K[1] = seen[a] /\ K[i] = seen[b]
      <4>1. K[1].id \in 1..n /\ K[i].id \in 1..n /\ K[1] = seen[K[1].id] /\ K[i] = seen[K[i].id]
        BY <1>10, <1>13 DEF ListOK
      <4>2. 1 \in 1..Len(K) /\ (i = 1 \/ 1 < i)
        BY <1>10
      <4>3. K[1].id =< K[i].id
        BY <1>13, <4>1, <4>2 DEF ListOK
      <4>4. K[1].id \in 1..Len(seen) /\ K[i].id \in 1..Len(seen)
        BY <4>1 DEF SeenOK
      <4> QED
        BY <4>1, <4>3, <4>4
    <3>2. K[1].time - K[i].time =< LateMs
      BY <1>15, <3>1
    <3>3. K[1].time >= seen[n].time - WarWindowMs
      BY <1>9, <1>12
    <3>4. K[1].time \in Nat /\ K[i].time \in Nat
      BY <1>10, <1>14, SMTT(40)
    <3>5. PICK x \in Nat, y \in Nat, z \in Nat, late \in Nat :
            x = K[1].time /\ y = K[i].time /\ z = seen[n].time /\ late = LateMs
      BY <1>6, <1>15, <3>4
    <3>6. x - y =< late /\ x >= z - WarWindowMs
      BY <3>2, <3>3, <3>5
    <3>7. z - y =< WarWindowMs + late
      BY <3>6, DetectorAssumption
    <3> QED
      BY <3>5, <3>7
  <2>2. ASSUME NEW i \in 1..Len(K), NEW j \in 1..Len(K), i =< j
        PROVE  K[j].time - K[i].time =< WarWindowMs + LateMs
    <3>1. CASE j = Len(K)
      BY <1>4, <1>12, <2>1, <3>1
    <3>2. CASE j # Len(K)
      <4>1. i \in Nat /\ j \in Nat /\ Len(K) = Len(R) - f + 1 /\ Len(R) = Len(L) + 1
        BY <1>4, <1>9, <1>10
      <4>2. i >= 1 /\ i =< j /\ j < Len(K)
        BY <1>10, <2>2, <3>2, <4>1
      <4>3. PICK a \in Nat, b \in Nat : a = i + f - 1 /\ b = j + f - 1
        BY <1>10, <4>1, <4>2
      <4>4. a \in 1..Len(L) /\ b \in 1..Len(L) /\ a =< b
        BY <1>6, <1>10, <4>1, <4>2, <4>3, SMTT(40)
      <4>5. L[b].time - L[a].time =< WarWindowMs + LateMs
        BY <4>4 DEF Near
      <4>6. K[i] = L[a] /\ K[j] = L[b]
        BY <1>4, <1>9, <4>3, <4>4
      <4> QED
        BY <4>5, <4>6
    <3> QED
      BY <3>1, <3>2
  <2> QED
    BY <2>2 DEF Near
<1>17. ASSUME NEW i \in 1..Len(L), L[i].time >= seen[n].time - WarWindowMs
       PROVE  \E j \in 1..Len(K) : K[j] = L[i]
  <2>1. i \in 1..Len(R) /\ R[i] = L[i]
    BY <1>4, <1>6
  <2>2. R[i].time \in Nat
    BY <1>6, <2>1, MessageTime
  <2>3. i \in Nat /\ Len(K) = Len(R) - f + 1
    BY <1>6, <1>9
  <2>4. ~(i \in 1..(f - 1))
    <3>1. ASSUME i \in 1..(f - 1) PROVE FALSE
      <4>1. R[i].time < seen[n].time - WarWindowMs
        BY <1>9, <3>1
      <4>2. R[i].time >= seen[n].time - WarWindowMs
        BY <1>17, <2>1
      <4> QED
        BY <1>6, <2>2, <4>1, <4>2, DetectorAssumption, SMTT(40)
    <3> QED
      BY <3>1
  <2>5. i >= f
    BY <1>10, <2>1, <2>3, <2>4
  <2>6. PICK j \in Nat : j = i - f + 1 /\ j \in 1..Len(K) /\ j + f - 1 = i
    BY <1>10, <2>1, <2>3, <2>5
  <2> QED
    BY <1>9, <2>1, <2>6
<1> QED
  BY <1>4, <1>9, <1>10, <1>12, <1>13, <1>16, <1>17 DEF Updated

\* What handle and _replay_into change, page by page.
LEMMA AbsorbIs ==
    ASSUME NEW d, NEW e, NEW g, g = WarAbsorb(d, e)
    PROVE  /\ e.readable /\ Counts(e) =>
                /\ PageOf(g, e.page).reverts = WithRevert(d, e)
                /\ PageOf(g, e.page).until = IF Extends(d, e) \/ Raises(d, e)
                                             THEN e.time + WarWindowMs ELSE PageOf(d, e.page).until
           /\ g.watermark = IF e.readable THEN Max({d.watermark, e.time}) ELSE d.watermark
<1>1. CASE ~e.readable
  <2>1. g = d
    BY <1>1 DEF WarAbsorb
  <2> QED
    BY <1>1, <2>1
<1>2. CASE e.readable /\ ~Counts(e)
  <2>1. g.pages = d.pages /\ g.watermark = Max({d.watermark, e.time})
    BY <1>2 DEF WarAbsorb, Observe
  <2> QED
    BY <1>2, <2>1
<1>3. CASE e.readable /\ Counts(e)
  <2>1. PICK page : page = [reverts |-> WithRevert(d, e),
                            until |-> IF Extends(d, e) \/ Raises(d, e)
                                      THEN e.time + WarWindowMs ELSE PageOf(d, e.page).until]
    OBVIOUS
  <2>2. /\ g.watermark = Max({d.watermark, e.time})
        /\ g.pages = [k \in DOMAIN d.pages \union {e.page} |->
                           IF k = e.page THEN page ELSE d.pages[k]]
    BY <1>3, <2>1 DEF WarAbsorb, Observe
  <2>3. PageOf(g, e.page) = page
    BY <2>2 DEF PageOf
  <2> QED
    BY <1>3, <2>1, <2>2, <2>3
<1> QED
  BY <1>1, <1>2, <1>3

\* Other pages keep their state, and every page at a message that does not count.
LEMMA OtherPages ==
    ASSUME NEW d, NEW e, NEW q, ~(e.readable /\ Counts(e) /\ q = e.page)
    PROVE  PageOf(WarAbsorb(d, e), q) = PageOf(d, q)
<1>1. CASE ~e.readable
  BY <1>1 DEF WarAbsorb
<1>2. CASE e.readable /\ ~Counts(e)
  <2>1. WarAbsorb(d, e).pages = d.pages
    BY <1>2 DEF WarAbsorb, Observe
  <2> QED
    BY <2>1 DEF PageOf
<1>3. CASE e.readable /\ Counts(e)
  <2>1. PICK page : page = [reverts |-> WithRevert(d, e),
                            until |-> IF Extends(d, e) \/ Raises(d, e)
                                      THEN e.time + WarWindowMs ELSE PageOf(d, e.page).until]
    OBVIOUS
  <2>2. WarAbsorb(d, e).pages = [k \in DOMAIN d.pages \union {e.page} |->
                                     IF k = e.page THEN page ELSE d.pages[k]]
    BY <1>3, <2>1 DEF WarAbsorb, Observe
  <2> QED
    BY <1>3, <2>2 DEF PageOf
<1> QED
  BY <1>1, <1>2, <1>3

\* A list of some reverts is one of reverts up to later ones.
LEMMA ListLater ==
    ASSUME NEW m \in Nat, NEW n \in Nat, m =< n, NEW q, NEW L, ListOK(m, q, L)
    PROVE  ListOK(n, q, L)
<1>1. \A i \in 1..m : i \in 1..n
  OBVIOUS
<1> QED
  BY <1>1 DEF ListOK

\* observe keeps the lists and the watermark in order.
LEMMA AbsorbLists ==
    ASSUME SeenOK, NEW n \in 1..Len(seen), NEW d, Lists(n - 1, d), MarkOK(n - 1, d),
           NEW g, g = WarAbsorb(d, seen[n])
    PROVE  Lists(n, g) /\ MarkOK(n, g)
<1>1. n \in Nat /\ n - 1 \in Nat /\ n - 1 =< n /\ seen[n].time \in Nat
  BY SeenFacts
<1>2. PICK e : e = seen[n]
  OBVIOUS
<1>3. ASSUME NEW q \in Pages
      PROVE  ListOK(n, q, PageOf(g, q).reverts) /\ Near(PageOf(g, q).reverts)
  <2>1. PICK L : L = PageOf(d, q).reverts
    OBVIOUS
  <2>2. ListOK(n - 1, q, L) /\ Near(L)
    BY <2>1 DEF Lists
  <2>3. CASE e.readable /\ Counts(e) /\ q = e.page
    <3>1. PICK K : K = WithRevert(d, seen[n])
      OBVIOUS
    <3>2. PageOf(g, q).reverts = K
      BY <1>2, <2>3, <3>1, AbsorbIs
    <3>3. IsRevert(n) /\ q = seen[n].page
      BY <1>2, <2>3 DEF IsRevert
    <3>4. ListOK(n, q, K) /\ Near(K)
      BY <2>1, <2>2, <3>1, <3>3, WithRevertIs
    <3> QED
      BY <3>2, <3>4
  <2>4. CASE ~(e.readable /\ Counts(e) /\ q = e.page)
    <3>1. PageOf(g, q) = PageOf(d, q)
      BY <1>2, <2>4, OtherPages, Zenon
    <3>2. ListOK(n, q, L)
      BY <1>1, <2>2, ListLater
    <3> QED
      BY <2>1, <2>2, <3>1, <3>2
  <2> QED
    BY <2>3, <2>4
<1>4. PICK w \in Nat : w = d.watermark /\ (w = 0 \/ \E m \in 1..(n - 1) : w = seen[m].time)
  BY DEF MarkOK
<1>5. g.watermark = w \/ g.watermark = seen[n].time
  <2>1. g.watermark = w \/ g.watermark = Max({w, seen[n].time})
    BY <1>4, AbsorbIs
  <2>2. Max({w, seen[n].time}) \in {w, seen[n].time}
    <3>1. {w, seen[n].time} \in SUBSET Int
      BY <1>1
    <3>2. CASE w >= seen[n].time
      <4>1. \A k \in {w, seen[n].time} : k =< w
        BY <1>1, <3>2
      <4> QED
        BY <3>1, <4>1, MaxIs
    <3>3. CASE w < seen[n].time
      <4>1. \A k \in {w, seen[n].time} : k =< seen[n].time
        BY <1>1, <3>3
      <4> QED
        BY <3>1, <4>1, MaxIs
    <3> QED
      BY <1>1, <3>2, <3>3
  <2> QED
    BY <2>1, <2>2
<1>6. MarkOK(n, g)
  <2>1. \A m \in 1..(n - 1) : m \in 1..n
    BY <1>1
  <2>2. n \in 1..n
    BY <1>1
  <2>3. g = [watermark |-> g.watermark, pages |-> g.pages]
    <3>1. CASE ~seen[n].readable
      BY <3>1 DEF MarkOK, WarAbsorb
    <3>2. CASE seen[n].readable
      BY <3>2 DEF WarAbsorb, Observe
    <3> QED
      BY <3>1, <3>2
  <2> QED
    BY <1>1, <1>4, <1>5, <2>1, <2>2, <2>3 DEF MarkOK
<1> QED
  BY <1>3, <1>6 DEF Lists

\* In order, what a page's list holds is recent, so a raised alert is right by the
\* rule; and so is what follows it.
LEMMA RaisedIsWar ==
    ASSUME SeenOK, InOrder, NEW n \in 1..Len(seen), NEW d, Lists(n - 1, d),
           IsRevert(n), Raises(d, seen[n])
    PROVE  InWar(n)
<1>1. PICK K : K = WithRevert(d, seen[n])
  OBVIOUS
<1>2. PICK q \in Pages : q = seen[n].page
  BY SeenFacts
<1>3. PICK L : L = PageOf(d, q).reverts /\ ListOK(n - 1, q, L) /\ Near(L)
  BY DEF Lists
<1>4. ListOK(n, q, K) /\ Len(K) > 0 /\ K[1].time >= seen[n].time - WarWindowMs
  <2>1. ListOK(n, q, K) /\ Updated(n, L, K)
    BY <1>1, <1>2, <1>3, WithRevertIs
  <2> QED
    BY <2>1 DEF Updated
<1>5. K \in Seq(Messages) /\ Len(K) \in Nat /\ 1 \in 1..Len(K) /\ DOMAIN K = 1..Len(K)
  BY <1>4 DEF ListOK
<1>6. ASSUME NEW i \in 1..Len(K) PROVE K[i].id \in Recent(n) /\ K[i].user = seen[K[i].id].user
  <2>1. /\ K[i].id \in 1..n /\ K[i] = seen[K[i].id] /\ K[i].readable /\ Counts(K[i]) /\ K[i].page = q
        /\ K[1].id \in 1..n /\ K[1] = seen[K[1].id]
    BY <1>4, <1>5 DEF ListOK
  <2>2. K[i].id \in 1..Len(seen) /\ K[1].id \in 1..Len(seen)
    BY <2>1 DEF SeenOK
  <2>3. K[1].id =< K[i].id
    <3>1. i = 1 \/ 1 < i
      BY <1>5
    <3> QED
      BY <1>4, <1>5, <2>1, <3>1 DEF ListOK
  <2>4. K[1].time =< K[i].time
    BY <2>1, <2>2, <2>3 DEF InOrder
  <2>5. K[1].time \in Nat /\ K[i].time \in Nat /\ seen[n].time \in Nat
    BY <1>5, MessageTime, SeenFacts
  <2>6. seen[n].time - K[i].time =< WarWindowMs
    BY <1>4, <2>4, <2>5, DetectorAssumption, SMTT(40)
  <2>7. K[i].id \in Reverts(n)
    BY <1>2, <2>1, InReverts DEF IsRevert
  <2> QED
    BY <2>1, <2>6, <2>7, InReverts
<1>7. PICK R : R = Recent(n)
  OBVIOUS
<1>8. IsFiniteSet(R) /\ Cardinality(R) \in Nat
  <2>1. R \in SUBSET (1..n)
    BY <1>7 DEF Recent, Reverts
  <2>2. IsFiniteSet(1..n)
    BY FS_Interval
  <2> QED
    BY <2>1, <2>2, FS_Subset, FS_CardinalityType
<1>9. Len(K) =< Cardinality(R)
  <2>1. PICK f : f = [i \in 1..Len(K) |-> K[i].id]
    OBVIOUS
  <2>2. f \in [1..Len(K) -> R]
    BY <1>6, <1>7, <2>1
  <2>3. ASSUME NEW i \in 1..Len(K), NEW j \in 1..Len(K), f[i] = f[j] PROVE i = j
    <3>1. K[i].id = K[j].id /\ K[i].id \in Nat /\ K[j].id \in Nat
      BY <1>4, <2>1, <2>3 DEF ListOK
    <3>2. ~(i < j) /\ ~(j < i)
      BY <1>4, <3>1 DEF ListOK
    <3> QED
      BY <1>5, <3>2
  <2>4. f \in Injection(1..Len(K), R)
    BY <2>2, <2>3 DEF Injection, IsInjective
  <2>5. Cardinality(1..Len(K)) =< Cardinality(R)
    BY <1>8, <2>4, FS_Injection
  <2>6. Cardinality(1..Len(K)) = Len(K)
    BY <1>5, UpTo
  <2> QED
    BY <2>5, <2>6
<1>10. PICK U, V : U = {r.user : r \in Range(K)} /\ V = {seen[m].user : m \in R}
  OBVIOUS
<1>11. U \in SUBSET V
  BY <1>5, <1>6, <1>7, <1>10 DEF Range
<1>12. IsFiniteSet(V) /\ Cardinality(V) \in Nat
  <2>1. PICK h : h = [m \in R |-> seen[m].user]
    OBVIOUS
  <2>2. h \in [R -> V] /\ \A v \in V : \E m \in R : h[m] = v
    BY <1>10, <2>1
  <2>3. h \in Surjection(R, V)
    BY <2>2 DEF Surjection
  <2> QED
    BY <1>8, <2>3, FS_Surjection, FS_CardinalityType
<1>13. Cardinality(U) \in Nat /\ Cardinality(U) =< Cardinality(V)
  BY <1>11, <1>12, FS_Subset, FS_CardinalityType
<1>14. Len(K) >= MinReverts /\ Cardinality(U) >= MinUsers
  BY <1>1, <1>10 DEF Raises
<1>15. Cardinality(R) >= MinReverts /\ Cardinality(V) >= MinUsers
  BY <1>5, <1>8, <1>9, <1>12, <1>13, <1>14, DetectorAssumption
<1>16. Enough(n)
  BY <1>7, <1>10, <1>15, Zenon DEF Enough
<1> QED
  BY <1>16, WarStarts

\* When nothing in the window is missing from the list, enough reverts raise an alert.
LEMMA EnoughRaises ==
    ASSUME SeenOK, NEW n \in 1..Len(seen), NEW d, Lists(n - 1, d),
           Complete(n - 1, d, {}, seen[n].time),
           IsRevert(n), Enough(n), ~Extends(d, seen[n])
    PROVE  Raises(d, seen[n])
<1>1. PICK K : K = WithRevert(d, seen[n])
  OBVIOUS
<1>2. PICK q \in Pages : q = seen[n].page
  BY SeenFacts
<1>3. PICK L : L = PageOf(d, q).reverts /\ ListOK(n - 1, q, L) /\ Near(L)
  BY DEF Lists
<1>4. ListOK(n, q, K) /\ Updated(n, L, K)
  BY <1>1, <1>2, <1>3, WithRevertIs
<1>5. /\ Len(K) > 0 /\ K[Len(K)] = seen[n]
      /\ \A i \in 1..Len(L) : L[i].time >= seen[n].time - WarWindowMs =>
             \E j \in 1..Len(K) : K[j] = L[i]
  BY <1>4 DEF Updated
<1>6. K \in Seq(Messages) /\ Len(K) \in Nat /\ Len(K) \in 1..Len(K) /\ DOMAIN K = 1..Len(K)
  BY <1>4, <1>5 DEF ListOK
<1>7. ASSUME NEW m \in Recent(n)
      PROVE  \E j \in 1..Len(K) : K[j] = seen[m] /\ K[j].id = m
  <2>1. m \in 1..n /\ IsRevert(m) /\ seen[m].page = q /\ seen[n].time - seen[m].time =< WarWindowMs
    BY <1>2, InReverts
  <2>2. m \in 1..Len(seen)
    BY <2>1 DEF SeenOK
  <2>3. seen[m].time \in Nat /\ seen[n].time \in Nat /\ seen[m].id = m
    BY <2>2, SeenFacts
  <2>4. seen[m].time >= seen[n].time - WarWindowMs
    BY <2>1, <2>3, DetectorAssumption
  <2>5. CASE m = n
    BY <1>5, <1>6, <2>3, <2>5
  <2>6. CASE m # n
    <3>1. m \in 1..(n - 1)
      BY <2>1, <2>6
    <3>2. PICK i \in 1..Len(L) : L[i].id = m
      BY <1>3, <2>1, <2>4, <3>1 DEF Complete
    <3>3. L[i] = seen[m]
      BY <1>3, <3>2 DEF ListOK
    <3>4. PICK j \in 1..Len(K) : K[j] = L[i]
      BY <1>5, <2>4, <3>3
    <3> QED
      BY <2>3, <3>3, <3>4
  <2> QED
    BY <2>5, <2>6
<1>8. PICK R, T, U, V : /\ R = Recent(n) /\ T = {K[j].id : j \in 1..Len(K)}
                        /\ U = {r.user : r \in Range(K)} /\ V = {seen[m].user : m \in R}
  OBVIOUS
<1>9. R \in SUBSET T /\ V \in SUBSET U
  <2>1. R \in SUBSET T
    BY <1>7, <1>8
  <2>2. V \in SUBSET U
    BY <1>6, <1>7, <1>8 DEF Range
  <2> QED
    BY <2>1, <2>2
<1>10. IsFiniteSet(1..Len(K)) /\ Cardinality(1..Len(K)) = Len(K)
  BY <1>6, UpTo
<1>11. IsFiniteSet(T) /\ Cardinality(T) =< Len(K)
  <2>1. PICK f : f = [j \in 1..Len(K) |-> K[j].id]
    OBVIOUS
  <2>2. f \in [1..Len(K) -> T] /\ \A t \in T : \E j \in 1..Len(K) : f[j] = t
    BY <1>8, <2>1
  <2>3. f \in Surjection(1..Len(K), T)
    BY <2>2 DEF Surjection
  <2> QED
    BY <1>10, <2>3, FS_Surjection
<1>12. IsFiniteSet(U)
  <2>1. PICK f : f = [j \in 1..Len(K) |-> K[j].user]
    OBVIOUS
  <2>2. f \in [1..Len(K) -> U] /\ \A t \in U : \E j \in 1..Len(K) : f[j] = t
    BY <1>6, <1>8, <2>1 DEF Range
  <2>3. f \in Surjection(1..Len(K), U)
    BY <2>2 DEF Surjection
  <2> QED
    BY <1>10, <2>3, FS_Surjection
<1>13. Cardinality(R) =< Cardinality(T) /\ Cardinality(V) =< Cardinality(U)
  BY <1>9, <1>11, <1>12, FS_Subset
<1>14. Cardinality(R) \in Nat /\ Cardinality(T) \in Nat /\ Cardinality(U) \in Nat /\ Cardinality(V) \in Nat
  BY <1>9, <1>11, <1>12, FS_Subset, FS_CardinalityType
<1>15. Cardinality(R) >= MinReverts /\ Cardinality(V) >= MinUsers
  BY <1>8, Zenon DEF Enough
<1>16. Len(K) >= MinReverts /\ Cardinality(U) >= MinUsers
  BY <1>6, <1>11, <1>13, <1>14, <1>15, DetectorAssumption
<1>17. Counts(seen[n])
  BY DEF IsRevert
<1> QED
  BY <1>1, <1>8, <1>16, <1>17, Zenon DEF Raises

\* A revert that extends a war is in it.
LEMMA ExtendsIsWar ==
    ASSUME SeenOK, NEW n \in 1..Len(seen), NEW d, UntilOK(n - 1, d),
           IsRevert(n), Extends(d, seen[n])
    PROVE  \E m \in Recent(n) : m # n /\ InWar(m)
<1>1. PICK q \in Pages : q = seen[n].page
  BY SeenFacts
<1>2. seen[n].time \in Nat /\ seen[n].time =< PageOf(d, q).until /\ Len(seen) \in Nat
  <2>1. seen[n].time \in Nat
    BY SeenFacts
  <2>2. seen[n].time =< PageOf(d, q).until
    BY <1>1, Zenon DEF Extends
  <2>3. Len(seen) \in Nat
    BY DEF SeenOK
  <2> QED
    BY <2>1, <2>2, <2>3
<1>3. PageOf(d, q).until # -1
  BY <1>2
<1>4. PICK m \in 1..(n - 1) : /\ seen[m].page = q /\ InWar(m)
                              /\ PageOf(d, q).until = seen[m].time + WarWindowMs
  BY <1>3 DEF UntilOK
<1>5. m \in 1..Len(seen) /\ m \in 1..n /\ m # n
  BY <1>2
<1>6. seen[m].time \in Nat
  BY <1>5, SeenFacts
<1>7. seen[n].time - seen[m].time =< WarWindowMs
  BY <1>2, <1>4, <1>6, DetectorAssumption
<1>8. IsRevert(m)
  BY <1>4 DEF InWar
<1>9. m \in Recent(n)
  BY <1>1, <1>4, <1>5, <1>7, <1>8, InReverts
<1> QED
  BY <1>4, <1>5, <1>9

\* The watermark is no later than a message that comes in order.
LEMMA MarkInOrder ==
    ASSUME SeenOK, InOrder, NEW n \in 1..Len(seen), NEW d, MarkOK(n - 1, d)
    PROVE  d.watermark \in Nat /\ d.watermark =< seen[n].time
<1>1. seen[n].time \in Nat /\ Len(seen) \in Nat
  <2>1. seen[n].time \in Nat
    BY SeenFacts
  <2>2. Len(seen) \in Nat
    BY DEF SeenOK
  <2> QED
    BY <2>1, <2>2
<1>2. ASSUME NEW m \in 1..(n - 1) PROVE seen[m].time =< seen[n].time
  <2>1. m \in 1..Len(seen) /\ m =< n
    BY <1>1
  <2> QED
    BY <2>1 DEF InOrder
<1> QED
  BY <1>1, <1>2 DEF MarkOK

\* The end of a page's war is a number.
LEMMA UntilIsInt ==
    ASSUME SeenOK, NEW z \in Nat, z =< Len(seen), NEW d, UntilOK(z, d), NEW q \in Pages
    PROVE  PageOf(d, q).until \in Int
<1>1. CASE PageOf(d, q).until = -1
  BY <1>1
<1>2. CASE PageOf(d, q).until # -1
  <2>1. PICK m \in 1..z : PageOf(d, q).until = seen[m].time + WarWindowMs
    BY <1>2 DEF UntilOK
  <2>2. Len(seen) \in Nat
    BY DEF SeenOK
  <2>3. m \in 1..Len(seen)
    BY <2>2
  <2>4. seen[m].time \in Nat
    BY <2>3, SeenFacts
  <2> QED
    BY <2>1, <2>4, DetectorAssumption
<1> QED
  BY <1>1, <1>2

\* A revert within a window of one in a war extends that war, if it is known.
LEMMA KnownExtends ==
    ASSUME SeenOK, InOrder, NEW n \in 1..Len(seen), NEW d,
           MarkOK(n - 1, d), UntilOK(n - 1, d), Known(n - 1, d),
           NEW m \in Recent(n), m # n, InWar(m)
    PROVE  Extends(d, seen[n])
<1>1. m \in 1..n /\ seen[m].page = seen[n].page /\ seen[n].time - seen[m].time =< WarWindowMs
  BY InReverts
<1>2. m \in 1..(n - 1) /\ m \in 1..Len(seen)
  BY <1>1 DEF SeenOK
<1>3. seen[m].time \in Nat /\ seen[n].time \in Nat
  BY <1>2, SeenFacts
<1>4. d.watermark \in Nat /\ d.watermark =< seen[n].time
  BY MarkInOrder
<1>5. ~(seen[m].time + WarWindowMs < d.watermark)
  BY <1>1, <1>3, <1>4, DetectorAssumption
<1>6. seen[m].time + WarWindowMs =< PageOf(d, seen[n].page).until
  BY <1>1, <1>2, <1>5 DEF Known
<1>7. seen[m].time + WarWindowMs \in Nat /\ seen[n].time =< seen[m].time + WarWindowMs
  BY <1>1, <1>3, DetectorAssumption, SMTT(40)
<1>8. PageOf(d, seen[n].page).until \in Int
  <2>1. seen[n].page \in Pages
    BY SeenFacts
  <2>2. n - 1 \in Nat /\ n - 1 =< Len(seen)
    BY DEF SeenOK
  <2> QED
    BY <2>1, <2>2, UntilIsInt
<1> QED
  BY <1>3, <1>6, <1>7, <1>8 DEF Extends

\* In order, a page only enters or goes on with a war that is one by the rule.
LEMMA AbsorbUntil ==
    ASSUME SeenOK, InOrder, NEW n \in 1..Len(seen), NEW d, Lists(n - 1, d), UntilOK(n - 1, d),
           NEW g, g = WarAbsorb(d, seen[n])
    PROVE  UntilOK(n, g)
<1>1. n \in Nat /\ n \in 1..n /\ \A m \in 1..(n - 1) : m \in 1..n
  BY DEF SeenOK
<1>2. ASSUME NEW q \in Pages
      PROVE  \/ PageOf(g, q).until = -1
             \/ \E m \in 1..n : /\ seen[m].page = q /\ InWar(m)
                                /\ PageOf(g, q).until = seen[m].time + WarWindowMs
  <2>1. CASE PageOf(g, q).until = PageOf(d, q).until
    BY <1>1, <2>1 DEF UntilOK
  <2>2. CASE /\ IsRevert(n) /\ q = seen[n].page /\ (Extends(d, seen[n]) \/ Raises(d, seen[n]))
             /\ PageOf(g, q).until = seen[n].time + WarWindowMs
    <3>1. CASE Extends(d, seen[n])
      <4>1. PICK m \in Recent(n) : m # n /\ InWar(m)
        BY <2>2, <3>1, ExtendsIsWar
      <4>2. InWar(n)
        BY <2>2, <4>1, WarGoesOn
      <4> QED
        BY <1>1, <2>2, <4>2
    <3>2. CASE Raises(d, seen[n])
      <4>1. InWar(n)
        BY <2>2, <3>2, RaisedIsWar
      <4> QED
        BY <1>1, <2>2, <4>1
    <3> QED
      BY <2>2, <3>1, <3>2
  <2>3. CASE IsRevert(n) /\ q = seen[n].page
    <3>1. seen[n].readable /\ Counts(seen[n])
      BY <2>3 DEF IsRevert
    <3>2. PageOf(g, seen[n].page).until = IF Extends(d, seen[n]) \/ Raises(d, seen[n])
                                          THEN seen[n].time + WarWindowMs
                                          ELSE PageOf(d, seen[n].page).until
      BY <3>1, AbsorbIs, ZenonT(60)
    <3> QED
      BY <2>1, <2>2, <2>3, <3>2
  <2>4. CASE ~(IsRevert(n) /\ q = seen[n].page)
    <3>1. PageOf(g, q) = PageOf(d, q)
      BY <2>4, OtherPages, Zenon DEF IsRevert
    <3> QED
      BY <2>1, <3>1
  <2> QED
    BY <2>3, <2>4
<1> QED
  BY <1>2 DEF UntilOK

\* observe drops no revert that is still in the window.
LEMMA AbsorbComplete ==
    ASSUME SeenOK, NEW n \in 1..Len(seen), NEW d, Lists(n - 1, d),
           NEW out, NEW end \in Nat, seen[n].time =< end, Complete(n - 1, d, out, end),
           NEW g, g = WarAbsorb(d, seen[n])
    PROVE  Complete(n, g, out, end)
<1>1. Len(seen) \in Nat /\ n \in Nat
  BY DEF SeenOK
<1>2. ASSUME NEW m \in 1..n, IsRevert(m), seen[m].time >= end - WarWindowMs
      PROVE  m \in out \/ \E i \in 1..Len(PageOf(g, seen[m].page).reverts) :
                              PageOf(g, seen[m].page).reverts[i].id = m
  <2>1. PICK q \in Pages : q = seen[m].page
    <3>1. m \in 1..Len(seen)
      BY <1>1
    <3> QED
      BY <3>1, SeenFacts
  <2>2. PICK L : L = PageOf(d, q).reverts /\ ListOK(n - 1, q, L) /\ Near(L)
    BY DEF Lists
  <2>3. m = n \/ m \in out \/ \E i \in 1..Len(L) : L[i].id = m
    <3>1. m = n \/ m \in 1..(n - 1)
      BY <1>1
    <3> QED
      BY <1>2, <2>1, <2>2, <3>1 DEF Complete
  <2>4. CASE IsRevert(n) /\ q = seen[n].page
    <3>1. PICK K : K = WithRevert(d, seen[n])
      OBVIOUS
    <3>2. PageOf(g, q).reverts = K
      BY <2>4, <3>1, AbsorbIs DEF IsRevert
    <3>3. ListOK(n, q, K) /\ Updated(n, L, K)
      BY <2>2, <2>4, <3>1, WithRevertIs
    <3>4. Len(K) > 0 /\ K[Len(K)] = seen[n]
      BY <3>3 DEF Updated
    <3>5. CASE m = n
      <4>1. Len(K) \in Nat
        BY <3>3 DEF ListOK
      <4>2. Len(K) \in 1..Len(K)
        BY <3>4, <4>1
      <4>3. K[Len(K)].id = m
        BY <3>4, <3>5, SeenFacts
      <4> QED
        BY <2>1, <3>2, <4>2, <4>3
    <3>6. CASE m # n /\ m \notin out
      <4>1. PICK i \in 1..Len(L) : L[i].id = m
        BY <2>3, <3>6
      <4>2. L[i] = seen[m]
        BY <2>2, <4>1 DEF ListOK
      <4>3. seen[m].time \in Nat /\ seen[n].time \in Nat /\ m \in 1..Len(seen)
        BY <1>1, SeenFacts
      <4>4. L[i].time >= seen[n].time - WarWindowMs
        <5>1. PICK x \in Nat, y \in Nat : x = seen[m].time /\ y = seen[n].time
          BY <4>3
        <5>2. x >= end - WarWindowMs /\ y =< end
          BY <1>2, <5>1
        <5>3. x >= y - WarWindowMs
          BY <5>2, DetectorAssumption
        <5> QED
          BY <4>2, <5>1, <5>3
      <4>5. PICK j \in 1..Len(K) : K[j] = L[i]
        BY <3>3, <4>4 DEF Updated
      <4> QED
        BY <2>1, <3>2, <4>1, <4>5
    <3> QED
      BY <3>5, <3>6
  <2>5. CASE ~(IsRevert(n) /\ q = seen[n].page)
    <3>1. PageOf(g, q) = PageOf(d, q)
      BY <2>5, OtherPages, Zenon DEF IsRevert
    <3>2. m # n
      BY <1>2, <2>1, <2>5
    <3> QED
      BY <2>1, <2>2, <2>3, <3>1, <3>2
  <2> QED
    BY <2>4, <2>5
<1> QED
  BY <1>2 DEF Complete

\* The watermark never goes back.
LEMMA MarkGrows ==
    ASSUME NEW d, d.watermark \in Nat, NEW e, e.time \in Nat, NEW g, g = WarAbsorb(d, e)
    PROVE  g.watermark \in Nat /\ d.watermark =< g.watermark
<1>1. PICK w \in Nat, t \in Nat : w = d.watermark /\ t = e.time
  OBVIOUS
<1>2. g.watermark = w \/ g.watermark = Max({w, t})
  BY <1>1, AbsorbIs
<1>3. Max({w, t}) \in Nat /\ w =< Max({w, t})
  <2>1. {w, t} \in SUBSET Int
    OBVIOUS
  <2>2. CASE w >= t
    <3>1. Max({w, t}) = w
      BY <2>1, <2>2, MaxIs
    <3> QED
      BY <3>1
  <2>3. CASE w < t
    <3>1. Max({w, t}) = t
      BY <2>1, <2>3, MaxIs
    <3> QED
      BY <2>3, <3>1
  <2> QED
    BY <2>2, <2>3
<1> QED
  BY <1>1, <1>2, <1>3

\* In order, a detector that knows of every war also knows of the next.
LEMMA AbsorbKnown ==
    ASSUME SeenOK, InOrder, NEW n \in 1..Len(seen), NEW d, Lists(n - 1, d), MarkOK(n - 1, d),
           UntilOK(n - 1, d), Complete(n - 1, d, {}, seen[n].time), Known(n - 1, d),
           NEW g, g = WarAbsorb(d, seen[n])
    PROVE  Known(n, g)
<1>1. Len(seen) \in Nat /\ n \in Nat
  BY DEF SeenOK
<1>2. seen[n].time \in Nat /\ seen[n].page \in Pages
  BY SeenFacts
<1>3. d.watermark \in Nat /\ g.watermark \in Nat /\ d.watermark =< g.watermark
  <2>1. d.watermark \in Nat
    BY DEF MarkOK
  <2> QED
    BY <1>2, <2>1, MarkGrows
<1>4. IsRevert(n) => PageOf(g, seen[n].page).until =
                         IF Extends(d, seen[n]) \/ Raises(d, seen[n])
                         THEN seen[n].time + WarWindowMs ELSE PageOf(d, seen[n].page).until
  BY AbsorbIs, ZenonT(60) DEF IsRevert
<1>5. ASSUME NEW m \in 1..n, InWar(m)
      PROVE  \/ seen[m].time + WarWindowMs =< PageOf(g, seen[m].page).until
             \/ seen[m].time + WarWindowMs < g.watermark
  <2>1. CASE m = n
    <3>1. IsRevert(n) /\ InWar(n)
      BY <1>5, <2>1 DEF InWar
    <3>2. CASE Enough(n)
      <4>1. Extends(d, seen[n]) \/ Raises(d, seen[n])
        BY <3>1, <3>2, EnoughRaises
      <4> QED
        BY <1>2, <1>4, <2>1, <3>1, <4>1, DetectorAssumption
    <3>3. CASE ~Enough(n)
      <4>1. PICK k \in Recent(n) : k # n /\ InWar(k)
        BY <3>1, <3>3, WarIs
      <4>2. Extends(d, seen[n])
        BY <4>1, KnownExtends
      <4> QED
        BY <1>2, <1>4, <2>1, <3>1, <4>2, DetectorAssumption
    <3> QED
      BY <3>2, <3>3
  <2>2. CASE m # n
    <3>1. m \in 1..(n - 1) /\ m \in 1..Len(seen) /\ m =< n
      BY <1>1, <2>2
    <3>2. seen[m].time \in Nat /\ seen[m].time =< seen[n].time
      BY <3>1, SeenFacts DEF InOrder
    <3>3. \/ seen[m].time + WarWindowMs =< PageOf(d, seen[m].page).until
          \/ seen[m].time + WarWindowMs < d.watermark
      BY <1>5, <3>1 DEF Known
    <3>4. CASE seen[m].time + WarWindowMs < d.watermark
      BY <1>3, <3>2, <3>4, DetectorAssumption
    <3>5. CASE seen[m].time + WarWindowMs =< PageOf(d, seen[m].page).until
      <4>1. CASE IsRevert(n) /\ seen[m].page = seen[n].page
        <5>1. \/ PageOf(g, seen[m].page).until = PageOf(d, seen[m].page).until
              \/ PageOf(g, seen[m].page).until = seen[n].time + WarWindowMs
          BY <1>4, <4>1
        <5> QED
          BY <1>2, <3>2, <3>5, <5>1, DetectorAssumption
      <4>2. CASE ~(IsRevert(n) /\ seen[m].page = seen[n].page)
        <5>1. PageOf(g, seen[m].page) = PageOf(d, seen[m].page)
          BY <4>2, OtherPages, Zenon DEF IsRevert
        <5> QED
          BY <3>5, <5>1
      <4> QED
        BY <4>1, <4>2
    <3> QED
      BY <3>3, <3>4, <3>5
  <2> QED
    BY <2>1, <2>2
<1> QED
  BY <1>5 DEF Known

\* The reverts of an alert are no further apart than the window and what came late.
Extent(a) == a.start \in Nat /\ a.end \in Nat /\ a.end - a.start =< WarWindowMs + LateMs

\* It is so for an alert that observe makes from a page's list.
LEMMA AlertExtent ==
    ASSUME SeenOK, NEW n \in 1..Len(seen), NEW d, Lists(n - 1, d), IsRevert(n),
           NEW a, a = AlertFor(d, seen[n])
    PROVE  Extent(a)
<1>1. PICK K : K = WithRevert(d, seen[n])
  OBVIOUS
<1>2. PICK q \in Pages : q = seen[n].page
  BY SeenFacts
<1>3. PICK L : L = PageOf(d, q).reverts /\ ListOK(n - 1, q, L) /\ Near(L)
  BY DEF Lists
<1>4. ListOK(n, q, K) /\ Near(K) /\ Updated(n, L, K)
  BY <1>1, <1>2, <1>3, WithRevertIs
<1>5. K \in Seq(Messages) /\ Len(K) \in Nat /\ Len(K) > 0 /\ DOMAIN K = 1..Len(K)
  BY <1>4 DEF ListOK, Updated
<1>6. /\ \A i \in 1..Len(K) : K[i].id \in Nat /\ K[i].id \in 1..Len(seen) /\ K[i] = seen[K[i].id]
      /\ \A i, j \in 1..Len(K) : i < j => K[i].id < K[j].id
  <2>1. \A i \in 1..n : i \in Nat /\ i \in 1..Len(seen)
    BY DEF SeenOK
  <2>2. \A i \in 1..Len(K) : K[i].id \in 1..n /\ K[i] = seen[K[i].id]
    BY <1>4 DEF ListOK
  <2>3. \A i, j \in 1..Len(K) : i < j => K[i].id < K[j].id
    BY <1>4 DEF ListOK
  <2> QED
    BY <2>1, <2>2, <2>3
<1>7. \A i \in 1..Len(K) : K[i].time \in Nat
  BY <1>5, MessageTime
<1>8. LateMs \in Nat /\ \A m, k \in 1..Len(seen) : m =< k => seen[m].time - seen[k].time =< LateMs
  BY LateFacts
<1>9. ASSUME NEW i \in 1..Len(K), NEW j \in 1..Len(K)
      PROVE  K[j].time - K[i].time =< WarWindowMs + LateMs
  <2>1. CASE i =< j
    BY <1>4, <2>1 DEF Near
  <2>2. CASE ~(i =< j)
    <3>1. K[j].id < K[i].id
      BY <1>5, <1>6, <2>2
    <3>2. K[j].id =< K[i].id
      BY <1>6, <3>1
    <3>3. K[j].time - K[i].time =< LateMs
      BY <1>6, <1>8, <3>2
    <3>4. K[j].time - K[i].time \in Int
      BY <1>7
    <3> QED
      BY <1>8, <3>3, <3>4, DetectorAssumption
  <2> QED
    BY <2>1, <2>2
<1>10. PICK S : S = Range(K)
  OBVIOUS
<1>11. \A r : r \in S <=> \E i \in 1..Len(K) : r = K[i]
  BY <1>5, <1>10 DEF Range
<1>12. \A r \in S : r.time \in Nat /\ r.id \in Nat
  BY <1>6, <1>7, <1>11
<1>13. K[1] \in S
  BY <1>5, <1>11
<1>14. PICK f \in S : \A s \in S : f.time < s.time \/ (f.time = s.time /\ f.id =< s.id)
  <2>1. PICK T \in SUBSET Nat : T = {r.time : r \in S}
    <3>1. {r.time : r \in S} \in SUBSET Nat
      BY <1>12
    <3> QED
      BY <3>1
  <2>2. T # {}
    BY <1>13, <2>1
  <2>3. PICK t \in T : \A y \in T : t =< y
    BY <2>2, SmallestOf
  <2>4. PICK I \in SUBSET Nat : I = {r.id : r \in {s \in S : s.time = t}}
    <3>1. {r.id : r \in {s \in S : s.time = t}} \in SUBSET Nat
      BY <1>12
    <3> QED
      BY <3>1
  <2>5. I # {}
    BY <2>1, <2>3, <2>4
  <2>6. PICK k \in I : \A y \in I : k =< y
    BY <2>5, SmallestOf
  <2>7. PICK f \in S : f.time = t /\ f.id = k
    BY <2>4, <2>6
  <2>8. ASSUME NEW s \in S
        PROVE  f.time < s.time \/ (f.time = s.time /\ f.id =< s.id)
    <3>1. s.time \in T /\ t =< s.time
      BY <2>1, <2>3
    <3>2. CASE s.time = t
      <4>1. s.id \in I
        BY <2>4, <3>2
      <4> QED
        BY <2>6, <2>7, <3>2, <4>1
    <3>3. CASE s.time # t
      BY <1>12, <2>3, <2>7, <3>1, <3>3
    <3> QED
      BY <3>2, <3>3
  <2> QED
    BY <2>7, <2>8
<1>15. PICK c : c = CHOOSE r \in S : \A s \in S : r.time < s.time \/ (r.time = s.time /\ r.id =< s.id)
  OBVIOUS
<1>16. c \in S
  BY <1>14, <1>15
<1>17. PICK E \in SUBSET Nat : E = {r.time : r \in S}
  <2>1. {r.time : r \in S} \in SUBSET Nat
    BY <1>12
  <2> QED
    BY <2>1
<1>18. Max(E) \in E
  <2>1. PICK t \in Nat : \A m \in 1..Len(seen) : seen[m].time =< t
    BY DEF SeenOK
  <2>2. ASSUME NEW k \in E PROVE k =< t
    <3>1. PICK r \in S : k = r.time
      BY <1>17
    <3>2. PICK i \in 1..Len(K) : r = K[i]
      BY <1>11
    <3>3. seen[K[i].id].time =< t /\ K[i] = seen[K[i].id]
      BY <1>6, <2>1
    <3> QED
      BY <3>1, <3>2, <3>3
  <2>3. E # {}
    BY <1>13, <1>17
  <2>4. PICK l \in E : \A k \in E : k =< l
    BY <2>2, <2>3, LargestOf
  <2>5. E \in SUBSET Int
    BY <1>17
  <2>6. Max(E) = l
    BY <2>4, <2>5, MaxIs
  <2> QED
    BY <2>4, <2>6
<1>19. PICK i \in 1..Len(K), j \in 1..Len(K) : c = K[i] /\ Max(E) = K[j].time
  <2>1. PICK i \in 1..Len(K) : c = K[i]
    BY <1>11, <1>16
  <2>2. PICK r \in S : Max(E) = r.time
    BY <1>17, <1>18
  <2>3. PICK j \in 1..Len(K) : r = K[j]
    BY <1>11, <2>2
  <2> QED
    BY <2>1, <2>2, <2>3
<1>20. a = EditWarAlert(seen[n].page, S)
  BY <1>1, <1>10 DEF AlertFor
<1>21. a.start = c.time /\ a.end = Max(E)
  BY <1>15, <1>17, <1>20 DEF EditWarAlert
<1> QED
  BY <1>7, <1>9, <1>19, <1>21 DEF Extent

-----------------------------------------------------------------------------
(***************************************************************************)
(* What the handling of message n does to a detector d, in one formula.    *)
(***************************************************************************)
AbsorbOK ==
    SeenOK => \A n \in 1..Len(seen) : \A d, g :
        g = WarAbsorb(d, seen[n]) /\ Lists(n - 1, d) /\ MarkOK(n - 1, d) =>
            /\ Lists(n, g) /\ MarkOK(n, g)
            /\ \A out : \A end \in Nat :
                   seen[n].time =< end /\ Complete(n - 1, d, out, end) => Complete(n, g, out, end)
            /\ InOrder /\ UntilOK(n - 1, d) =>
                   /\ UntilOK(n, g)
                   /\ Complete(n - 1, d, {}, seen[n].time) /\ Known(n - 1, d) => Known(n, g)

\* It holds, by the lemmas above.
LEMMA AbsorbKeeps == AbsorbOK
<1> SUFFICES ASSUME SeenOK, NEW n \in 1..Len(seen), NEW d, NEW g,
                    g = WarAbsorb(d, seen[n]), Lists(n - 1, d), MarkOK(n - 1, d)
             PROVE  /\ Lists(n, g) /\ MarkOK(n, g)
                    /\ \A out : \A end \in Nat :
                           seen[n].time =< end /\ Complete(n - 1, d, out, end) =>
                               Complete(n, g, out, end)
                    /\ InOrder /\ UntilOK(n - 1, d) =>
                           /\ UntilOK(n, g)
                           /\ Complete(n - 1, d, {}, seen[n].time) /\ Known(n - 1, d) => Known(n, g)
  BY Zenon DEF AbsorbOK
<1>1. Lists(n, g) /\ MarkOK(n, g)
  BY AbsorbLists
<1>2. ASSUME NEW out, NEW end \in Nat, seen[n].time =< end, Complete(n - 1, d, out, end)
      PROVE  Complete(n, g, out, end)
  BY <1>2, AbsorbComplete
<1>3. ASSUME InOrder, UntilOK(n - 1, d)
      PROVE  UntilOK(n, g)
  BY <1>3, AbsorbUntil
<1>4. ASSUME InOrder, UntilOK(n - 1, d), Complete(n - 1, d, {}, seen[n].time), Known(n - 1, d)
      PROVE  Known(n, g)
  BY <1>4, AbsorbKnown
<1> QED
  BY <1>1, <1>2, <1>3, <1>4, Zenon

\* When message n raises an alert.
AlertOK ==
    SeenOK => \A n \in 1..Len(seen) : \A d :
        Lists(n - 1, d) /\ MarkOK(n - 1, d) =>
            /\ IsRevert(n) => Extent(AlertFor(d, seen[n]))
            /\ InOrder /\ IsRevert(n) /\ Raises(d, seen[n]) => InWar(n)
            /\ InOrder /\ UntilOK(n - 1, d) /\ Complete(n - 1, d, {}, seen[n].time) =>
                   /\ StartsWar(n) => IsRevert(n) /\ Raises(d, seen[n])
                   /\ Known(n - 1, d) /\ IsRevert(n) /\ Raises(d, seen[n]) => StartsWar(n)

\* It holds, by the lemmas above.
LEMMA AlertsRight == AlertOK
<1> SUFFICES ASSUME SeenOK, NEW n \in 1..Len(seen), NEW d, Lists(n - 1, d), MarkOK(n - 1, d)
             PROVE  /\ IsRevert(n) => Extent(AlertFor(d, seen[n]))
                    /\ InOrder /\ IsRevert(n) /\ Raises(d, seen[n]) => InWar(n)
                    /\ InOrder /\ UntilOK(n - 1, d) /\ Complete(n - 1, d, {}, seen[n].time) =>
                           /\ StartsWar(n) => IsRevert(n) /\ Raises(d, seen[n])
                           /\ Known(n - 1, d) /\ IsRevert(n) /\ Raises(d, seen[n]) => StartsWar(n)
  BY Zenon DEF AlertOK
<1>1. ASSUME IsRevert(n) PROVE Extent(AlertFor(d, seen[n]))
  BY <1>1, AlertExtent
<1>2. ASSUME InOrder, IsRevert(n), Raises(d, seen[n]) PROVE InWar(n)
  BY <1>2, RaisedIsWar
<1>3. ASSUME InOrder, UntilOK(n - 1, d), Complete(n - 1, d, {}, seen[n].time), StartsWar(n)
      PROVE  IsRevert(n) /\ Raises(d, seen[n])
  <2>1. InWar(n) /\ \A m \in Recent(n) : m # n => ~InWar(m)
    BY <1>3 DEF StartsWar
  <2>2. IsRevert(n)
    BY <2>1 DEF InWar
  <2>3. Enough(n)
    BY <2>1, WarIs
  <2>4. ~Extends(d, seen[n])
    <3>1. ASSUME Extends(d, seen[n]) PROVE FALSE
      <4>1. PICK m \in Recent(n) : m # n /\ InWar(m)
        BY <1>3, <2>2, <3>1, ExtendsIsWar
      <4> QED
        BY <2>1, <4>1
    <3> QED
      BY <3>1
  <2> QED
    BY <1>3, <2>2, <2>3, <2>4, EnoughRaises
<1>4. ASSUME InOrder, UntilOK(n - 1, d), Known(n - 1, d), IsRevert(n), Raises(d, seen[n])
      PROVE  StartsWar(n)
  <2>1. InWar(n)
    BY <1>2, <1>4
  <2>2. ASSUME NEW m \in Recent(n), m # n, InWar(m) PROVE FALSE
    <3>1. Extends(d, seen[n])
      BY <1>4, <2>2, KnownExtends
    <3> QED
      BY <1>4, <3>1 DEF Raises
  <2> QED
    BY <2>1, <2>2 DEF StartsWar
<1> QED
  BY <1>1, <1>2, <1>3, <1>4, Zenon

\* LateMs, in a form for the next state.
LateOK ==
    SeenOK =>
        /\ LateMs \in Nat
        /\ \A m, n \in 1..Len(seen) : m =< n => seen[m].time - seen[n].time =< LateMs
        /\ LateMs = 0 => InOrder

\* Times are numbers, in a form for the next state.
LEMMA TimesRight == SeenOK => \A m \in 1..Len(seen) : seen[m].time \in Nat
BY SeenFacts

\* It holds, by LateFacts.
LEMMA LateRight == LateOK
BY LateFacts DEF LateOK

\* The partition may have grown.
Grown == SeenOK /\ SeenOK' /\ Len(seen) =< Len(seen') /\ \A m \in 1..Len(seen) : seen'[m] = seen[m]

\* Messages only become more out of order.
LEMMA LateGrows ==
    ASSUME Grown
    PROVE  LateMs \in Nat /\ LateMs' \in Nat /\ LateMs =< LateMs' /\ (InOrder' => InOrder)
           /\ (NoneHeldUp' => NoneHeldUp)
<1>1. LateOK'
  BY LateRight, PTL
<1>2. LateMs \in Nat /\ LateMs' \in Nat
  BY <1>1, LateFacts DEF LateOK, Grown
<1>3. \A m, n \in 1..Len(seen') : m =< n => seen'[m].time - seen'[n].time =< LateMs'
  BY <1>1 DEF LateOK, Grown
<1>4. \A m \in 1..Len(seen) : m \in 1..Len(seen') /\ seen'[m] = seen[m]
  <2>1. Len(seen) \in Nat /\ Len(seen') \in Nat
    BY DEF Grown, SeenOK
  <2> QED
    BY <2>1 DEF Grown
<1>5. LateMs =< LateMs'
  <2>1. CASE LateMs = 0
    BY <1>2, <2>1
  <2>2. CASE LateMs # 0
    <3>1. PICK m \in 1..Len(seen), n \in 1..Len(seen) : m =< n /\ LateMs = seen[m].time - seen[n].time
      BY <2>2, LateFacts DEF Grown
    <3> QED
      BY <1>3, <1>4, <3>1
  <2> QED
    BY <2>1, <2>2
<1>6. InOrder' => InOrder
  BY <1>4 DEF InOrder
<1>7. NoneHeldUp' => NoneHeldUp
  <2>1. DOMAIN seen = 1..Len(seen) /\ DOMAIN seen' = 1..Len(seen')
    BY DEF Grown, SeenOK
  <2> QED
    BY <1>4, <2>1 DEF NoneHeldUp
<1> QED
  BY <1>2, <1>5, <1>6, <1>7

\* What is true of a detector stays true when the partition grows.
LEMMA Carried ==
    ASSUME Grown, NEW z \in Nat, z =< Len(seen), NEW d
    PROVE  /\ Lists(z, d) => Lists(z, d)'
           /\ MarkOK(z, d) => MarkOK(z, d)'
           /\ UntilOK(z, d) => UntilOK(z, d)'
           /\ Known(z, d) => Known(z, d)'
<1>1. \A m \in 1..z : m \in 1..Len(seen) /\ seen'[m] = seen[m]
  <2>1. Len(seen) \in Nat
    BY DEF Grown, SeenOK
  <2> QED
    BY <2>1 DEF Grown
<1>2. \A m \in 1..z : InWar(m)' <=> InWar(m)
  BY <1>1, RuleKept
<1>3. LateMs \in Nat /\ LateMs' \in Nat /\ LateMs =< LateMs'
  BY LateGrows
<1>4. ASSUME Lists(z, d) PROVE Lists(z, d)'
  <2>1. ASSUME NEW q \in Pages
        PROVE  (ListOK(z, q, PageOf(d, q).reverts) /\ Near(PageOf(d, q).reverts))'
    <3>1. PICK L : L = PageOf(d, q).reverts /\ ListOK(z, q, L) /\ Near(L)
      BY <1>4 DEF Lists
    <3>2. ListOK(z, q, L)'
      BY <1>1, <3>1 DEF ListOK
    <3>3. ASSUME NEW i \in 1..Len(L), NEW j \in 1..Len(L), i =< j
          PROVE  L[j].time - L[i].time =< WarWindowMs + LateMs'
      <4>1. L[j].time - L[i].time =< WarWindowMs + LateMs
        BY <3>1, <3>3 DEF Near
      <4>2. L[j] \in Messages /\ L[i] \in Messages
        BY <3>1 DEF ListOK
      <4>3. L[j].time \in Nat /\ L[i].time \in Nat
        BY <4>2, MessageTime
      <4> QED
        BY <1>3, <4>1, <4>3, DetectorAssumption, SMTT(40)
    <3>4. Near(L)'
      BY <3>3 DEF Near
    <3> QED
      BY <3>1, <3>2, <3>4
  <2> QED
    BY <2>1 DEF Lists
<1>5. MarkOK(z, d) => MarkOK(z, d)'
  BY <1>1 DEF MarkOK
<1>6. UntilOK(z, d) => UntilOK(z, d)'
  BY <1>1, <1>2 DEF UntilOK
<1>7. Known(z, d) => Known(z, d)'
  BY <1>1, <1>2 DEF Known
<1> QED
  BY <1>4, <1>5, <1>6, <1>7

\* So does a window with nothing missing.
LEMMA CarriedComplete ==
    ASSUME Grown, NEW z \in Nat, z =< Len(seen), NEW d, NEW out, NEW end, Complete(z, d, out, end)
    PROVE  Complete(z, d, out, end)'
<1>1. \A m \in 1..z : m \in 1..Len(seen) /\ seen'[m] = seen[m]
  <2>1. Len(seen) \in Nat
    BY DEF Grown, SeenOK
  <2> QED
    BY <2>1 DEF Grown
<1>2. \A m \in 1..z : IsRevert(m)' <=> IsRevert(m)
  BY <1>1, RuleKept
<1> QED
  BY <1>1, <1>2 DEF Complete

\* What is complete for a window is so for a later one.
LEMMA LaterWindow ==
    ASSUME SeenOK, NEW z \in Nat, z =< Len(seen), NEW d, NEW out,
           NEW old \in Nat, NEW end \in Nat, old =< end, Complete(z, d, out, old)
    PROVE  Complete(z, d, out, end)
<1>1. ASSUME NEW m \in 1..z, seen[m].time >= end - WarWindowMs
      PROVE  seen[m].time >= old - WarWindowMs
  <2>1. m \in 1..Len(seen)
    BY DEF SeenOK
  <2>2. seen[m].time \in Nat
    BY <2>1, SeenFacts
  <2> QED
    BY <1>1, <2>2, DetectorAssumption
<1> QED
  BY <1>1 DEF Complete

\* handle's step, seen from the state it leaves: d is the detector before message n.
Fed(n, d, out) ==
    /\ Grown
    /\ n \in Nat /\ n = Len(seen) + 1 /\ n = Len(seen')
    /\ d = det /\ det' = WarAbsorb(d, seen'[n])
    /\ out = missed /\ missed' = out
    /\ next' = n + 1 /\ restarts' = restarts
    /\ raised' = raised \union {[at |-> n, alert |-> a] : a \in Range(WarEmits(d, seen'[n]))}
    /\ Lists(n - 1, d)' /\ MarkOK(n - 1, d)'
    /\ InOrder' => /\ UntilOK(n - 1, d)'
                   /\ Trusted' => Complete(n - 1, d, out, seen[n].time)'
                   /\ restarts = 0 => out = {} /\ Known(n - 1, d)'

\* The parts of the invariant.
LEMMA InvFacts ==
    ASSUME DetectorInv
    PROVE  Len(seen) \in Nat /\ SeenOK /\ PlacesOK /\ DetectorOK /\ InOrderOK
<1>1. SeenOK /\ PlacesOK /\ DetectorOK /\ InOrderOK
  BY Zenon DEF DetectorInv
<1>2. Len(seen) \in Nat
  BY <1>1 DEF SeenOK
<1> QED
  BY <1>1, <1>2

\* Feed is such a step.
LEMMA FeedFacts ==
    ASSUME DetectorInv, NEW e \in Edits, NEW t \in Times, NEW lag \in Lags,
             Feed(Message(Len(seen) + 1, e, t, lag))
    PROVE  \E n, d, out : Fed(n, d, out)
<1>1. Len(seen) \in Nat /\ SeenOK /\ PlacesOK /\ DetectorOK /\ InOrderOK
  BY InvFacts
<1>2. PICK n, d, out, x :
          n \in Nat /\ n = Len(seen) + 1 /\ d = det /\ out = missed /\ x = Message(n, e, t, lag)
  BY <1>1
<1>3. /\ ~Replaying(seen, Len(seen)) /\ next' = Len(seen) + 2 /\ missed' = missed /\ restarts' = restarts
      /\ det' = WarAbsorb(det, x) /\ seen' = Append(seen, x)
      /\ raised' = raised \union {[at |-> x.id, alert |-> a] : a \in Range(WarEmits(det, x))}
  BY <1>2 DEF Feed, ReadOn
<1>4. next = n
  BY <1>1, <1>2, <1>3 DEF Replaying, PlacesOK
<1>5. x \in Messages /\ x.id = n /\ x.time \in Nat
  <2>1. x \in Messages
    BY <1>2 DEF Messages
  <2>2. x.id = n /\ x.time = t /\ t \in Nat
    BY <1>2, FeedAssumption DEF Message
  <2> QED
    BY <2>1, <2>2
<1>6. seen \in Seq(Messages)
  BY <1>1 DEF SeenOK
<1>7. Len(seen') = n /\ seen'[n] = x /\ seen' \in Seq(Messages)
  BY <1>2, <1>3, <1>5, <1>6
<1>8. \A m \in 1..Len(seen) : seen'[m] = seen[m]
  BY <1>3, <1>5, <1>6
<1>9. SeenOK'
  <2>1. \A m \in 1..n : m \in 1..Len(seen) \/ m = n
    BY <1>1, <1>2
  <2>2. \A m \in 1..Len(seen) : seen[m].id = m
    BY <1>1 DEF SeenOK
  <2>3. \A m \in 1..n : seen'[m].id = m
    BY <1>5, <1>7, <1>8, <2>1, <2>2
  <2>4. PICK b \in Nat : \A m \in 1..Len(seen) : seen[m].time =< b
    BY <1>1 DEF SeenOK
  <2>5. \A m \in 1..Len(seen) : seen[m].time \in Nat
    BY <1>1, SeenFacts
  <2>6. PICK c \in Nat : c = b + x.time
    BY <1>5
  <2>7. ASSUME NEW m \in 1..n PROVE seen'[m].time =< c
    <3>1. CASE m \in 1..Len(seen)
      <4>1. seen'[m].time = seen[m].time /\ seen[m].time =< b /\ seen[m].time \in Nat
        BY <1>8, <2>4, <2>5, <3>1
      <4> QED
        BY <1>5, <2>6, <4>1
    <3>2. CASE m = n
      BY <1>5, <1>7, <2>6, <3>2
    <3> QED
      BY <2>1, <3>1, <3>2
  <2> QED
    BY <1>7, <2>3, <2>7 DEF SeenOK
<1>10. Grown
  BY <1>1, <1>2, <1>7, <1>8, <1>9 DEF Grown
<1>11. n - 1 \in Nat /\ n - 1 =< Len(seen) /\ next - 1 = n - 1
  BY <1>1, <1>2, <1>4
<1>12. Lists(n - 1, d)' /\ MarkOK(n - 1, d)'
  <2>1. Lists(n - 1, d) /\ MarkOK(n - 1, d)
    BY <1>1, <1>2, <1>11 DEF DetectorOK
  <2> QED
    BY <1>10, <1>11, <2>1, Carried
<1>13. ASSUME InOrder'
       PROVE  /\ UntilOK(n - 1, d)'
              /\ Trusted' => Complete(n - 1, d, out, seen[n].time)'
              /\ restarts = 0 => out = {} /\ Known(n - 1, d)'
  <2>1. InOrder
    BY <1>10, <1>13, LateGrows
  <2>2. /\ UntilOK(n - 1, d)
        /\ Trusted /\ Len(seen) > 0 => Complete(n - 1, d, out, seen[Len(seen)].time)
        /\ restarts = 0 => Known(n - 1, d)
    BY <1>1, <1>2, <1>11, <2>1 DEF InOrderOK
  <2>3. UntilOK(n - 1, d)' /\ (restarts = 0 => Known(n - 1, d)')
    BY <1>10, <1>11, <2>2, Carried
  <2>4. restarts = 0 => out = {}
    BY <1>1, <1>2 DEF PlacesOK
  <2>5. PICK end \in Nat : end = x.time
    BY <1>5
  <2>6. Trusted' => Trusted
    BY <1>3, <1>10, LateGrows DEF Trusted
  <2>7. ASSUME Trusted' PROVE Complete(n - 1, d, out, end)
    <3>1. CASE Len(seen) > 0
      <4>1. PICK l \in Nat : l = Len(seen) /\ l \in 1..Len(seen) /\ l \in 1..Len(seen') /\ l =< n /\ n \in 1..Len(seen')
        BY <1>1, <1>2, <1>7, <3>1
      <4>2. PICK old \in Nat : old = seen[l].time
        BY <1>1, <4>1, SeenFacts
      <4>3. seen'[l].time =< seen'[n].time
        BY <1>13, <4>1 DEF InOrder
      <4>4. old =< end
        BY <1>7, <1>8, <2>5, <4>1, <4>2, <4>3
      <4>5. Complete(n - 1, d, out, old)
        BY <2>2, <2>7, <2>6, <3>1, <4>1, <4>2
      <4> QED
        BY <1>1, <1>11, <4>4, <4>5, LaterWindow
    <3>2. CASE ~(Len(seen) > 0)
      <4>1. \A m \in 1..(n - 1) : FALSE
        BY <1>1, <1>2, <3>2
      <4> QED
        BY <4>1 DEF Complete
    <3> QED
      BY <3>1, <3>2
  <2>8. Trusted' => Complete(n - 1, d, out, end)'
    BY <1>10, <1>11, <2>7, CarriedComplete
  <2>9. Trusted' => Complete(n - 1, d, out, seen[n].time)'
    BY <1>7, <2>5, <2>8
  <2> QED
    BY <2>3, <2>4, <2>9
<1>14. next' = n + 1
  BY <1>1, <1>2, <1>3
<1>15. raised' = raised \union {[at |-> n, alert |-> a] : a \in Range(WarEmits(d, seen'[n]))}
  BY <1>2, <1>3, <1>5, <1>7
<1>16. d = det /\ det' = WarAbsorb(d, seen'[n]) /\ out = missed /\ missed' = out
  BY <1>2, <1>3, <1>7
<1>17. n \in Nat /\ n = Len(seen) + 1 /\ n = Len(seen') /\ restarts' = restarts
  BY <1>2, <1>3, <1>7
<1>18. Fed(n, d, out)
  BY <1>10, <1>12, <1>13, <1>14, <1>15, <1>16, <1>17, Zenon DEF Fed
<1> QED
  BY <1>18, Zenon

\* The invariant, from what an absorbed message leaves.
LEMMA FeedStep ==
    ASSUME DetectorInv, NEW n, NEW d, NEW out, Fed(n, d, out)
    PROVE  DetectorInv'
<1>1. Len(seen) \in Nat /\ SeenOK /\ PlacesOK
  BY InvFacts
<1>2. /\ Grown
      /\ n \in Nat /\ n = Len(seen) + 1 /\ n = Len(seen')
      /\ d = det /\ det' = WarAbsorb(d, seen'[n])
      /\ out = missed /\ missed' = out
      /\ next' = n + 1 /\ restarts' = restarts
      /\ raised' = raised \union {[at |-> n, alert |-> a] : a \in Range(WarEmits(d, seen'[n]))}
      /\ Lists(n - 1, d)' /\ MarkOK(n - 1, d)'
  BY Zenon DEF Fed
<1>3. InOrder' => /\ UntilOK(n - 1, d)'
                  /\ Trusted' => Complete(n - 1, d, out, seen[n].time)'
                  /\ restarts = 0 => out = {} /\ Known(n - 1, d)'
  BY Zenon DEF Fed
<1>4. SeenOK'
  BY <1>2 DEF Grown
<1>5. n \in 1..Len(seen') /\ next' - 1 = n
  BY <1>1, <1>2
<1>6. AbsorbOK'
  BY AbsorbKeeps, PTL
<1>7. PICK g : g = det'
  OBVIOUS
<1>8. /\ Lists(n, g)' /\ MarkOK(n, g)'
      /\ \A o : \A end \in Nat : seen'[n].time =< end /\ Complete(n - 1, d, o, end)' => Complete(n, g, o, end)'
      /\ InOrder' /\ UntilOK(n - 1, d)' =>
             /\ UntilOK(n, g)'
             /\ Complete(n - 1, d, {}, seen[n].time)' /\ Known(n - 1, d)' => Known(n, g)'
  BY <1>2, <1>4, <1>5, <1>6, <1>7, Zenon DEF AbsorbOK
<1>9. DetectorOK'
  BY <1>5, <1>7, <1>8 DEF DetectorOK
<1>10. InOrderOK'
  <2>1. ASSUME InOrder'
        PROVE  /\ UntilOK(n, g)' /\ (Trusted' => Complete(n, g, out, seen[n].time)')
               /\ (restarts = 0 => Known(n, g)')
    <3>1. PICK end \in Nat : end = seen'[n].time /\ seen'[n].time =< end
      <4>1. (SeenOK => \A m \in 1..Len(seen) : seen[m].time \in Nat)'
        BY TimesRight, PTL
      <4>2. seen'[n].time \in Nat
        BY <1>4, <1>5, <4>1
      <4> QED
        BY <4>2
    <3>2. Trusted' => Complete(n - 1, d, out, end)'
      BY <1>3, <2>1, <3>1
    <3>3. Trusted' => Complete(n, g, out, end)'
      BY <1>8, <3>1, <3>2
    <3>4. Trusted' => Complete(n, g, out, seen[n].time)'
      BY <3>1, <3>3
    <3>5. UntilOK(n, g)' /\ (restarts = 0 => Known(n, g)')
      <4>1. restarts = 0 => Trusted'
        BY <1>2 DEF Trusted
      <4> QED
        BY <1>3, <1>8, <2>1, <4>1, Zenon
    <3> QED
      BY <3>4, <3>5
  <2>2. next' - 1 = n /\ det' = g /\ missed' = out /\ Len(seen') = n /\ restarts' = restarts
    BY <1>2, <1>5, <1>7
  <2> QED
    BY <2>1, <2>2 DEF InOrderOK
<1>11. PlacesOK'
  <2>1. next' \in 1..(Len(seen') + 1) /\ restarts' \in Nat
    BY <1>1, <1>2 DEF PlacesOK
  <2>2. restarts' = 0 => next' = Len(seen') + 1 /\ missed' = {}
    BY <1>1, <1>2 DEF PlacesOK
  <2>3. ASSUME NEW r \in raised' PROVE r.at \in 1..Len(seen')
    <3>1. CASE r \in raised
      BY <1>1, <1>2, <3>1 DEF PlacesOK
    <3>2. CASE r \notin raised
      <4>1. r.at = n
        BY <1>2, <3>2
      <4> QED
        BY <1>5, <4>1
    <3> QED
      BY <3>1, <3>2
  <2> QED
    BY <2>1, <2>2, <2>3 DEF PlacesOK
<1> QED
  BY <1>4, <1>9, <1>10, <1>11, Zenon DEF DetectorInv

\* A new detector knows nothing, which is nothing wrong.
LEMMA NewDetectorOK ==
    ASSUME NEW z \in Nat
    PROVE  Lists(z, NewDetector) /\ MarkOK(z, NewDetector) /\ UntilOK(z, NewDetector)
<1>1. NewDetector.pages = <<>> /\ NewDetector.watermark = 0
  BY DEF NewDetector
<1>2. ASSUME NEW q PROVE PageOf(NewDetector, q).reverts = <<>> /\ PageOf(NewDetector, q).until = -1
  <2>1. q \notin DOMAIN NewDetector.pages
    BY <1>1
  <2> QED
    BY <2>1 DEF PageOf
<1>3. Len(<<>>) = 0 /\ <<>> \in Seq(Messages) /\ \A i \in 1..0 : FALSE
  OBVIOUS
<1>4. \A q \in Pages : ListOK(z, q, <<>>) /\ Near(<<>>)
  BY <1>3 DEF ListOK, Near
<1>5. Lists(z, NewDetector)
  BY <1>2, <1>4 DEF Lists
<1>6. MarkOK(z, NewDetector)
  <2>1. NewDetector = [watermark |-> NewDetector.watermark, pages |-> NewDetector.pages]
    BY DEF NewDetector
  <2> QED
    BY <1>1, <2>1 DEF MarkOK
<1>7. UntilOK(z, NewDetector)
  BY <1>2 DEF UntilOK
<1> QED
  BY <1>5, <1>6, <1>7

\* Initially.
LEMMA InitInv ==
    ASSUME Init
    PROVE  DetectorInv
<1>1. det = NewDetector /\ seen = <<>> /\ raised = {} /\ next = 1 /\ missed = {} /\ restarts = 0
  BY DEF Init, ReplayInit
<1>2. Len(seen) = 0 /\ seen \in Seq(Messages)
  BY <1>1
<1>3. SeenOK
  <2>1. 0 \in Nat /\ \A n \in 1..Len(seen) : FALSE
    BY <1>2
  <2> QED
    BY <1>2, <2>1 DEF SeenOK
<1>4. PlacesOK
  BY <1>1, <1>2 DEF PlacesOK
<1>5. next - 1 = 0 /\ \A m \in 1..0 : FALSE
  BY <1>1
<1>6. DetectorOK /\ InOrderOK
  <2>1. PICK d, z : z \in Nat /\ d = det /\ z = next - 1
    BY <1>5
  <2>2. Lists(z, d) /\ MarkOK(z, d) /\ UntilOK(z, d)
    BY <1>1, <2>1, NewDetectorOK
  <2>3. Known(z, d)
    BY <1>5, <2>1 DEF Known
  <2> QED
    BY <1>2, <2>1, <2>2, <2>3 DEF DetectorOK, InOrderOK
<1> QED
  BY <1>3, <1>4, <1>6, Zenon DEF DetectorInv

\* A step that leaves the partition alone keeps the invariant if its detector does.
LEMMA StillStep ==
    ASSUME SeenOK, PlacesOK, seen' = seen, raised' = raised,
           NEW z \in Nat, z =< Len(seen), next' = z + 1, restarts' \in Nat,
           restarts' = 0 => z = Len(seen) /\ missed' = {},
           NEW d, det' = d, NEW out, missed' = out, Lists(z, d), MarkOK(z, d),
           InOrder => /\ UntilOK(z, d)
                      /\ Trusted' /\ Len(seen) > 0 => Complete(z, d, out, seen[Len(seen)].time)
                      /\ restarts' = 0 => Known(z, d)
    PROVE  DetectorInv'
<1>1. Len(seen) \in Nat /\ next' - 1 = z
  BY DEF SeenOK
<1>2. SeenOK'
  BY DEF SeenOK
<1>3. Grown
  BY <1>1, <1>2 DEF Grown
<1>4. PlacesOK'
  <2>1. next' \in 1..(Len(seen) + 1) /\ (restarts' = 0 => next' = Len(seen) + 1 /\ missed' = {})
    BY <1>1
  <2>2. \A r \in raised : r.at \in 1..Len(seen)
    BY DEF PlacesOK
  <2> QED
    BY <2>1, <2>2 DEF PlacesOK
<1>5. Lists(z, d)' /\ MarkOK(z, d)'
  BY <1>3, Carried
<1>6. DetectorOK'
  BY <1>1, <1>5 DEF DetectorOK
<1>7. ASSUME InOrder'
      PROVE  /\ UntilOK(z, d)'
             /\ Trusted' /\ Len(seen') > 0 => Complete(z, d, out, seen[Len(seen)].time)'
             /\ restarts' = 0 => Known(z, d)'
  <2>1. InOrder
    BY <1>7 DEF InOrder
  <2>2. UntilOK(z, d)' /\ (restarts' = 0 => Known(z, d)')
    BY <1>3, <2>1, Carried
  <2>3. ASSUME Trusted', Len(seen) > 0 PROVE Complete(z, d, out, seen[Len(seen)].time)'
    <3>1. PICK end : end = seen[Len(seen)].time
      OBVIOUS
    <3>2. Complete(z, d, out, end)
      BY <2>1, <2>3, <3>1
    <3>3. Complete(z, d, out, end)'
      BY <1>3, <3>2, CarriedComplete
    <3> QED
      BY <3>1, <3>3
  <2> QED
    BY <2>2, <2>3
<1>8. InOrderOK'
  BY <1>1, <1>7 DEF InOrderOK
<1> QED
  BY <1>2, <1>4, <1>6, <1>8, Zenon DEF DetectorInv

\* expire keeps a page as it is, or forgets it.
LEMMA ExpireIs ==
    ASSUME NEW d, d = [watermark |-> d.watermark, pages |-> d.pages], NEW g, g = Expire(d)
    PROVE  /\ g = [watermark |-> g.watermark, pages |-> g.pages] /\ g.watermark = d.watermark
           /\ \A q : \/ PageOf(g, q) = PageOf(d, q)
                     \/ /\ q \in DOMAIN d.pages /\ Quiet(d, q)
                        /\ PageOf(g, q).reverts = <<>> /\ PageOf(g, q).until = -1
<1>1. PICK P : P = [k \in {p \in DOMAIN d.pages : ~Quiet(d, p)} |-> d.pages[k]]
  OBVIOUS
<1>2. g = [d EXCEPT !.pages = P]
  BY <1>1 DEF Expire
<1>3. g = [watermark |-> d.watermark, pages |-> P]
  BY <1>2
<1>4. g.watermark = d.watermark /\ g.pages = P
  BY <1>3
<1>5. ASSUME NEW q
      PROVE  \/ PageOf(g, q) = PageOf(d, q)
             \/ /\ q \in DOMAIN d.pages /\ Quiet(d, q)
                /\ PageOf(g, q).reverts = <<>> /\ PageOf(g, q).until = -1
  <2>1. CASE q \in DOMAIN P
    <3>1. q \in DOMAIN d.pages /\ P[q] = d.pages[q]
      BY <1>1, <2>1
    <3> QED
      BY <1>4, <2>1, <3>1 DEF PageOf
  <2>2. CASE q \notin DOMAIN P
    <3>1. PageOf(g, q) = [reverts |-> <<>>, until |-> -1]
      BY <1>4, <2>2 DEF PageOf
    <3>2. CASE q \in DOMAIN d.pages
      <4>1. Quiet(d, q)
        BY <1>1, <2>2, <3>2
      <4> QED
        BY <3>1, <3>2, <4>1
    <3>3. CASE q \notin DOMAIN d.pages
      BY <3>1, <3>3 DEF PageOf
    <3> QED
      BY <3>2, <3>3
  <2> QED
    BY <2>1, <2>2
<1> QED
  BY <1>3, <1>4, <1>5

\* expire forgets no revert that is still in the window, and no war that goes on.
LEMMA ExpireKeeps ==
    ASSUME SeenOK, NEW z \in Nat, z = Len(seen), NEW d, Lists(z, d), MarkOK(z, d),
           NEW g, g = Expire(d), NEW out
    PROVE  /\ Lists(z, g) /\ MarkOK(z, g)
           /\ UntilOK(z, d) => UntilOK(z, g)
           /\ InOrder /\ z > 0 /\ Complete(z, d, out, seen[z].time) => Complete(z, g, out, seen[z].time)
           /\ UntilOK(z, d) /\ Known(z, d) => Known(z, g)
<1>1. /\ d = [watermark |-> d.watermark, pages |-> d.pages] /\ d.watermark \in Nat
      /\ d.watermark = 0 \/ \E m \in 1..z : d.watermark = seen[m].time
  BY DEF MarkOK
<1>2. g = [watermark |-> g.watermark, pages |-> g.pages] /\ g.watermark = d.watermark
  BY <1>1, ExpireIs
<1>3. \A q : \/ PageOf(g, q) = PageOf(d, q)
             \/ /\ q \in DOMAIN d.pages /\ Quiet(d, q)
                /\ PageOf(g, q).reverts = <<>> /\ PageOf(g, q).until = -1
  BY <1>1, ExpireIs
<1>4. MarkOK(z, g)
  BY <1>1, <1>2 DEF MarkOK
<1>5. Lists(z, g)
  <2>1. Len(<<>>) = 0 /\ <<>> \in Seq(Messages) /\ \A i \in 1..0 : FALSE
    OBVIOUS
  <2>2. \A q \in Pages : ListOK(z, q, <<>>) /\ Near(<<>>)
    BY <2>1 DEF ListOK, Near
  <2>3. ASSUME NEW q \in Pages PROVE ListOK(z, q, PageOf(g, q).reverts) /\ Near(PageOf(g, q).reverts)
    <3>1. PageOf(g, q) = PageOf(d, q) \/ PageOf(g, q).reverts = <<>>
      BY <1>3
    <3>2. ListOK(z, q, PageOf(d, q).reverts) /\ Near(PageOf(d, q).reverts)
      BY DEF Lists
    <3> QED
      BY <2>2, <3>1, <3>2
  <2> QED
    BY <2>3 DEF Lists
<1>6. ASSUME UntilOK(z, d) PROVE UntilOK(z, g)
  BY <1>3, <1>6 DEF UntilOK
<1>7. ASSUME InOrder, z > 0, Complete(z, d, out, seen[z].time)
      PROVE  Complete(z, g, out, seen[z].time)
  <2>1. z \in 1..Len(seen)
    BY <1>7
  <2>2. PICK end \in Nat : end = seen[z].time
    BY <2>1, SeenFacts
  <2>3. d.watermark =< end
    BY <1>1, <1>7, <2>1, <2>2 DEF InOrder
  <2>4. ASSUME NEW m \in 1..z, IsRevert(m), seen[m].time >= end - WarWindowMs
        PROVE  m \in out \/ \E i \in 1..Len(PageOf(g, seen[m].page).reverts) :
                                PageOf(g, seen[m].page).reverts[i].id = m
    <3>1. PICK q \in Pages : q = seen[m].page /\ seen[m].time \in Nat
      BY SeenFacts
    <3>2. PICK L : L = PageOf(d, q).reverts /\ ListOK(z, q, L)
      BY DEF Lists
    <3>3. CASE m \in out
      BY <3>3
    <3>4. CASE m \notin out
      <4>1. PICK i \in 1..Len(L) : L[i].id = m
        BY <1>7, <2>2, <2>4, <3>1, <3>2, <3>4 DEF Complete
      <4>2. Len(L) \in Nat /\ i \in Nat /\ L # <<>>
        <5>1. L \in Seq(Messages)
          BY <3>2 DEF ListOK
        <5> QED
          BY <5>1
      <4>3. PICK l \in Nat : l = Len(L) /\ l \in 1..Len(L) /\ i =< l
        BY <4>2
      <4>4. ASSUME q \in DOMAIN d.pages, Quiet(d, q) PROVE FALSE
        <5>1. L = d.pages[q].reverts
          BY <3>2, <4>4 DEF PageOf
        <5>2. L[l].time < d.watermark - WarWindowMs
          BY <4>2, <4>3, <4>4, <5>1 DEF Quiet
        <5>3. /\ L[l].id \in 1..z /\ L[l] = seen[L[l].id] /\ L[i] = seen[m]
              /\ i < l => L[i].id < L[l].id
          BY <3>2, <4>1, <4>3 DEF ListOK
        <5>4. PICK k \in Nat : k = L[l].id /\ k \in 1..Len(seen) /\ m \in 1..Len(seen) /\ m =< k
          <6>1. i < l \/ i = l
            BY <4>2, <4>3
          <6>2. m =< L[l].id
            BY <4>1, <5>3, <6>1
          <6> QED
            BY <5>3, <6>2
        <5>5. seen[m].time =< seen[k].time /\ seen[k].time \in Nat
          BY <1>7, <5>4, SeenFacts DEF InOrder
        <5>6. seen[k].time < d.watermark - WarWindowMs
          BY <5>2, <5>3, <5>4
        <5> QED
          BY <1>1, <2>3, <2>4, <3>1, <5>5, <5>6, DetectorAssumption, SMTT(40)
      <4>5. PageOf(g, q) = PageOf(d, q)
        BY <1>3, <4>4
      <4> QED
        BY <3>1, <3>2, <4>1, <4>5
    <3> QED
      BY <3>3, <3>4
  <2> QED
    BY <2>2, <2>4 DEF Complete
<1>8. ASSUME UntilOK(z, d), Known(z, d) PROVE Known(z, g)
  <2>1. ASSUME NEW m \in 1..z, InWar(m)
        PROVE  \/ seen[m].time + WarWindowMs =< PageOf(g, seen[m].page).until
               \/ seen[m].time + WarWindowMs < g.watermark
    <3>1. PICK q \in Pages : q = seen[m].page /\ seen[m].time \in Nat
      BY SeenFacts
    <3>2. \/ seen[m].time + WarWindowMs =< PageOf(d, q).until
          \/ seen[m].time + WarWindowMs < d.watermark
      BY <1>8, <2>1, <3>1 DEF Known
    <3>3. CASE PageOf(g, q) = PageOf(d, q) \/ seen[m].time + WarWindowMs < d.watermark
      BY <1>2, <3>1, <3>2, <3>3
    <3>4. CASE q \in DOMAIN d.pages /\ Quiet(d, q) /\ seen[m].time + WarWindowMs =< PageOf(d, q).until
      <4>1. PageOf(d, q).until < d.watermark
        BY <3>4 DEF PageOf, Quiet
      <4>2. z =< Len(seen)
        OBVIOUS
      <4>3. PICK u \in Int : u = PageOf(d, q).until
        BY <1>8, <4>2, UntilIsInt
      <4> QED
        BY <1>1, <1>2, <3>1, <3>4, <4>1, <4>3, DetectorAssumption
    <3> QED
      BY <1>3, <3>2, <3>3, <3>4
  <2> QED
    BY <2>1 DEF Known
<1> QED
  BY <1>4, <1>5, <1>6, <1>7, <1>8

\* periodic keeps the invariant.
LEMMA HousekeepingStep ==
    ASSUME DetectorInv, Housekeeping
    PROVE  DetectorInv'
<1>1. Len(seen) \in Nat /\ SeenOK /\ PlacesOK /\ DetectorOK /\ InOrderOK
  BY InvFacts
<1>2. /\ ~Replaying(seen, Len(seen)) /\ det' = Expire(det) /\ seen' = seen /\ raised' = raised
      /\ next' = next /\ missed' = missed /\ restarts' = restarts
  BY DEF Housekeeping
<1>3. PICK z, d, g, out :
          /\ z \in Nat /\ z = Len(seen) /\ next = z + 1 /\ next - 1 = z
          /\ d = det /\ g = det' /\ g = Expire(d) /\ out = missed
  BY <1>1, <1>2 DEF Replaying, PlacesOK
<1>4. Lists(z, d) /\ MarkOK(z, d)
  BY <1>1, <1>3 DEF DetectorOK
<1>5. /\ Lists(z, g) /\ MarkOK(z, g)
      /\ UntilOK(z, d) => UntilOK(z, g)
      /\ InOrder /\ z > 0 /\ Complete(z, d, out, seen[z].time) => Complete(z, g, out, seen[z].time)
      /\ UntilOK(z, d) /\ Known(z, d) => Known(z, g)
  BY <1>1, <1>3, <1>4, ExpireKeeps
<1>6. Trusted' => Trusted
  BY <1>2 DEF Trusted, NoneHeldUp
<1>7. InOrder => /\ UntilOK(z, d)
                 /\ Trusted' /\ Len(seen) > 0 => Complete(z, d, out, seen[Len(seen)].time)
                 /\ restarts = 0 => Known(z, d)
  BY <1>1, <1>3, <1>6 DEF InOrderOK
<1>8. InOrder => /\ UntilOK(z, g)
                 /\ Trusted' /\ Len(seen) > 0 => Complete(z, g, out, seen[Len(seen)].time)
                 /\ restarts' = 0 => Known(z, g)
  BY <1>2, <1>3, <1>5, <1>7
<1>9. restarts' \in Nat /\ (restarts' = 0 => z = Len(seen) /\ missed' = {})
  BY <1>1, <1>2, <1>3 DEF PlacesOK
<1>10. next' = z + 1 /\ z =< Len(seen) /\ missed' = out
  BY <1>2, <1>3
<1> QED
  BY <1>1, <1>2, <1>3, <1>5, <1>8, <1>9, <1>10, StillStep

\* start_offset is not before the window; what comes before the window is older.
LEMMA WindowFacts ==
    ASSUME SeenOK, Len(seen) > 0, NEW w, w = WindowStart(seen, Len(seen), WarWindowMs)
    PROVE  /\ w \in 1..Len(seen)
           /\ \A m \in 1..Len(seen) :
                  NoneHeldUp /\ seen[m].time >= seen[Len(seen)].time - WarWindowMs => w =< m
           /\ StartOffset(seen, Len(seen), WarWindowMs) \in Int
           /\ StartOffset(seen, Len(seen), WarWindowMs) >= w
<1>1. PICK z \in Nat : z = Len(seen) /\ z \in 1..z /\ z > 0
  BY DEF SeenOK
<1>2. \A m \in 1..z : seen[m].time \in Nat /\ seen[m].stamp \in Nat
  BY <1>1, SeenFacts
<1>3. PICK S \in SUBSET Nat : S = {o \in 1..Len(seen) : seen[o].stamp >= seen[z].stamp - WarWindowMs}
  <2>1. {o \in 1..Len(seen) : seen[o].stamp >= seen[z].stamp - WarWindowMs} \in SUBSET Nat
    OBVIOUS
  <2> QED
    BY <2>1
<1>4. z \in S
  <2>1. seen[z].stamp >= seen[z].stamp - WarWindowMs
    BY <1>1, <1>2, DetectorAssumption
  <2> QED
    BY <1>1, <1>3, <2>1
<1>5. PICK x \in S : \A y \in S : x =< y
  BY <1>4, SmallestOf
<1>6. w = x
  <2>1. w = Min(S)
    BY <1>1, <1>3 DEF WindowStart
  <2>2. Min(S) \in S /\ \A y \in S : Min(S) =< y
    BY <1>5 DEF Min
  <2>3. w \in Nat /\ x \in Nat /\ w =< x /\ x =< w
    BY <1>5, <2>1, <2>2
  <2> QED
    BY <2>3
<1>7. w \in 1..Len(seen)
  BY <1>3, <1>5, <1>6
<1>8. ASSUME NEW m \in 1..Len(seen), NoneHeldUp, seen[m].time >= seen[z].time - WarWindowMs
      PROVE  w =< m
  <2>1. PICK a \in Nat, b \in Nat : a = seen[m].time /\ b = seen[z].time
    BY <1>1, <1>2
  <2>2. PICK s \in Nat, u \in Nat : s = seen[m].stamp /\ u = seen[z].stamp
    BY <1>1, <1>2
  <2>3. b - a =< WarWindowMs
    BY <1>8, <2>1, DetectorAssumption, SMTT(40)
  <2>4. m \in DOMAIN seen /\ z \in DOMAIN seen /\ m =< z
    BY <1>1 DEF SeenOK
  <2>5. u - s =< WarWindowMs
    BY <1>8, <2>1, <2>2, <2>3, <2>4 DEF NoneHeldUp
  <2>6. s >= u - WarWindowMs
    BY <2>5, DetectorAssumption
  <2>7. m \in S
    BY <1>1, <1>3, <2>2, <2>6
  <2> QED
    BY <1>5, <1>6, <2>7
<1>9. StartOffset(seen, z, WarWindowMs) \in Int /\ StartOffset(seen, z, WarWindowMs) >= w
  <2>1. PICK a \in Int : a = z - MaxRecords + 1
    BY <1>1, ReplayAssumption
  <2>2. StartOffset(seen, z, WarWindowMs) = Max({w, a})
    BY <1>1, <2>1 DEF StartOffset
  <2>3. w \in Int
    BY <1>7
  <2>4. CASE w >= a
    <3>1. {w, a} \in SUBSET Int /\ w \in {w, a} /\ \A k \in {w, a} : k =< w
      BY <2>3, <2>4
    <3> QED
      BY <2>2, <2>3, <3>1, MaxIs
  <2>5. CASE w < a
    <3>1. {w, a} \in SUBSET Int /\ a \in {w, a} /\ \A k \in {w, a} : k =< a
      BY <2>3, <2>5
    <3> QED
      BY <2>2, <2>3, <2>5, <3>1, MaxIs
  <2> QED
    BY <2>3, <2>4, <2>5
<1> QED
  BY <1>1, <1>7, <1>8, <1>9

\* The number before.
LEMMA OneBefore ==
    ASSUME NEW x \in Int, NEW l \in Nat, x >= 1, x =< l + 1
    PROVE  \E z \in Nat : x = z + 1 /\ z =< l /\ x - 1 = z
OBVIOUS

\* A new owner's replay begins where its window does, or what it leaves out is missed.
LEMMA NewOwnerStep ==
    ASSUME DetectorInv, NewOwner
    PROVE  DetectorInv'
<1>1. Len(seen) \in Nat /\ SeenOK /\ PlacesOK
  BY InvFacts
<1>2. /\ det' = NewDetector /\ seen' = seen /\ raised' = raised /\ restarts' = restarts + 1
      /\ \/ Len(seen) = 0 /\ next' = 1 /\ missed' = missed
         \/ /\ Len(seen) > 0
            /\ next' \in StartOffset(seen, Len(seen), WarWindowMs)..(Len(seen) + 1)
            /\ missed' = missed \union WindowStart(seen, Len(seen), WarWindowMs)..(next' - 1)
  BY DEF NewOwner, BeginReplay
<1>3. restarts' \in Nat /\ restarts' # 0
  BY <1>1, <1>2 DEF PlacesOK
<1>4. PICK d, out : d = det' /\ d = NewDetector /\ out = missed'
  BY <1>2
<1>5. PICK z \in Nat : /\ next' = z + 1 /\ z =< Len(seen)
                       /\ \A m \in 1..z : /\ Len(seen) > 0
                                          /\ NoneHeldUp /\ seen[m].time >= seen[Len(seen)].time - WarWindowMs =>
                                                 m \in out
  <2>1. CASE Len(seen) = 0 /\ next' = 1
    <3>1. PICK z \in Nat : z = 0
      OBVIOUS
    <3>2. next' = z + 1 /\ z =< Len(seen) /\ \A m \in 1..z : FALSE
      BY <1>1, <2>1, <3>1
    <3>3. \A m \in 1..z : /\ Len(seen) > 0
                          /\ NoneHeldUp /\ seen[m].time >= seen[Len(seen)].time - WarWindowMs => m \in out
      BY <3>2
    <3> QED
      BY <3>1, <3>2, <3>3, Zenon
  <2>2. CASE /\ Len(seen) > 0
             /\ next' \in StartOffset(seen, Len(seen), WarWindowMs)..(Len(seen) + 1)
             /\ missed' = missed \union WindowStart(seen, Len(seen), WarWindowMs)..(next' - 1)
    <3>1. PICK w : w = WindowStart(seen, Len(seen), WarWindowMs)
      OBVIOUS
    <3>2. /\ w \in 1..Len(seen)
          /\ StartOffset(seen, Len(seen), WarWindowMs) \in Int
          /\ StartOffset(seen, Len(seen), WarWindowMs) >= w
      BY <1>1, <2>2, <3>1, WindowFacts
    <3>3. \A m \in 1..Len(seen) :
              NoneHeldUp /\ seen[m].time >= seen[Len(seen)].time - WarWindowMs => w =< m
      BY <1>1, <2>2, <3>1, WindowFacts
    <3>4. PICK z \in Nat : next' = z + 1 /\ z =< Len(seen) /\ next' - 1 = z
      <4>1. PICK s \in Int : s = StartOffset(seen, Len(seen), WarWindowMs) /\ s >= 1
        BY <3>2
      <4>2. PICK x \in Int : x = next' /\ x >= 1 /\ x =< Len(seen) + 1
        BY <1>1, <2>2, <4>1
      <4>3. PICK z \in Nat : x = z + 1 /\ z =< Len(seen) /\ x - 1 = z
        BY <1>1, <4>2, OneBefore
      <4> QED
        BY <4>2, <4>3, Zenon
    <3>5. out = missed \union w..z
      BY <1>4, <2>2, <3>1, <3>4
    <3>6. ASSUME NEW m \in 1..z, NoneHeldUp, seen[m].time >= seen[Len(seen)].time - WarWindowMs
          PROVE  m \in out
      <4>1. m \in 1..Len(seen) /\ m \in Nat /\ m =< z
        BY <1>1, <3>4
      <4>2. w =< m
        BY <3>3, <3>6, <4>1
      <4>3. m \in w..z
        BY <3>2, <4>1, <4>2
      <4> QED
        BY <3>5, <4>3
    <3> QED
      BY <2>2, <3>4, <3>6
  <2> QED
    BY <1>2, <2>1, <2>2
<1>6. Lists(z, d) /\ MarkOK(z, d) /\ UntilOK(z, d)
  BY <1>4, NewDetectorOK
<1>7. Trusted' => NoneHeldUp
  BY <1>2, <1>3 DEF Trusted, NoneHeldUp
<1>8. Trusted' /\ Len(seen) > 0 => Complete(z, d, out, seen[Len(seen)].time)
  BY <1>5, <1>7 DEF Complete
<1>9. det' = d /\ missed' = out
  BY <1>4
<1> QED
  BY <1>1, <1>2, <1>3, <1>5, <1>6, <1>8, <1>9, StillStep

\* _replay_into keeps the invariant: it observes what handle would.
LEMMA WarmStep ==
    ASSUME DetectorInv, Warm
    PROVE  DetectorInv'
<1>1. Len(seen) \in Nat /\ SeenOK /\ PlacesOK /\ DetectorOK /\ InOrderOK
  BY InvFacts
<1>2. /\ next =< Len(seen) /\ next' = next + 1 /\ missed' = missed /\ restarts' = restarts
      /\ det' = WarAbsorb(det, seen[next]) /\ seen' = seen /\ raised' = raised
  BY DEF Warm, ReplayNext, Replaying
<1>3. PICK n, d, g, out :
          /\ n \in Nat /\ n = next /\ n \in 1..Len(seen) /\ n - 1 \in Nat
          /\ d = det /\ g = det' /\ g = WarAbsorb(d, seen[n]) /\ out = missed
  BY <1>1, <1>2 DEF PlacesOK
<1>4. Lists(n - 1, d) /\ MarkOK(n - 1, d)
  BY <1>1, <1>3 DEF DetectorOK
<1>5. restarts # 0 /\ restarts \in Nat
  BY <1>1, <1>2 DEF PlacesOK
<1>6. /\ Lists(n, g) /\ MarkOK(n, g)
      /\ \A end \in Nat : seen[n].time =< end /\ Complete(n - 1, d, out, end) => Complete(n, g, out, end)
      /\ InOrder /\ UntilOK(n - 1, d) => UntilOK(n, g)
  BY <1>1, <1>3, <1>4, AbsorbKeeps, Zenon DEF AbsorbOK
<1>7. Trusted' => Trusted
  BY <1>2 DEF Trusted, NoneHeldUp
<1>8. ASSUME InOrder
      PROVE  UntilOK(n, g) /\ (Trusted' /\ Len(seen) > 0 => Complete(n, g, out, seen[Len(seen)].time))
  <2>1. UntilOK(n - 1, d) /\ (Trusted' /\ Len(seen) > 0 => Complete(n - 1, d, out, seen[Len(seen)].time))
    BY <1>1, <1>3, <1>8, <1>7 DEF InOrderOK
  <2>2. PICK l \in Nat : l = Len(seen) /\ l \in 1..Len(seen) /\ n =< l /\ Len(seen) > 0
    BY <1>1, <1>3
  <2>3. PICK end \in Nat : end = seen[l].time
    BY <1>1, <2>2, SeenFacts
  <2>4. seen[n].time =< end
    BY <1>3, <1>8, <2>2, <2>3 DEF InOrder
  <2>5. Trusted' => Complete(n, g, out, end)
    BY <1>6, <2>1, <2>2, <2>3, <2>4
  <2> QED
    BY <1>6, <1>8, <2>1, <2>2, <2>3, <2>5
<1>9. next' = n + 1 /\ n =< Len(seen) /\ det' = g /\ missed' = out
  BY <1>1, <1>2, <1>3
<1>10. restarts' \in Nat /\ restarts' # 0
  BY <1>2, <1>5
<1> QED
  BY <1>1, <1>2, <1>3, <1>6, <1>8, <1>9, <1>10, StillStep

\* What a replay that is cut short leaves out is missed.
LEMMA CutShortStep ==
    ASSUME DetectorInv, CutShort
    PROVE  DetectorInv'
<1>1. Len(seen) \in Nat /\ SeenOK /\ PlacesOK /\ DetectorOK /\ InOrderOK
  BY InvFacts
<1>2. /\ next =< Len(seen) /\ next' = Len(seen) + 1 /\ restarts' = restarts
      /\ missed' = missed \union next..Len(seen)
      /\ det' = det /\ seen' = seen /\ raised' = raised
  BY DEF CutShort, EndReplay, Replaying
<1>3. PICK y, z, d, old, out :
          /\ y \in Nat /\ y = next - 1 /\ z \in Nat /\ z = Len(seen) /\ y =< z /\ next = y + 1
          /\ d = det /\ old = missed /\ out = missed' /\ out = old \union (y + 1)..z
  <2>1. PICK y, z : y \in Nat /\ y = next - 1 /\ z \in Nat /\ z = Len(seen) /\ y =< z /\ next = y + 1
    BY <1>1, <1>2 DEF PlacesOK
  <2>2. missed' = missed \union (y + 1)..z
    BY <1>2, <2>1
  <2> QED
    BY <2>1, <2>2, Zenon
<1>4. Lists(y, d) /\ MarkOK(y, d)
  BY <1>1, <1>3 DEF DetectorOK
<1>5. restarts' \in Nat /\ restarts' # 0
  BY <1>1, <1>2 DEF PlacesOK
<1>6. \A m \in 1..y : m \in 1..z
  BY <1>3
<1>7. Lists(z, d) /\ MarkOK(z, d)
  <2>1. Lists(z, d)
    BY <1>3, <1>4, ListLater DEF Lists
  <2>2. MarkOK(z, d)
    BY <1>4, <1>6 DEF MarkOK
  <2> QED
    BY <2>1, <2>2
<1>8. Trusted' => Trusted
  BY <1>2 DEF Trusted, NoneHeldUp
<1>9. ASSUME InOrder
      PROVE  UntilOK(z, d) /\ (Trusted' /\ Len(seen) > 0 => Complete(z, d, out, seen[Len(seen)].time))
  <2>1. UntilOK(y, d) /\ (Trusted' /\ Len(seen) > 0 => Complete(y, d, old, seen[Len(seen)].time))
    BY <1>1, <1>3, <1>9, <1>8 DEF InOrderOK
  <2>2. UntilOK(z, d)
    BY <1>6, <2>1 DEF UntilOK
  <2>3. \A m \in 1..z : m \in 1..y \/ m \in out
    BY <1>3
  <2>4. \A m \in old : m \in out
    BY <1>3
  <2>5. Trusted' /\ Len(seen) > 0 => Complete(z, d, out, seen[Len(seen)].time)
    BY <2>1, <2>3, <2>4 DEF Complete
  <2> QED
    BY <2>2, <2>5
<1>10. next' = z + 1 /\ z =< Len(seen) /\ det' = d /\ missed' = out
  <2>1. next' = z + 1 /\ det' = d /\ missed' = out
    BY <1>2, <1>3, Zenon
  <2>2. z =< Len(seen)
    BY <1>3
  <2> QED
    BY <2>1, <2>2
<1> QED
  BY <1>1, <1>2, <1>3, <1>5, <1>7, <1>9, <1>10, StillStep

\* The inductive step.
LEMMA NextInv ==
    ASSUME DetectorInv, [Next]_vars
    PROVE  DetectorInv'
<1>1. ASSUME NEW e \in Edits, NEW t \in Times, NEW lag \in Lags,
             Feed(Message(Len(seen) + 1, e, t, lag))
      PROVE  DetectorInv'
  <2>1. PICK n, d, out : Fed(n, d, out)
    BY <1>1, FeedFacts
  <2> QED
    BY <2>1, FeedStep
<1>2. CASE Housekeeping
  BY <1>2, HousekeepingStep
<1>3. CASE NewOwner
  BY <1>3, NewOwnerStep
<1>4. CASE Warm
  BY <1>4, WarmStep
<1>5. CASE CutShort
  BY <1>5, CutShortStep
<1>6. CASE UNCHANGED vars
  <2>1. /\ det' = det /\ seen' = seen /\ raised' = raised
        /\ next' = next /\ missed' = missed /\ restarts' = restarts
    BY <1>6 DEF vars
  <2>2. Len(seen) \in Nat /\ SeenOK /\ PlacesOK /\ DetectorOK /\ InOrderOK
    BY InvFacts
  <2>3. PICK z, d, out : /\ z \in Nat /\ z = next - 1 /\ next = z + 1 /\ z =< Len(seen)
                         /\ d = det /\ out = missed
    BY <2>2 DEF PlacesOK
  <2>4. Lists(z, d) /\ MarkOK(z, d)
    BY <2>2, <2>3 DEF DetectorOK
  <2>5. restarts' \in Nat /\ (restarts' = 0 => z = Len(seen) /\ missed' = {})
    BY <2>1, <2>2, <2>3 DEF PlacesOK
  <2>6. Trusted' => Trusted
    BY <2>1 DEF Trusted, NoneHeldUp
  <2>7. InOrder => /\ UntilOK(z, d)
                   /\ Trusted' /\ Len(seen) > 0 => Complete(z, d, out, seen[Len(seen)].time)
                   /\ restarts' = 0 => Known(z, d)
    BY <2>1, <2>2, <2>3, <2>6 DEF InOrderOK
  <2>8. next' = z + 1 /\ det' = d /\ missed' = out
    BY <2>1, <2>3
  <2> QED
    BY <2>1, <2>2, <2>3, <2>4, <2>5, <2>7, <2>8, StillStep
<1> QED
  BY <1>1, <1>2, <1>3, <1>4, <1>5, <1>6 DEF Next

\* The invariant holds.
LEMMA DetectorInvariant == Spec => []DetectorInv
<1>1. Init => DetectorInv
  BY InitInv
<1>2. DetectorInv /\ [Next]_vars => DetectorInv'
  BY NextInv
<1> QED
  BY <1>1, <1>2, PTL DEF Spec

-----------------------------------------------------------------------------
(***************************************************************************)
(* The properties.                                                         *)
(***************************************************************************)
\* A step hands over at most one alert, for the message it handles.
LEMMA StepAlerts ==
    ASSUME DetectorInv, [Next]_vars
    PROVE  \/ seen' = seen /\ raised' = raised /\ missed \subseteq missed' /\ (restarts' = 0 => restarts = 0)
           \/ \E n, d, out : Fed(n, d, out)
<1>1. restarts \in Nat
  BY InvFacts DEF PlacesOK
<1>2. ASSUME NEW e \in Edits, NEW t \in Times, NEW lag \in Lags,
             Feed(Message(Len(seen) + 1, e, t, lag))
      PROVE  \E n, d, out : Fed(n, d, out)
  BY <1>2, FeedFacts
<1>3. CASE Housekeeping
  BY <1>3 DEF Housekeeping
<1>4. CASE NewOwner
  BY <1>1, <1>4 DEF NewOwner, BeginReplay
<1>5. CASE Warm
  BY <1>5 DEF Warm, ReplayNext
<1>6. CASE CutShort
  BY <1>6 DEF CutShort, EndReplay
<1>7. CASE UNCHANGED vars
  BY <1>7 DEF vars
<1> QED
  BY <1>2, <1>3, <1>4, <1>5, <1>6, <1>7 DEF Next

\* What message n adds to the alerts.
LEMMA FedAlerts ==
    ASSUME NEW n, NEW d, NEW out, Fed(n, d, out)
    PROVE  /\ raised' = raised \union
                  (IF IsRevert(n)' /\ Raises(d, seen'[n])
                   THEN {[at |-> n, alert |-> AlertFor(d, seen'[n])]} ELSE {})
           /\ Alerted' = Alerted \union (IF IsRevert(n)' /\ Raises(d, seen'[n]) THEN {n} ELSE {})
<1>1. raised' = raised \union {[at |-> n, alert |-> a] : a \in Range(WarEmits(d, seen'[n]))}
  BY Zenon DEF Fed
<1>2. PICK E : E = Range(WarEmits(d, seen'[n]))
  OBVIOUS
<1>3. CASE IsRevert(n)' /\ Raises(d, seen'[n])
  <2>1. WarEmits(d, seen'[n]) = <<AlertFor(d, seen'[n])>>
    BY <1>3 DEF WarEmits, Alerts, IsRevert
  <2>2. E = {AlertFor(d, seen'[n])}
    BY <1>2, <2>1 DEF Range
  <2>3. raised' = raised \union {[at |-> n, alert |-> AlertFor(d, seen'[n])]}
    BY <1>1, <1>2, <2>2
  <2>4. Alerted' = Alerted \union {n}
    <3>1. PICK a : a = AlertFor(d, seen'[n])
      OBVIOUS
    <3>2. PICK x : x = [at |-> n, alert |-> a]
      OBVIOUS
    <3>3. x.at = n
      BY <3>2
    <3>4. raised' = raised \union {x}
      BY <2>3, <3>1, <3>2
    <3> QED
      BY <3>3, <3>4, Zenon DEF Alerted
  <2> QED
    BY <1>3, <2>3, <2>4
<1>4. CASE ~(IsRevert(n)' /\ Raises(d, seen'[n]))
  <2>1. WarEmits(d, seen'[n]) = <<>>
    BY <1>4 DEF WarEmits, Alerts, IsRevert, Raises
  <2>2. E = {}
    BY <1>2, <2>1 DEF Range
  <2>3. raised' = raised
    BY <1>1, <1>2, <2>2
  <2>4. Alerted' = Alerted
    BY <2>3 DEF Alerted
  <2> QED
    BY <1>4, <2>3, <2>4
<1> QED
  BY <1>3, <1>4

\* In a step that handles no message the rule says what it said.
LEMMA SameRule ==
    ASSUME SeenOK, seen' = seen
    PROVE  /\ LateMs' = LateMs
           /\ \A n \in 1..Len(seen) : (InWar(n)' <=> InWar(n)) /\ (StartsWar(n)' <=> StartsWar(n))
           /\ Starts' = Starts
<1>1. LateMs' = LateMs
  BY DEF LateMs
<1>2. PICK z \in Nat : z = Len(seen) /\ DOMAIN seen = 1..z
  BY DEF SeenOK
<1>3. ASSUME NEW n \in 1..z PROVE (InWar(n)' <=> InWar(n)) /\ (StartsWar(n)' <=> StartsWar(n))
  BY RuleKept
<1>4. Starts' = Starts
  BY <1>2, <1>3 DEF Starts
<1> QED
  BY <1>1, <1>2, <1>3, <1>4

\* handle's step: the rule for the messages before n, the new one, and its alert.
LEMMA FedRule ==
    ASSUME DetectorInv, DetectorInv', NEW n, NEW d, NEW out, Fed(n, d, out)
    PROVE  /\ \A m \in 1..Len(seen) : (InWar(m)' <=> InWar(m)) /\ (StartsWar(m)' <=> StartsWar(m))
           /\ Starts' = Starts \union (IF StartsWar(n)' THEN {n} ELSE {})
           /\ LateMs \in Nat /\ LateMs' \in Nat /\ LateMs =< LateMs'
           /\ LateMs' = 0 => InOrder'
<1>1. Grown /\ n \in Nat /\ n = Len(seen) + 1 /\ n = Len(seen')
  BY Zenon DEF Fed
<1>2. PICK z \in Nat : z = Len(seen) /\ DOMAIN seen = 1..z
  BY <1>1 DEF Grown, SeenOK
<1>3. DOMAIN seen' = 1..n
  BY <1>1 DEF Grown, SeenOK
<1>4. \A m \in 1..z : seen'[m] = seen[m]
  BY <1>1, <1>2 DEF Grown
<1>5. ASSUME NEW m \in 1..z PROVE (InWar(m)' <=> InWar(m)) /\ (StartsWar(m)' <=> StartsWar(m))
  BY <1>4, RuleKept
<1>6. \A m : m \in 1..n <=> m \in 1..z \/ m = n
  BY <1>1, <1>2
<1>7. Starts' = Starts \union (IF StartsWar(n)' THEN {n} ELSE {})
  BY <1>2, <1>3, <1>5, <1>6 DEF Starts
<1>8. LateMs \in Nat /\ LateMs' \in Nat /\ LateMs =< LateMs'
  BY <1>1, LateGrows
<1>9. LateOK'
  BY LateRight, PTL
<1>10. LateMs' = 0 => InOrder'
  BY <1>1, <1>9 DEF LateOK, Grown
<1> QED
  BY <1>2, <1>5, <1>7, <1>8, <1>10

Extents == \A r \in raised : Extent(r.alert)

\* "A page is flagged when it collects min_reverts reverts inside window_ms": the
\* reverts that observe puts in an alert are no further apart than the window and
\* what messages came late by, whatever was replayed or expired before.
THEOREM AlertsInsideWindow == Spec => []InsideWindow
<1>1. Init => Extents
  BY DEF Init, Extents
<1>2. ASSUME DetectorInv, DetectorInv', Extents, [Next]_vars
      PROVE  Extents'
  <2>1. CASE seen' = seen /\ raised' = raised
    <3>1. LateMs' = LateMs
      BY <2>1 DEF LateMs
    <3> QED
      BY <1>2, <2>1, <3>1 DEF Extents, Extent
  <2>2. ASSUME NEW n, NEW d, NEW out, Fed(n, d, out) PROVE Extents'
    <3>1. LateMs \in Nat /\ LateMs' \in Nat /\ LateMs =< LateMs'
      BY <1>2, <2>2, FedRule
    <3>2. PICK x : x = AlertFor(d, seen'[n])
      OBVIOUS
    <3>3. raised' = raised \/ (IsRevert(n)' /\ raised' = raised \union {[at |-> n, alert |-> x]})
      BY <2>2, <3>2, FedAlerts
    <3>4. IsRevert(n)' => Extent(x)'
      <4>1. AlertOK'
        BY AlertsRight, PTL
      <4>2. SeenOK' /\ n \in 1..Len(seen') /\ Lists(n - 1, d)' /\ MarkOK(n - 1, d)'
        <5>1. Grown /\ n \in Nat /\ n = Len(seen) + 1 /\ n = Len(seen') /\ Lists(n - 1, d)' /\ MarkOK(n - 1, d)'
          BY <2>2, Zenon DEF Fed
        <5>2. Len(seen) \in Nat
          BY <1>2, InvFacts
        <5> QED
          BY <5>1, <5>2 DEF Grown
      <4> QED
        BY <3>2, <4>1, <4>2, Zenon DEF AlertOK
    <3>5. ASSUME NEW r \in raised' PROVE Extent(r.alert)'
      <4>1. CASE r \in raised
        <5>1. PICK a : a = r.alert
          OBVIOUS
        <5>2. a.start \in Nat /\ a.end \in Nat /\ a.end - a.start =< WarWindowMs + LateMs
          BY <1>2, <4>1, <5>1 DEF Extents, Extent
        <5>3. a.end - a.start =< WarWindowMs + LateMs'
          BY <3>1, <5>2, DetectorAssumption
        <5> QED
          BY <5>1, <5>2, <5>3 DEF Extent
      <4>2. CASE r \notin raised
        BY <3>3, <3>4, <4>2
      <4> QED
        BY <4>1, <4>2
    <3> QED
      BY <3>5 DEF Extents
  <2> QED
    BY <1>2, <2>1, <2>2, StepAlerts
<1>3. Extents => InsideWindow
  BY DEF Extents, Extent, InsideWindow
<1> QED
  BY <1>1, <1>2, <1>3, DetectorInvariant, PTL DEF Spec

\* With messages in order, observe raises no alert but in a war by the rule, and with a
\* full window replayed by every owner it raises one at every revert that starts one:
\* the window that warm replays is enough history, if messages were stamped no further
\* apart than their events.
THEOREM NoWarIsMissed == Spec => []NoWarMissed
<1>1. Init => NoWarMissed
  <2>1. ASSUME Init PROVE Alerted = {} /\ Starts = {}
    BY <2>1 DEF Init, Alerted, Starts
  <2> QED
    BY <2>1 DEF NoWarMissed
<1>2. ASSUME DetectorInv, DetectorInv', NoWarMissed, [Next]_vars
      PROVE  NoWarMissed'
  <2>1. SeenOK /\ Len(seen) \in Nat /\ \A m \in Alerted : m \in 1..Len(seen)
    BY <1>2, InvFacts DEF PlacesOK, Alerted
  <2>2. CASE seen' = seen /\ raised' = raised /\ missed \subseteq missed'
    <3>1. /\ LateMs' = LateMs /\ Starts' = Starts
          /\ \A n \in 1..Len(seen) : InWar(n)' <=> InWar(n)
      BY <2>1, <2>2, SameRule
    <3>2. Alerted' = Alerted /\ (missed' = {} => missed = {}) /\ (NoneHeldUp' <=> NoneHeldUp)
      BY <2>2 DEF Alerted, NoneHeldUp
    <3> QED
      BY <1>2, <2>1, <3>1, <3>2 DEF NoWarMissed
  <2>3. ASSUME NEW n, NEW d, NEW out, Fed(n, d, out) PROVE NoWarMissed'
    <3>1. /\ Grown /\ n \in Nat /\ n = Len(seen) + 1 /\ n = Len(seen')
          /\ Lists(n - 1, d)' /\ MarkOK(n - 1, d)'
          /\ out = missed /\ missed' = out
          /\ InOrder' => UntilOK(n - 1, d)' /\ (Trusted' => Complete(n - 1, d, out, seen[n].time)')
      BY <2>3, Zenon DEF Fed
    <3>2. /\ \A m \in 1..Len(seen) : InWar(m)' <=> InWar(m)
          /\ Starts' = Starts \union (IF StartsWar(n)' THEN {n} ELSE {})
          /\ LateMs \in Nat /\ LateMs' \in Nat /\ LateMs =< LateMs'
          /\ LateMs' = 0 => InOrder'
      BY <1>2, <2>3, FedRule
    <3>3. Alerted' = Alerted \union (IF IsRevert(n)' /\ Raises(d, seen'[n]) THEN {n} ELSE {})
      BY <2>3, FedAlerts
    <3>4. /\ InOrder' /\ IsRevert(n)' /\ Raises(d, seen'[n]) => InWar(n)'
          /\ InOrder' /\ UntilOK(n - 1, d)' /\ Complete(n - 1, d, {}, seen[n].time)' /\ StartsWar(n)' =>
                 IsRevert(n)' /\ Raises(d, seen'[n])
      <4>1. AlertOK'
        BY AlertsRight, PTL
      <4>2. SeenOK' /\ n \in 1..Len(seen')
        BY <2>1, <3>1 DEF Grown
      <4> QED
        BY <3>1, <4>1, <4>2, Zenon DEF AlertOK
    <3>5. ASSUME LateMs' = 0
          PROVE  /\ \A m \in Alerted' : InWar(m)'
                 /\ missed' = {} /\ NoneHeldUp' => Starts' \subseteq Alerted'
      <4>1. LateMs = 0 /\ InOrder'
        BY <3>2, <3>5
      <4>2. (\A m \in Alerted : InWar(m)) /\ (missed = {} /\ NoneHeldUp => Starts \subseteq Alerted)
        BY <1>2, <4>1 DEF NoWarMissed
      <4>3. ASSUME NEW m \in Alerted' PROVE InWar(m)'
        BY <2>1, <3>2, <3>3, <3>4, <4>1, <4>2
      <4>4. ASSUME missed' = {}, NoneHeldUp' PROVE Starts' \subseteq Alerted'
        <5>1. StartsWar(n)' => IsRevert(n)' /\ Raises(d, seen'[n])
          <6>1. Trusted'
            BY <4>4 DEF Trusted
          <6> QED
            BY <3>1, <3>4, <4>1, <4>4, <6>1
        <5>2. Starts \subseteq Alerted
          <6>1. NoneHeldUp
            BY <3>1, <4>4, LateGrows
          <6> QED
            BY <3>1, <4>2, <4>4, <6>1
        <5> QED
          BY <3>2, <3>3, <5>1, <5>2
      <4> QED
        BY <4>3, <4>4
    <3> QED
      BY <3>5, Zenon DEF NoWarMissed
  <2> QED
    BY <1>2, <2>2, <2>3, StepAlerts
<1> QED
  BY <1>1, <1>2, DetectorInvariant, PTL DEF Spec

\* While a partition keeps its owner and messages come in order, observe raises exactly
\* one alert for each war, at the revert that starts it, whenever expire runs.
THEOREM OneAlertForEachWar == Spec => []OneAlertPerWar
<1>1. Init => OneAlertPerWar
  <2>1. ASSUME Init PROVE Alerted = {} /\ Starts = {}
    BY <2>1 DEF Init, Alerted, Starts
  <2> QED
    BY <2>1 DEF OneAlertPerWar
<1>2. ASSUME DetectorInv, DetectorInv', OneAlertPerWar, [Next]_vars
      PROVE  OneAlertPerWar'
  <2>1. SeenOK /\ Len(seen) \in Nat
    BY <1>2, InvFacts
  <2>2. CASE seen' = seen /\ raised' = raised /\ (restarts' = 0 => restarts = 0)
    <3>1. LateMs' = LateMs /\ Starts' = Starts
      BY <2>1, <2>2, SameRule
    <3>2. Alerted' = Alerted
      BY <2>2 DEF Alerted
    <3> QED
      BY <1>2, <2>2, <3>1, <3>2 DEF OneAlertPerWar
  <2>3. ASSUME NEW n, NEW d, NEW out, Fed(n, d, out) PROVE OneAlertPerWar'
    <3>1. /\ Grown /\ n \in Nat /\ n = Len(seen) + 1 /\ n = Len(seen')
          /\ Lists(n - 1, d)' /\ MarkOK(n - 1, d)' /\ restarts' = restarts
          /\ InOrder' => /\ UntilOK(n - 1, d)' /\ (Trusted' => Complete(n - 1, d, out, seen[n].time)')
                         /\ restarts = 0 => out = {} /\ Known(n - 1, d)'
      BY <2>3, Zenon DEF Fed
    <3>2. /\ Starts' = Starts \union (IF StartsWar(n)' THEN {n} ELSE {})
          /\ LateMs \in Nat /\ LateMs' \in Nat /\ LateMs =< LateMs'
          /\ LateMs' = 0 => InOrder'
      BY <1>2, <2>3, FedRule
    <3>3. Alerted' = Alerted \union (IF IsRevert(n)' /\ Raises(d, seen'[n]) THEN {n} ELSE {})
      BY <2>3, FedAlerts
    <3>4. InOrder' /\ UntilOK(n - 1, d)' /\ Complete(n - 1, d, {}, seen[n].time)' /\ Known(n - 1, d)' =>
              (StartsWar(n)' <=> IsRevert(n)' /\ Raises(d, seen'[n]))
      <4>1. AlertOK'
        BY AlertsRight, PTL
      <4>2. SeenOK' /\ n \in 1..Len(seen')
        BY <2>1, <3>1 DEF Grown
      <4> QED
        BY <3>1, <4>1, <4>2, Zenon DEF AlertOK
    <3>5. ASSUME restarts' = 0, LateMs' = 0 PROVE Alerted' = Starts'
      <4>1. LateMs = 0 /\ InOrder' /\ restarts = 0
        BY <3>1, <3>2, <3>5
      <4>2. Alerted = Starts
        BY <1>2, <4>1 DEF OneAlertPerWar
      <4>3. Trusted'
        BY <3>5 DEF Trusted
      <4>4. StartsWar(n)' <=> IsRevert(n)' /\ Raises(d, seen'[n])
        BY <3>1, <3>4, <4>1, <4>3
      <4> QED
        BY <3>2, <3>3, <4>2, <4>4
    <3> QED
      BY <3>5, Zenon DEF OneAlertPerWar
  <2> QED
    BY <1>2, <2>2, <2>3, StepAlerts
<1> QED
  BY <1>1, <1>2, DetectorInvariant, PTL DEF Spec
=============================================================================

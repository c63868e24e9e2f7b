----------------------------- MODULE PageProofs -----------------------------
(***************************************************************************)
(* Proofs about the page topic and the page store (PageTopic, PageStore),  *)
(* for any logs that meet the assumptions of PageTopic, any number of new  *)
(* owners and breaks.                                                      *)
(***************************************************************************)
EXTENDS PageStore, FiniteSetTheorems, WellFoundedInduction, TLAPS

(***************************************************************************)
(* The type invariant. TypeOK says what values variables have where they   *)
(* are used; Typed adds that they are functions, and that the topic holds  *)
(* records of the partition's messages.                                    *)
(***************************************************************************)
Records(p) == {PageLatest(Log[p][o]) : o \in DOMAIN Log[p]}

TopicTyped ==
    /\ committed \in [Partitions -> Nat]
    /\ stable \in [Partitions -> Nat]
    /\ blind \in [Partitions -> BOOLEAN]
    /\ DOMAIN topic = Partitions
    /\ DOMAIN guard = Partitions
    /\ \A p \in Partitions :
           /\ topic[p] \in Seq(Records(p))
           /\ committed[p] =< Len(Log[p])
           /\ stable[p] =< Len(topic[p])

StoreTyped ==
    /\ atEnd \in SUBSET Partitions
    /\ partitions \in {0, Cardinality(Partitions)}
    /\ following \in BOOLEAN
    /\ read \in [Partitions -> Nat]
    /\ caught \in [Partitions -> Nat]
    /\ \A p \in Partitions : read[p] =< stable[p]

Typed == TopicTyped /\ StoreTyped

(***************************************************************************)
(* What the topic and the guard know of a page.                            *)
(***************************************************************************)

\* The changes of a page among the first n messages of p, and the newest of some.
Changes(p, n, page) ==
    {o \in 1..n : Log[p][o].kind \in {"edit", "delete"} /\ Log[p][o].page = page}

Newest(p, o, changes) ==
    \A m \in changes :
        \/ Log[p][m].time < Log[p][o].time
        \/ Log[p][m].time = Log[p][o].time /\ m =< o

\* The records of a page in a topic t.
RecordsOf(t, page) == {n \in 1..Len(t) : t[n].page = page}

\* The last record of its page, and no other of it is of a later time.
LastOf(t, page, l) ==
    /\ l \in RecordsOf(t, page)
    /\ \A n \in RecordsOf(t, page) : n =< l /\ t[n].time =< t[l].time

\* The topic t shows the newest of the changes of a page.
ShowsNewest(p, page, changes, t) ==
    \/ changes = {} /\ RecordsOf(t, page) = {}
    \/ \E o \in changes : \E l \in RecordsOf(t, page) :
           Newest(p, o, changes) /\ LastOf(t, page, l) /\ t[l] = PageLatest(Log[p][o])

\* The guard g knows the time of the newest change, or the page is not in it and
\* every change is so old that a message that is still to come is newer.
Knows(p, page, changes, n, g) ==
    \/ /\ page \in DOMAIN g
       /\ \E o \in changes : Newest(p, o, changes) /\ g[page] = Log[p][o].time
    \/ page \notin DOMAIN g /\ changes = {}
    \/ /\ page \notin DOMAIN g
       /\ \E k \in 1..n : \A o \in changes : Log[p][k].time - Log[p][o].time > TombstoneMs

UpToDate(p, page) ==
    /\ ShowsNewest(p, page, Changes(p, committed[p], page), topic[p])
    /\ Knows(p, page, Changes(p, committed[p], page), committed[p], guard[p])

TopicInv ==
    \A p \in Partitions : ~blind[p] => \A page \in PagesOf(Log[p]) : UpToDate(p, page)

(***************************************************************************)
(* What the store has read of a page.                                      *)
(***************************************************************************)

\* What the first n records of a topic t show of a page.
Shown(t, n, page) == ShownBy(SubSeq(t, 1, n), page)

\* What a table holds of a page.
GotIn(table, page) == IF page \in DOMAIN table THEN table[page] ELSE Tombstone

\* With n records of t read and s stable ones: what the table holds is what was
\* read, or a later record of the page is still to come.
ReadUpTo(t, n, s, got, page) ==
    got = Shown(t, n, page) \/ \E m \in (n + 1)..s : t[m].page = page

\* What the table holds is a state that the page has had since the end was at c.
RecentSince(t, c, s, got, page) == \E n \in c..s : got = Shown(t, n, page)

StoreInv ==
    \A p \in Partitions :
        /\ p \in atEnd => caught[p] =< read[p]
        /\ \A page \in PagesOf(Log[p]) :
               /\ ReadUpTo(topic[p], read[p], stable[p], GotIn(pages, page), page)
               /\ p \in atEnd =>
                      RecentSince(topic[p], caught[p], stable[p], GotIn(pages, page), page)

-----------------------------------------------------------------------------
(***************************************************************************)
(* Facts about the largest of some numbers and about what records show.    *)
(***************************************************************************)

\* Max finds the largest number when there is one.
LEMMA MaxIs ==
    ASSUME NEW S \in SUBSET Int, NEW l \in S, \A k \in S : k =< l
    PROVE  Max(S) = l
<1>1. \A y \in S : l >= y
  OBVIOUS
<1>2. \A x \in S : (\A y \in S : x >= y) => x = l
  OBVIOUS
<1> QED
  BY <1>1, <1>2 DEF Max

\* Some of the numbers up to n have a largest.
LEMMA LargestUpTo ==
    ASSUME NEW n \in Nat, NEW S \in SUBSET (1..n), S # {}
    PROVE  \E l \in S : \A k \in S : k =< l
<1>1. PICK T \in SUBSET Nat : T = {n - k : k \in S}
  <2>1. {n - k : k \in S} \in SUBSET Nat
    OBVIOUS
  <2> QED
    BY <2>1
<1>2. T # {}
  BY <1>1
<1>3. OpToRel(<, Nat) = {pair \in Nat \X Nat : pair[1] < pair[2]}
  BY DEF OpToRel
<1>4. IsWellFoundedOn({pair \in Nat \X Nat : pair[1] < pair[2]}, Nat)
  BY <1>3, NatLessThanWellFounded, Zenon
<1>5. PICK x \in T : \A y \in T : <<y, x>> \notin {pair \in Nat \X Nat : pair[1] < pair[2]}
  BY <1>2, <1>4, WFMin, Zenon
<1>6. ASSUME NEW y \in T PROVE x =< y
  <2>1. <<y, x>> \in Nat \X Nat /\ <<y, x>>[1] = y /\ <<y, x>>[2] = x
    OBVIOUS
  <2>2. ~(y < x)
    BY <2>1, <1>5, Zenon
  <2> QED
    BY <2>2
<1>7. PICK l \in S : x = n - l
  BY <1>1
<1>8. ASSUME NEW k \in S PROVE k =< l
  <2>1. n - k \in T
    BY <1>1
  <2>2. n - l =< n - k
    BY <1>6, <1>7, <2>1
  <2> QED
    BY <2>2
<1> QED
  BY <1>8

\* The first n records of a sequence.
LEMMA Prefix ==
    ASSUME NEW R, NEW t \in Seq(R), NEW n \in 0..Len(t)
    PROVE  /\ DOMAIN SubSeq(t, 1, n) = 1..n
           /\ \A k \in 1..n : SubSeq(t, 1, n)[k] = t[k]
OBVIOUS

\* Records without the page show nothing of it.
LEMMA ShownNone ==
    ASSUME NEW R, NEW t \in Seq(R), NEW n \in 0..Len(t), NEW page,
           \A k \in 1..n : t[k].page # page
    PROVE  Shown(t, n, page) = Tombstone
<1>1. PICK u : u = SubSeq(t, 1, n)
  OBVIOUS
<1>2. DOMAIN u = 1..n /\ \A k \in 1..n : u[k] = t[k]
  BY <1>1, Prefix
<1>3. {k \in DOMAIN u : u[k].page = page} = {}
  BY <1>2
<1>4. ShownBy(u, page) = Tombstone
  BY <1>3, Zenon DEF ShownBy
<1> QED
  BY <1>1, <1>4, Zenon DEF Shown

\* Otherwise the last one of the page counts.
LEMMA ShownLast ==
    ASSUME NEW R, NEW t \in Seq(R), NEW n \in 0..Len(t), NEW page,
           NEW l \in 1..n, t[l].page = page, \A k \in (l + 1)..n : t[k].page # page
    PROVE  Shown(t, n, page) = t[l].shows
<1>1. PICK u : u = SubSeq(t, 1, n)
  OBVIOUS
<1>2. DOMAIN u = 1..n /\ \A k \in 1..n : u[k] = t[k]
  BY <1>1, Prefix
<1>3. PICK S : S = {k \in DOMAIN u : u[k].page = page}
  OBVIOUS
<1>4. S \in SUBSET (1..n) /\ l \in S
  BY <1>2, <1>3
<1>5. \A k \in S : k =< l
  <2> SUFFICES ASSUME NEW k \in S, ~(k =< l) PROVE FALSE
    OBVIOUS
  <2>1. k \in (l + 1)..n
    BY <1>4
  <2>2. t[k].page = page
    BY <1>2, <1>3, <1>4
  <2> QED
    BY <2>1, <2>2
<1>6. S \in SUBSET Int
  BY <1>4
<1>7. Max(S) = l
  BY <1>4, <1>5, <1>6, MaxIs
<1>8. ShownBy(u, page) = u[l].shows
  BY <1>3, <1>4, <1>7 DEF ShownBy
<1> QED
  BY <1>1, <1>2, <1>8 DEF Shown

\* A page is shown by its last record, or it has none.
LEMMA ShownCases ==
    ASSUME NEW R, NEW t \in Seq(R), NEW n \in 0..Len(t), NEW page
    PROVE  \/ \A k \in 1..n : t[k].page # page
           \/ \E l \in 1..n : t[l].page = page /\ \A k \in (l + 1)..n : t[k].page # page
<1>1. PICK S \in SUBSET (1..n) : S = {k \in 1..n : t[k].page = page}
  OBVIOUS
<1>2. CASE S = {}
  BY <1>1, <1>2
<1>3. CASE S # {}
  <2>1. n \in Nat
    OBVIOUS
  <2>2. PICK l \in S : \A k \in S : k =< l
    BY <1>3, <2>1, LargestUpTo
  <2>3. ASSUME NEW k \in (l + 1)..n PROVE t[k].page # page
    <3>1. k \in 1..n /\ ~(k =< l)
      OBVIOUS
    <3> QED
      BY <1>1, <2>2, <3>1
  <2> QED
    BY <1>1, <2>3
<1> QED
  BY <1>2, <1>3

\* What is shown depends on the records there are only.
LEMMA ShownSame ==
    ASSUME NEW R, NEW t \in Seq(R), NEW n \in 0..Len(t), NEW page,
           NEW u \in Seq(R), n =< Len(u), \A k \in 1..n : u[k] = t[k]
    PROVE  Shown(u, n, page) = Shown(t, n, page)
<1>1. n \in 0..Len(u)
  OBVIOUS
<1>2. CASE \A k \in 1..n : t[k].page # page
  <2>1. \A k \in 1..n : u[k].page # page
    BY <1>2
  <2> QED
    BY <1>1, <1>2, <2>1, ShownNone
<1>3. ASSUME NEW l \in 1..n, t[l].page = page, \A k \in (l + 1)..n : t[k].page # page
      PROVE  Shown(u, n, page) = Shown(t, n, page)
  <2>1. u[l] = t[l] /\ \A k \in (l + 1)..n : u[k].page # page
    BY <1>3
  <2>2. Shown(t, n, page) = t[l].shows
    BY <1>3, ShownLast
  <2>3. Shown(u, n, page) = u[l].shows
    BY <1>1, <1>3, <2>1, ShownLast
  <2> QED
    BY <2>1, <2>2, <2>3
<1> QED
  BY <1>2, <1>3, ShownCases

\* One record more changes what is shown of its page only.
LEMMA ShownStep ==
    ASSUME NEW R, NEW t \in Seq(R), NEW n \in Nat, n + 1 =< Len(t), NEW page
    PROVE  Shown(t, n + 1, page) =
               IF t[n + 1].page = page THEN t[n + 1].shows ELSE Shown(t, n, page)
<1>1. n \in 0..Len(t) /\ n + 1 \in 0..Len(t) /\ n + 1 \in 1..(n + 1)
  OBVIOUS
<1>2. CASE t[n + 1].page = page
  <2>1. \A k \in ((n + 1) + 1)..(n + 1) : t[k].page # page
    OBVIOUS
  <2>2. Shown(t, n + 1, page) = t[n + 1].shows
    BY <1>1, <1>2, <2>1, ShownLast
  <2> QED
    BY <1>2, <2>2
<1>3. CASE t[n + 1].page # page
  <2>1. CASE \A k \in 1..n : t[k].page # page
    <3>1. \A k \in 1..(n + 1) : t[k].page # page
      BY <1>3, <2>1
    <3>2. Shown(t, n + 1, page) = Tombstone /\ Shown(t, n, page) = Tombstone
      BY <1>1, <2>1, <3>1, ShownNone
    <3> QED
      BY <1>3, <3>2
  <2>2. ASSUME NEW l \in 1..n, t[l].page = page, \A k \in (l + 1)..n : t[k].page # page
        PROVE  Shown(t, n + 1, page) = Shown(t, n, page)
    <3>1. l \in 1..(n + 1) /\ \A k \in (l + 1)..(n + 1) : t[k].page # page
      BY <1>3, <2>2
    <3>2. Shown(t, n, page) = t[l].shows
      BY <1>1, <2>2, ShownLast
    <3>3. Shown(t, n + 1, page) = t[l].shows
      BY <1>1, <2>2, <3>1, ShownLast
    <3> QED
      BY <3>2, <3>3
  <2> QED
    BY <1>1, <1>3, <2>1, <2>2, ShownCases
<1> QED
  BY <1>2, <1>3

-----------------------------------------------------------------------------
(***************************************************************************)
(* Type correctness.                                                       *)
(***************************************************************************)

\* A record is of a page of its partition and of a time.
LEMMA RecordFacts ==
    ASSUME NEW p \in Partitions, NEW r \in Records(p)
    PROVE  r.page \in PagesOf(Log[p]) /\ r.time \in Nat
BY TopicAssumption DEF Records, PageLatest, PagesOf

\* The log of a partition.
LEMMA LogFacts ==
    ASSUME NEW p \in Partitions
    PROVE  Len(Log[p]) \in Nat /\ DOMAIN Log[p] = 1..Len(Log[p])
BY TopicAssumption

\* What readers of the topic rely on: records are only added, and what is stable
\* stays so.
Grows ==
    \A q \in Partitions :
        /\ topic'[q] \in Seq(Records(q))
        /\ Len(topic[q]) =< Len(topic'[q])
        /\ \A k \in 1..Len(topic[q]) : topic'[q][k] = topic[q][k]
        /\ stable'[q] \in Nat /\ stable[q] =< stable'[q] /\ stable'[q] =< Len(topic'[q])

\* handle adds the record of the message, or none.
LEMMA HandleEmits ==
    ASSUME TopicTyped, NEW p \in Partitions, Handle(p)
    PROVE  \E e \in Seq(Records(p)) :
               /\ e = PageEmits(guard[p], Log[p][committed[p] + 1])
               /\ topic' = [topic EXCEPT ![p] = topic[p] \o e]
               /\ topic[p] \o e \in Seq(Records(p))
               /\ Len(topic[p] \o e) = Len(topic[p]) + Len(e)
               /\ \A k \in 1..Len(topic[p]) : (topic[p] \o e)[k] = topic[p][k]
<1>1. PICK msg : msg = Log[p][committed[p] + 1]
  OBVIOUS
<1>2. committed[p] + 1 \in DOMAIN Log[p]
  BY LogFacts DEF TopicTyped, Handle
<1>3. PageLatest(msg) \in Records(p)
  BY <1>1, <1>2 DEF Records
<1>4. PICK e : e = PageEmits(guard[p], msg)
  OBVIOUS
<1>5. e \in Seq(Records(p))
  <2>1. e = <<PageLatest(msg)>> \/ e = <<>>
    BY <1>4, Zenon DEF PageEmits
  <2>2. PICK R, r : R = Records(p) /\ r = PageLatest(msg)
    OBVIOUS
  <2>3. r \in R /\ (e = <<r>> \/ e = <<>>)
    BY <1>3, <2>1, <2>2, Zenon
  <2>4. <<>> \in Seq(R)
    OBVIOUS
  <2>5. <<r>> \in Seq(R)
    BY <2>3
  <2> QED
    BY <2>2, <2>3, <2>4, <2>5, Zenon
<1>6. topic[p] \in Seq(Records(p))
  BY DEF TopicTyped
<1>7. /\ topic[p] \o e \in Seq(Records(p))
      /\ Len(topic[p] \o e) = Len(topic[p]) + Len(e)
      /\ \A k \in 1..Len(topic[p]) : (topic[p] \o e)[k] = topic[p][k]
  BY <1>5, <1>6
<1>8. topic' = [topic EXCEPT ![p] = topic[p] \o e]
  BY <1>1, <1>4, Zenon DEF Handle
<1> QED
  BY <1>1, <1>4, <1>5, <1>7, <1>8

\* handle and its commit keep the types.
LEMMA HandleTyped ==
    ASSUME TopicTyped, NEW p \in Partitions, Handle(p)
    PROVE  TopicTyped' /\ Grows
<1>1. PICK e \in Seq(Records(p)) :
          /\ topic' = [topic EXCEPT ![p] = topic[p] \o e]
          /\ topic[p] \o e \in Seq(Records(p))
          /\ Len(topic[p] \o e) = Len(topic[p]) + Len(e)
          /\ \A k \in 1..Len(topic[p]) : (topic[p] \o e)[k] = topic[p][k]
  BY HandleEmits
<1>2. PICK t : t = topic[p] \o e
  OBVIOUS
<1>3. /\ topic' = [topic EXCEPT ![p] = t] /\ t \in Seq(Records(p))
      /\ Len(topic[p]) \in Nat /\ Len(t) \in Nat /\ Len(topic[p]) =< Len(t)
      /\ \A k \in 1..Len(topic[p]) : t[k] = topic[p][k]
  <2>1. topic[p] \in Seq(Records(p))
    BY DEF TopicTyped
  <2>2. Len(topic[p]) \in Nat /\ Len(e) \in Nat
    BY <2>1
  <2> QED
    BY <1>1, <1>2, <2>2
<1>4. DOMAIN topic = Partitions
  BY DEF TopicTyped
<1>5. topic'[p] = t /\ \A q \in Partitions \ {p} : topic'[q] = topic[q]
  BY <1>3, <1>4
<1>6. \A q \in Partitions : topic[q] \in Seq(Records(q)) /\ Len(topic[q]) \in Nat
  BY DEF TopicTyped
<1>7. stable' \in [Partitions -> Nat]
      /\ \A q \in Partitions : stable'[q] = stable[q] \/ (q = p /\ stable'[q] = Len(t))
  <2>1. stable' \in {stable, [stable EXCEPT ![p] = Len(t)]}
    BY <1>5 DEF Handle
  <2>2. stable \in [Partitions -> Nat]
    BY DEF TopicTyped
  <2> QED
    BY <1>3, <2>1, <2>2
<1>8. Grows
  <2> SUFFICES ASSUME NEW q \in Partitions
               PROVE  /\ topic'[q] \in Seq(Records(q))
                      /\ Len(topic[q]) =< Len(topic'[q])
                      /\ \A k \in 1..Len(topic[q]) : topic'[q][k] = topic[q][k]
                      /\ stable'[q] \in Nat /\ stable[q] =< stable'[q]
                      /\ stable'[q] =< Len(topic'[q])
    BY DEF Grows
  <2>1. stable[q] \in Nat /\ stable[q] =< Len(topic[q])
    BY DEF TopicTyped
  <2>2. CASE q = p
    BY <1>3, <1>5, <1>7, <2>1, <2>2
  <2>3. CASE q # p
    BY <1>5, <1>6, <1>7, <2>1, <2>3
  <2> QED
    BY <2>2, <2>3
<1>9. committed' \in [Partitions -> Nat] /\ \A q \in Partitions : committed'[q] =< Len(Log[q])
  <2>1. Len(Log[p]) \in Nat /\ committed \in [Partitions -> Nat]
    BY LogFacts DEF TopicTyped
  <2>2. \A q \in Partitions : committed[q] =< Len(Log[q])
    BY DEF TopicTyped
  <2> QED
    BY <2>1, <2>2 DEF Handle
<1>10. DOMAIN topic' = Partitions /\ DOMAIN guard' = Partitions
  BY <1>3 DEF Handle, TopicTyped
<1>11. blind' \in [Partitions -> BOOLEAN]
  BY DEF Handle, TopicTyped
<1> QED
  BY <1>7, <1>8, <1>9, <1>10, <1>11 DEF TopicTyped, Grows

\* So does the marker.
LEMMA WriteMarkerTyped ==
    ASSUME TopicTyped, NEW p \in Partitions, WriteMarker(p)
    PROVE  TopicTyped' /\ Grows
<1>1. \A q \in Partitions : topic[q] \in Seq(Records(q)) /\ Len(topic[q]) \in Nat
  BY DEF TopicTyped
<1>2. UNCHANGED <<committed, topic, guard, blind>>
  BY DEF WriteMarker
<1>3. stable' \in [Partitions -> Nat]
      /\ \A q \in Partitions : stable'[q] = stable[q] \/ (q = p /\ stable'[q] = Len(topic[q]))
  BY <1>1 DEF WriteMarker, TopicTyped
<1>4. \A q \in Partitions : stable[q] \in Nat /\ stable[q] =< Len(topic[q])
  BY DEF TopicTyped
<1>5. \A q \in Partitions : stable[q] =< stable'[q] /\ stable'[q] =< Len(topic[q])
  BY <1>1, <1>3, <1>4
<1>6. Grows
  BY <1>1, <1>2, <1>3, <1>5 DEF Grows
<1>7. TopicTyped'
  BY <1>1, <1>2, <1>3, <1>5 DEF TopicTyped
<1> QED
  BY <1>6, <1>7

\* And a new owner.
LEMMA NewOwnerTyped ==
    ASSUME TopicTyped, NEW p \in Partitions, NewOwner(p)
    PROVE  TopicTyped' /\ Grows
<1>1. \A q \in Partitions : topic[q] \in Seq(Records(q)) /\ Len(topic[q]) \in Nat
  BY DEF TopicTyped
<1>2. UNCHANGED <<committed, topic, stable>>
  BY DEF NewOwner
<1>3. \A q \in Partitions : stable[q] \in Nat /\ stable[q] =< Len(topic[q])
  BY DEF TopicTyped
<1>4. Grows
  BY <1>1, <1>2, <1>3 DEF Grows
<1>5. PICK until, gone :
          /\ until \in 0..stable[p] /\ gone \in Compactions(p)
          /\ guard' = [guard EXCEPT ![p] =
                          PageRestore(@, p, committed[p], Restrict(topic[p], (1..until) \ gone))]
          /\ blind' = [blind EXCEPT ![p] = @ \/ until < Len(topic[p])]
  BY Zenon DEF NewOwner
<1>6. DOMAIN guard' = Partitions
  BY <1>5 DEF TopicTyped
<1>7. blind' \in [Partitions -> BOOLEAN]
  <2>1. blind \in [Partitions -> BOOLEAN]
    BY DEF TopicTyped
  <2>2. (blind[p] \/ until < Len(topic[p])) \in BOOLEAN
    OBVIOUS
  <2> QED
    BY <1>5, <2>1, <2>2, Zenon
<1>8. TopicTyped'
  BY <1>2, <1>6, <1>7 DEF TopicTyped
<1> QED
  BY <1>4, <1>8

\* Steps of the topic leave the store's types as they are.
LEMMA GrowsTyped ==
    ASSUME Typed, Grows, UNCHANGED storeVars
    PROVE  StoreTyped'
<1>1. UNCHANGED <<pages, atEnd, partitions, read, following, breaks, caught>>
  BY DEF storeVars
<1>2. \A q \in Partitions : read[q] =< stable'[q]
  <2> SUFFICES ASSUME NEW q \in Partitions PROVE read[q] =< stable'[q]
    OBVIOUS
  <2>1. /\ read[q] \in Nat /\ stable[q] \in Nat /\ stable'[q] \in Nat
        /\ read[q] =< stable[q] /\ stable[q] =< stable'[q]
    BY DEF Typed, TopicTyped, StoreTyped, Grows
  <2> QED
    BY <2>1
<1> QED
  BY <1>1, <1>2 DEF Typed, StoreTyped

\* Steps of the store.
LEMMA StoreStepTyped ==
    ASSUME Typed, StoreStep \/ Break
    PROVE  Typed' /\ UNCHANGED topicVars
<1>1. UNCHANGED topicVars
  BY DEF StoreStep, Break, Follow, Read, Skip, Eof
<1>2. UNCHANGED <<committed, topic, stable, guard, blind, moves>>
  BY <1>1 DEF topicVars
<1>3. TopicTyped'
  BY <1>2 DEF Typed, TopicTyped
<1>4. ASSUME Follow PROVE StoreTyped'
  BY <1>2, <1>4 DEF Follow, Typed, TopicTyped, StoreTyped, Forgotten
<1>5. ASSUME Break PROVE StoreTyped'
  <2>1. following' \in BOOLEAN
    BY <1>5 DEF Break
  <2>2. UNCHANGED <<atEnd, partitions, read, caught, stable>>
    BY <1>2, <1>5 DEF Break
  <2> QED
    BY <2>1, <2>2, Zenon DEF Typed, StoreTyped
<1>6. ASSUME NEW p \in Partitions, Read(p) \/ Skip(p) PROVE StoreTyped'
  <2>1. read' = [read EXCEPT ![p] = @ + 1] /\ read[p] < stable[p]
        /\ UNCHANGED <<atEnd, partitions, following, caught>>
    BY <1>6 DEF Read, Skip, Readable
  <2>2. stable[p] \in Nat /\ read[p] \in Nat
    BY DEF Typed, TopicTyped, StoreTyped
  <2> QED
    BY <1>2, <2>1, <2>2 DEF Typed, StoreTyped
<1>7. ASSUME NEW p \in Partitions, Eof(p) PROVE StoreTyped'
  BY <1>2, <1>7 DEF Eof, Typed, StoreTyped
<1> QED
  BY <1>1, <1>3, <1>4, <1>5, <1>6, <1>7 DEF StoreStep, Typed

\* Initially the types are right.
LEMMA TypeInit == Init => Typed
<1> SUFFICES ASSUME Init PROVE Typed
  OBVIOUS
<1>1. ASSUME NEW p \in Partitions
      PROVE  topic[p] \in Seq(Records(p)) /\ committed[p] =< Len(Log[p])
             /\ stable[p] =< Len(topic[p])
  <2>1. topic[p] = <<>> /\ committed[p] = 0 /\ stable[p] = 0 /\ Len(Log[p]) \in Nat
    BY LogFacts DEF Init, TopicInit
  <2> QED
    BY <2>1
<1>2. blind \in [Partitions -> BOOLEAN]
  BY DEF Init, TopicInit
<1>3. TopicTyped
  BY <1>1, <1>2 DEF Init, TopicInit, TopicTyped
<1>4. following \in BOOLEAN
  BY DEF Init
<1>5. StoreTyped
  <2>1. \A p \in Partitions : read[p] = 0 /\ stable[p] = 0
    BY DEF Init, TopicInit
  <2>2. read \in [Partitions -> Nat] /\ caught \in [Partitions -> Nat]
    BY DEF Init
  <2>3. \A p \in Partitions : read[p] =< stable[p]
    BY <2>1
  <2>4. atEnd \in SUBSET Partitions /\ partitions \in {0, Cardinality(Partitions)}
    BY DEF Init
  <2> QED
    BY <1>4, <2>2, <2>3, <2>4, Zenon DEF StoreTyped
<1> QED
  BY <1>3, <1>5 DEF Typed

\* Every step keeps the types; those of the topic only add to it.
LEMMA TypeStep ==
    ASSUME Typed, [Next]_vars
    PROVE  Typed'
<1>1. ASSUME NEW p \in Partitions, TopicStep(p) \/ NewOwner(p), UNCHANGED storeVars
      PROVE  Typed'
  BY <1>1, HandleTyped, WriteMarkerTyped, NewOwnerTyped, GrowsTyped DEF Typed, TopicStep
<1>2. CASE StoreStep \/ Break
  BY <1>2, StoreStepTyped
<1>3. CASE UNCHANGED vars
  BY <1>3 DEF vars, topicVars, storeVars, Typed, TopicTyped, StoreTyped
<1> QED
  BY <1>1, <1>2, <1>3 DEF Next

\* The type invariant.
THEOREM TypeCorrect == Spec => []TypeOK
<1>1. Typed => TypeOK
  BY LogFacts DEF Typed, TopicTyped, StoreTyped, TypeOK
<1>2. Typed /\ [Next]_vars => Typed'
  BY TypeStep
<1> QED
  BY <1>1, <1>2, TypeInit, PTL DEF Spec

-----------------------------------------------------------------------------
(***************************************************************************)
(* The store. First of one partition and one page.                         *)
(***************************************************************************)

\* apply changes what the table holds of the record's page only.
LEMMA AppliedGot ==
    ASSUME NEW table, NEW r, NEW page
    PROVE  GotIn(Applied(table, r), page) =
               IF page = r.page THEN r.shows ELSE GotIn(table, page)
<1>1. CASE r.shows = Tombstone
  <2>1. Applied(table, r) = [k \in DOMAIN table \ {r.page} |-> table[k]]
    BY <1>1 DEF Applied, Restrict
  <2> QED
    BY <1>1, <2>1 DEF GotIn
<1>2. CASE r.shows # Tombstone
  <2>1. Applied(table, r) = [k \in DOMAIN table \union {r.page} |->
                                IF k = r.page THEN r.shows ELSE table[k]]
    BY <1>2 DEF Applied
  <2> QED
    BY <2>1 DEF GotIn
<1> QED
  BY <1>1, <1>2

\* Records that are added do not matter to what was read and shown.
LEMMA AddedRecords ==
    ASSUME NEW R, NEW t \in Seq(R), NEW u \in Seq(R), Len(t) =< Len(u),
           \A k \in 1..Len(t) : u[k] = t[k],
           NEW n \in Nat, NEW s \in Nat, NEW z \in Nat, n =< s, s =< Len(t), s =< z,
           NEW got, NEW page, ReadUpTo(t, n, s, got, page)
    PROVE  ReadUpTo(u, n, z, got, page)
<1>1. Len(t) \in Nat /\ Len(u) \in Nat
  OBVIOUS
<1>2. n \in 0..Len(t) /\ n =< Len(u) /\ \A k \in 1..n : u[k] = t[k]
  BY <1>1
<1>3. Shown(u, n, page) = Shown(t, n, page)
  BY <1>2, ShownSame
<1>4. ASSUME NEW m \in (n + 1)..s, t[m].page = page
      PROVE  m \in (n + 1)..z /\ u[m].page = page
  <2>1. m \in 1..Len(t) /\ m \in (n + 1)..z
    BY <1>1
  <2> QED
    BY <1>4, <2>1
<1> QED
  BY <1>3, <1>4 DEF ReadUpTo

LEMMA AddedSince ==
    ASSUME NEW R, NEW t \in Seq(R), NEW u \in Seq(R), Len(t) =< Len(u),
           \A k \in 1..Len(t) : u[k] = t[k],
           NEW c \in Nat, NEW s \in Nat, NEW z \in Nat, s =< Len(t), s =< z,
           NEW got, NEW page, RecentSince(t, c, s, got, page)
    PROVE  RecentSince(u, c, z, got, page)
<1>1. Len(t) \in Nat /\ Len(u) \in Nat
  OBVIOUS
<1>2. PICK n \in c..s : got = Shown(t, n, page)
  BY DEF RecentSince
<1>3. n \in 0..Len(t) /\ n =< Len(u) /\ \A k \in 1..n : u[k] = t[k]
  BY <1>1
<1>4. Shown(u, n, page) = Shown(t, n, page)
  BY <1>3, ShownSame
<1>5. n \in c..z
  OBVIOUS
<1> QED
  BY <1>2, <1>4, <1>5 DEF RecentSince

\* A record is read: the table holds what it shows, and that is recent.
LEMMA RecordRead ==
    ASSUME NEW R, NEW t \in Seq(R), NEW n \in Nat, NEW s \in Nat, n < s, s =< Len(t),
           NEW got, NEW page, ReadUpTo(t, n, s, got, page),
           NEW new, new = IF page = t[n + 1].page THEN t[n + 1].shows ELSE got
    PROVE  ReadUpTo(t, n + 1, s, new, page)
<1>1. Len(t) \in Nat /\ n + 1 =< Len(t)
  OBVIOUS
<1>2. Shown(t, n + 1, page) = IF t[n + 1].page = page THEN t[n + 1].shows ELSE Shown(t, n, page)
  BY <1>1, ShownStep
<1>3. CASE page = t[n + 1].page
  BY <1>2, <1>3 DEF ReadUpTo
<1>4. CASE page # t[n + 1].page
  <2>1. CASE got = Shown(t, n, page)
    BY <1>2, <1>4, <2>1 DEF ReadUpTo
  <2>2. ASSUME NEW m \in (n + 1)..s, t[m].page = page
        PROVE  ReadUpTo(t, n + 1, s, new, page)
    <3>1. m # n + 1
      BY <1>4, <2>2
    <3>2. m \in ((n + 1) + 1)..s
      BY <3>1
    <3> QED
      BY <2>2, <3>2 DEF ReadUpTo
  <2> QED
    BY <2>1, <2>2 DEF ReadUpTo
<1> QED
  BY <1>3, <1>4

LEMMA ReadIsRecent ==
    ASSUME NEW R, NEW t \in Seq(R), NEW n \in Nat, NEW s \in Nat, n < s, s =< Len(t),
           NEW c \in Nat, c =< n, NEW got, NEW page, RecentSince(t, c, s, got, page),
           NEW new, new = IF page = t[n + 1].page THEN t[n + 1].shows ELSE got
    PROVE  RecentSince(t, c, s, new, page)
<1>1. CASE page = t[n + 1].page
  <2>1. Len(t) \in Nat /\ n + 1 =< Len(t)
    OBVIOUS
  <2>2. Shown(t, n + 1, page) = new
    BY <1>1, <2>1, ShownStep
  <2>3. n + 1 \in c..s
    OBVIOUS
  <2> QED
    BY <2>2, <2>3 DEF RecentSince
<1>2. CASE page # t[n + 1].page
  BY <1>2
<1> QED
  BY <1>1, <1>2

\* A record that is gone: another of its page is to come, or it was a tombstone
\* and the table does not have the page.
LEMMA RecordSkipped ==
    ASSUME NEW R, NEW t \in Seq(R), NEW n \in Nat, NEW s \in Nat, n < s, s =< Len(t),
           NEW got, NEW page, ReadUpTo(t, n, s, got, page),
           \/ \E m \in ((n + 1) + 1)..s : t[m].page = t[n + 1].page
           \/ t[n + 1].shows = Tombstone /\ (page = t[n + 1].page => got = Tombstone)
    PROVE  ReadUpTo(t, n + 1, s, got, page)
<1>1. CASE page # t[n + 1].page
  BY <1>1, RecordRead
<1>2. CASE page = t[n + 1].page /\ \E m \in ((n + 1) + 1)..s : t[m].page = t[n + 1].page
  BY <1>2 DEF ReadUpTo
<1>3. CASE page = t[n + 1].page /\ t[n + 1].shows = Tombstone /\ got = Tombstone
  BY <1>3, RecordRead
<1> QED
  BY <1>1, <1>2, <1>3

\* Now of the whole store. The topic grows.
LEMMA StoreGrows ==
    ASSUME Typed, StoreInv, Grows, UNCHANGED storeVars
    PROVE  StoreInv'
<1>1. UNCHANGED <<pages, atEnd, partitions, read, following, breaks, caught>>
  BY DEF storeVars
<1>2. ASSUME NEW p \in Partitions
      PROVE  /\ p \in atEnd => caught[p] =< read[p]
             /\ \A page \in PagesOf(Log[p]) :
                    /\ ReadUpTo(topic'[p], read[p], stable'[p], GotIn(pages, page), page)
                    /\ p \in atEnd =>
                          RecentSince(topic'[p], caught[p], stable'[p], GotIn(pages, page), page)
  <2>1. PICK R, t, u, n, s, z, c :
            /\ R = Records(p) /\ t = topic[p] /\ u = topic'[p]
            /\ n = read[p] /\ s = stable[p] /\ z = stable'[p] /\ c = caught[p]
    OBVIOUS
  <2>2. t \in Seq(R) /\ u \in Seq(R) /\ Len(t) =< Len(u) /\ \A k \in 1..Len(t) : u[k] = t[k]
    BY <2>1 DEF Typed, TopicTyped, Grows
  <2>3. n \in Nat /\ s \in Nat /\ z \in Nat /\ c \in Nat /\ n =< s /\ s =< Len(t) /\ s =< z
    BY <2>1 DEF Typed, TopicTyped, StoreTyped, Grows
  <2>4. p \in atEnd => caught[p] =< read[p]
    BY DEF StoreInv
  <2>5. ASSUME NEW page \in PagesOf(Log[p])
        PROVE  /\ ReadUpTo(u, n, z, GotIn(pages, page), page)
               /\ p \in atEnd => RecentSince(u, c, z, GotIn(pages, page), page)
    <3>1. PICK got : got = GotIn(pages, page)
      OBVIOUS
    <3>2. ReadUpTo(t, n, s, got, page) /\ (p \in atEnd => RecentSince(t, c, s, got, page))
      BY <2>1, <3>1, Zenon DEF StoreInv
    <3>3. ReadUpTo(u, n, z, got, page)
      BY <2>2, <2>3, <3>2, AddedRecords
    <3>4. p \in atEnd => RecentSince(u, c, z, got, page)
      BY <2>2, <2>3, <3>2, AddedSince
    <3> QED
      BY <3>1, <3>3, <3>4
  <2> QED
    BY <2>1, <2>4, <2>5, Zenon
<1> QED
  BY <1>1, <1>2, Zenon DEF StoreInv

\* A record of one partition is not of a page of another.
LEMMA OtherPages ==
    ASSUME Typed, NEW p \in Partitions, NEW q \in Partitions, p # q,
           NEW page \in PagesOf(Log[q]), NEW n \in 1..Len(topic[p])
    PROVE  page # topic[p][n].page
<1>1. topic[p] \in Seq(Records(p))
  BY DEF Typed, TopicTyped
<1>2. topic[p][n] \in Records(p)
  BY <1>1
<1>3. topic[p][n].page \in PagesOf(Log[p])
  BY <1>2, RecordFacts
<1> QED
  BY <1>3, TopicAssumption

\* _follow hands a record to apply, or does not get it.
LEMMA StoreReads ==
    ASSUME Typed, StoreInv, NEW p \in Partitions, Read(p) \/ Skip(p)
    PROVE  StoreInv'
<1>1. UNCHANGED <<committed, topic, stable, guard, blind, moves>>
      /\ UNCHANGED <<atEnd, partitions, following, breaks, caught>>
  BY DEF Read, Skip, topicVars
<1>2. PICK R, t, n, s : R = Records(p) /\ t = topic[p] /\ n = read[p] /\ s = stable[p]
  OBVIOUS
<1>3. t \in Seq(R) /\ n \in Nat /\ s \in Nat /\ n < s /\ s =< Len(t) /\ Len(t) \in Nat
  <2>1. t \in Seq(R) /\ n \in Nat /\ s \in Nat /\ n < s /\ s =< Len(t)
    BY <1>2 DEF Typed, TopicTyped, StoreTyped, Read, Skip, Readable
  <2> QED
    BY <2>1
<1>4. /\ read'[p] = n + 1
      /\ \A q \in Partitions \ {p} : read'[q] = read[q]
  BY <1>2 DEF Read, Skip, Typed, StoreTyped
<1>5. n + 1 \in 1..Len(t)
  BY <1>3
\* Other partitions.
<1>6. ASSUME NEW q \in Partitions, q # p, NEW page \in PagesOf(Log[q])
      PROVE  GotIn(pages', page) = GotIn(pages, page)
  <2>1. page # t[n + 1].page
    BY <1>2, <1>5, <1>6, OtherPages
  <2>2. CASE Read(p)
    <3>1. pages' = Applied(pages, t[n + 1])
      BY <1>2, <2>2 DEF Read
    <3> QED
      BY <2>1, <3>1, AppliedGot
  <2>3. CASE Skip(p)
    BY <2>3 DEF Skip
  <2> QED
    BY <2>2, <2>3
\* This one.
<1>7. ASSUME NEW page \in PagesOf(Log[p])
      PROVE  /\ ReadUpTo(t, n + 1, s, GotIn(pages', page), page)
             /\ p \in atEnd =>
                    RecentSince(t, caught[p], s, GotIn(pages', page), page)
  <2>1. PICK got, new, c : got = GotIn(pages, page) /\ new = GotIn(pages', page) /\ c = caught[p]
    OBVIOUS
  <2>2. /\ ReadUpTo(t, n, s, got, page)
        /\ p \in atEnd => c =< n /\ RecentSince(t, c, s, got, page)
    BY <1>2, <2>1, Zenon DEF StoreInv
  <2>3. c \in Nat
    BY <2>1 DEF Typed, StoreTyped
  <2>4. CASE Read(p)
    <3>1. new = IF page = t[n + 1].page THEN t[n + 1].shows ELSE got
      <4>1. pages' = Applied(pages, t[n + 1])
        BY <1>2, <2>4 DEF Read
      <4> QED
        BY <2>1, <4>1, AppliedGot
    <3>2. ReadUpTo(t, n + 1, s, new, page)
      BY <1>3, <2>2, <3>1, RecordRead
    <3>3. p \in atEnd => RecentSince(t, c, s, new, page)
      BY <1>3, <2>2, <2>3, <3>1, ReadIsRecent
    <3> QED
      BY <2>1, <3>2, <3>3
  <2>5. CASE Skip(p)
    <3>1. new = got
      BY <2>1, <2>5 DEF Skip
    <3>2. \/ \E m \in ((n + 1) + 1)..s : t[m].page = t[n + 1].page
          \/ t[n + 1].shows = Tombstone /\ t[n + 1].page \notin DOMAIN pages
      BY <1>2, <2>5 DEF Skip, Superseded, Aged
    <3>3. \/ \E m \in ((n + 1) + 1)..s : t[m].page = t[n + 1].page
          \/ t[n + 1].shows = Tombstone /\ (page = t[n + 1].page => got = Tombstone)
      BY <2>1, <3>2 DEF GotIn
    <3>4. ReadUpTo(t, n + 1, s, got, page)
      BY <1>3, <2>2, <3>3, RecordSkipped
    <3> QED
      BY <2>1, <2>2, <3>1, <3>4
  <2> QED
    BY <2>4, <2>5
<1>8. ASSUME NEW q \in Partitions
      PROVE  /\ q \in atEnd => caught[q] =< read'[q]
             /\ \A page \in PagesOf(Log[q]) :
                    /\ ReadUpTo(topic[q], read'[q], stable[q], GotIn(pages', page), page)
                    /\ q \in atEnd =>
                          RecentSince(topic[q], caught[q], stable[q], GotIn(pages', page), page)
  <2>1. CASE q = p
    <3>1. q \in atEnd => caught[q] =< read'[q]
      <4>1. caught[p] \in Nat /\ (p \in atEnd => caught[p] =< read[p])
        BY DEF StoreInv, Typed, StoreTyped
      <4> QED
        BY <1>2, <1>3, <1>4, <2>1, <4>1
    <3> QED
      BY <1>2, <1>4, <1>7, <2>1, <3>1, Zenon
  <2>2. CASE q # p
    <3>1. read'[q] = read[q]
      BY <1>4, <2>2
    <3> QED
      BY <1>6, <2>2, <3>1, Zenon DEF StoreInv
  <2> QED
    BY <2>1, <2>2
<1> QED
  BY <1>1, <1>8, Zenon DEF StoreInv

\* The end of a partition: nothing is to come, so the table holds what was read.
LEMMA StoreAtEnd ==
    ASSUME Typed, StoreInv, NEW p \in Partitions, Eof(p)
    PROVE  StoreInv'
<1>1. UNCHANGED <<committed, topic, stable, guard, blind, moves>>
      /\ UNCHANGED <<pages, partitions, read, following, breaks>>
  BY DEF Eof, topicVars
<1>2. atEnd' = atEnd \union {p} /\ caught'[p] = read[p] /\ read[p] = stable[p]
      /\ \A q \in Partitions \ {p} : caught'[q] = caught[q]
  BY DEF Eof, Readable, Typed, StoreTyped
<1>3. stable[p] \in Nat
  BY DEF Typed, TopicTyped
<1>4. ASSUME NEW page \in PagesOf(Log[p])
      PROVE  RecentSince(topic[p], read[p], stable[p], GotIn(pages, page), page)
  <2>1. PICK t, n, got : t = topic[p] /\ n = read[p] /\ got = GotIn(pages, page)
    OBVIOUS
  <2>2. ReadUpTo(t, n, n, got, page)
    BY <1>2, <2>1, Zenon DEF StoreInv
  <2>3. n \in n..n /\ (n + 1)..n = {}
    BY <1>2, <1>3, <2>1
  <2>4. RecentSince(t, n, n, got, page)
    BY <2>2, <2>3, Zenon DEF ReadUpTo, RecentSince
  <2> QED
    BY <1>2, <2>1, <2>4, Zenon
<1>5. ASSUME NEW q \in Partitions
      PROVE  /\ q \in atEnd' => caught'[q] =< read[q]
             /\ \A page \in PagesOf(Log[q]) :
                    /\ ReadUpTo(topic[q], read[q], stable[q], GotIn(pages, page), page)
                    /\ q \in atEnd' =>
                          RecentSince(topic[q], caught'[q], stable[q], GotIn(pages, page), page)
  <2>1. CASE q = p
    <3>1. caught'[q] =< read[q]
      BY <1>2, <1>3, <2>1
    <3> QED
      BY <1>2, <1>4, <2>1, <3>1, Zenon DEF StoreInv
  <2>2. CASE q # p
    <3>1. (q \in atEnd' <=> q \in atEnd) /\ caught'[q] = caught[q]
      BY <1>2, <2>2
    <3> QED
      BY <3>1, Zenon DEF StoreInv
  <2> QED
    BY <2>1, <2>2
<1> QED
  BY <1>1, <1>5, Zenon DEF StoreInv

\* Nothing is read, and no end was reached.
NothingYet == pages = <<>> /\ atEnd = {} /\ read = [p \in Partitions |-> 0]

LEMMA NothingRead == Typed /\ NothingYet => StoreInv
<1> SUFFICES ASSUME Typed, NothingYet, NEW p \in Partitions, NEW page \in PagesOf(Log[p])
             PROVE  ReadUpTo(topic[p], read[p], stable[p], GotIn(pages, page), page)
  BY DEF StoreInv, NothingYet
<1>1. GotIn(pages, page) = Tombstone
  BY DEF GotIn, NothingYet
<1>2. PICK R, t : R = Records(p) /\ t = topic[p]
  OBVIOUS
<1>3. t \in Seq(R)
  BY <1>2 DEF Typed, TopicTyped
<1>4. 0 \in 0..Len(t) /\ \A k \in 1..0 : t[k].page # page
  BY <1>3
<1>5. Shown(t, 0, page) = Tombstone
  BY <1>3, <1>4, ShownNone
<1>6. read[p] = 0
  BY DEF NothingYet
<1> QED
  BY <1>1, <1>2, <1>5, <1>6, Zenon DEF ReadUpTo

\* Every step keeps the invariant of the store.
LEMMA StoreInvStep ==
    ASSUME Typed, StoreInv, [Next]_vars
    PROVE  StoreInv'
<1>1. ASSUME NEW p \in Partitions, TopicStep(p) \/ NewOwner(p), UNCHANGED storeVars
      PROVE  StoreInv'
  BY <1>1, HandleTyped, WriteMarkerTyped, NewOwnerTyped, StoreGrows DEF Typed, TopicStep
<1>2. CASE Follow
  <2>1. Typed'
    BY <1>2, StoreStepTyped DEF StoreStep
  <2>2. NothingYet'
    BY <1>2 DEF Follow, Forgotten, NothingYet
  <2> QED
    BY <2>1, <2>2, NothingRead, PTL
<1>3. ASSUME NEW p \in Partitions, Read(p) \/ Skip(p) \/ Eof(p) PROVE StoreInv'
  BY <1>3, StoreReads, StoreAtEnd
<1>4. CASE Break \/ UNCHANGED vars
  <2>1. UNCHANGED <<topic, stable, pages, atEnd, read, caught>>
    BY <1>4 DEF Break, vars, topicVars, storeVars
  <2> QED
    BY <2>1, Zenon DEF StoreInv
<1> QED
  BY <1>1, <1>2, <1>3, <1>4 DEF Next, StoreStep

\* A store that has caught up has reached the end of every partition.
LEMMA EveryEndReached ==
    ASSUME Typed, CaughtUp
    PROVE  atEnd = Partitions
<1>1. atEnd \subseteq Partitions /\ IsFiniteSet(Partitions)
  BY TopicAssumption DEF Typed, StoreTyped
<1>2. Cardinality(Partitions) \in Nat
  BY <1>1, FS_CardinalityType
<1>3. /\ IsFiniteSet(atEnd) /\ Cardinality(atEnd) =< Cardinality(Partitions)
      /\ Cardinality(atEnd) = Cardinality(Partitions) => atEnd = Partitions
  BY <1>1, FS_Subset
<1>4. Cardinality(atEnd) \in Nat
  BY <1>3, FS_CardinalityType
<1>5. Cardinality(atEnd) >= Cardinality(Partitions)
  BY <1>2 DEF CaughtUp, Typed, StoreTyped
<1> QED
  BY <1>2, <1>3, <1>4, <1>5

\* "caught_up" of /api/pages means it: what a store that has caught up shows of a
\* page was its state at some moment since the store last reached the end, for
\* any number of breaks, new owners and records, whatever compaction removes.
THEOREM CaughtUpShowsRecent == Spec => []ShowsRecent
<1>1. Init => Typed /\ StoreInv
  <2>1. Init => NothingYet
    BY DEF Init, NothingYet
  <2> QED
    BY <2>1, TypeInit, NothingRead
<1>2. Typed /\ StoreInv /\ [Next]_vars => (Typed /\ StoreInv)'
  BY TypeStep, StoreInvStep
<1>3. Typed /\ StoreInv => ShowsRecent
  <2> SUFFICES ASSUME Typed, StoreInv, CaughtUp, NEW p \in Partitions,
                      NEW page \in PagesOf(Log[p])
               PROVE  \E n \in caught[p]..stable[p] :
                          Got(page) = ShownBy(SubSeq(topic[p], 1, n), page)
    BY DEF ShowsRecent
  <2>1. p \in atEnd
    BY EveryEndReached
  <2>2. RecentSince(topic[p], caught[p], stable[p], GotIn(pages, page), page)
    BY <2>1, Zenon DEF StoreInv
  <2>3. Got(page) = GotIn(pages, page)
    BY Zenon DEF Got, GotIn
  <2> QED
    BY <2>2, <2>3, Zenon DEF RecentSince, Shown
<1> QED
  BY <1>1, <1>2, <1>3, PTL DEF Spec

-----------------------------------------------------------------------------
(***************************************************************************)
(* The topic and the guard. First of one partition and one page.           *)
(***************************************************************************)

\* Changes are messages of the log.
LEMMA ChangeFacts ==
    ASSUME NEW p \in Partitions, NEW n \in Nat, n =< Len(Log[p]), NEW page,
           NEW o \in Changes(p, n, page)
    PROVE  o \in 1..n /\ o \in DOMAIN Log[p] /\ Log[p][o].time \in Nat
<1>1. o \in 1..n
  BY DEF Changes
<1>2. Len(Log[p]) \in Nat /\ DOMAIN Log[p] = 1..Len(Log[p])
  BY LogFacts
<1>3. o \in DOMAIN Log[p]
  BY <1>1, <1>2
<1> QED
  BY <1>1, <1>3, TopicAssumption

\* One message more.
LEMMA ChangesNext ==
    ASSUME NEW p, NEW n \in Nat, NEW page
    PROVE  Changes(p, n + 1, page) =
               IF Log[p][n + 1].kind \in {"edit", "delete"} /\ Log[p][n + 1].page = page
               THEN Changes(p, n, page) \union {n + 1}
               ELSE Changes(p, n, page)
<1>1. 1..(n + 1) = (1..n) \union {n + 1}
  OBVIOUS
<1> QED
  BY <1>1, Zenon DEF Changes

\* The topic u is t and one more record, r.
OneMore(t, u, r) ==
    Len(u) = Len(t) + 1 /\ u[Len(t) + 1] = r /\ \A k \in 1..Len(t) : u[k] = t[k]

\* What it has of a page.
LEMMA RecordsAdded ==
    ASSUME NEW t, NEW u, NEW r, NEW page, Len(t) \in Nat, OneMore(t, u, r)
    PROVE  RecordsOf(u, page) = IF r.page = page THEN RecordsOf(t, page) \union {Len(t) + 1}
                                ELSE RecordsOf(t, page)
<1>1. PICK n : n = Len(t)
  OBVIOUS
<1>2. Len(u) = n + 1 /\ u[n + 1] = r /\ (\A k \in 1..n : u[k] = t[k]) /\ n \in Nat
  BY <1>1 DEF OneMore
<1>3. 1..(n + 1) = (1..n) \union {n + 1}
  BY <1>2
<1>4. RecordsOf(u, page) = IF r.page = page THEN RecordsOf(t, page) \union {n + 1}
                           ELSE RecordsOf(t, page)
  <2>1. RecordsOf(u, page) = {k \in 1..(n + 1) : u[k].page = page}
    BY <1>2 DEF RecordsOf
  <2>2. RecordsOf(t, page) = {k \in 1..n : t[k].page = page}
    BY <1>1 DEF RecordsOf
  <2> QED
    BY <1>2, <1>3, <2>1, <2>2
<1> QED
  BY <1>1, <1>2, <1>4

\* A record of another page does not matter, nor does remembering it.
LEMMA OtherShown ==
    ASSUME NEW p, NEW page, NEW C, NEW R, NEW t \in Seq(R), NEW r \in R, r.page # page,
           ShowsNewest(p, page, C, t)
    PROVE  ShowsNewest(p, page, C, t \o <<r>>)
<1>1. PICK u : u = t \o <<r>>
  OBVIOUS
<1>2. RecordsOf(u, page) = RecordsOf(t, page) /\ \A k \in 1..Len(t) : u[k] = t[k]
  <2>1. OneMore(t, u, r) /\ Len(t) \in Nat
    BY <1>1 DEF OneMore
  <2>2. RecordsOf(u, page) = RecordsOf(t, page)
    BY <2>1, RecordsAdded
  <2> QED
    BY <2>1, <2>2 DEF OneMore
<1>3. \A k \in RecordsOf(t, page) : u[k] = t[k]
  BY <1>2 DEF RecordsOf
<1>4. \A l \in RecordsOf(t, page) : LastOf(t, page, l) => LastOf(u, page, l)
  BY <1>2, <1>3, Zenon DEF LastOf
<1>5. ShowsNewest(p, page, C, u)
  BY <1>2, <1>3, <1>4, Zenon DEF ShowsNewest
<1> QED
  BY <1>1, <1>5

LEMMA OtherRemembered ==
    ASSUME NEW p, NEW page, NEW C, NEW n \in Nat, NEW g, NEW key, NEW time, key # page,
           Knows(p, page, C, n, g)
    PROVE  Knows(p, page, C, n, Remember(g, key, time))
<1>1. PICK h : h = Remember(g, key, time)
  OBVIOUS
<1>2. /\ page \in DOMAIN h <=> page \in DOMAIN g
      /\ page \in DOMAIN g => h[page] = g[page]
  BY <1>1 DEF Remember
<1>3. Knows(p, page, C, n, h)
  BY <1>2, Zenon DEF Knows
<1> QED
  BY <1>1, <1>3

\* What is known of a page is known after one message more.
LEMMA KnownLater ==
    ASSUME NEW p, NEW page, NEW C, NEW n \in Nat, NEW g, Knows(p, page, C, n, g)
    PROVE  Knows(p, page, C, n + 1, g)
<1>1. \A k \in 1..n : k \in 1..(n + 1)
  OBVIOUS
<1> QED
  BY <1>1, Zenon DEF Knows

\* is_stale: a change that is held back is not the newest.
LEMMA StaleHeldBack ==
    ASSUME NEW p \in Partitions, NEW n \in Nat, n + 1 =< Len(Log[p]), NEW page, NEW g, NEW t,
           NEW C, C = Changes(p, n, page),
           ShowsNewest(p, page, C, t), Knows(p, page, C, n, g),
           IsStale(g, page, Log[p][n + 1].time)
    PROVE  /\ ShowsNewest(p, page, C \union {n + 1}, t)
           /\ Knows(p, page, C \union {n + 1}, n + 1, g)
<1>1. n + 1 \in DOMAIN Log[p] /\ Log[p][n + 1].time \in Nat /\ n =< Len(Log[p])
  BY LogFacts, TopicAssumption
<1>2. page \in DOMAIN g
  BY <1>1 DEF IsStale, AppliedTime
<1>3. Log[p][n + 1].time < g[page]
  BY <1>2 DEF IsStale, AppliedTime
<1>4. PICK a \in C : Newest(p, a, C) /\ g[page] = Log[p][a].time
  BY <1>2 DEF Knows
<1>5. \A o \in C : o \in 1..n /\ Log[p][o].time \in Nat
  BY <1>1, ChangeFacts
<1>6. ASSUME NEW o \in C, Newest(p, o, C) PROVE Newest(p, o, C \union {n + 1})
  <2>1. Log[p][a].time =< Log[p][o].time
    BY <1>5, <1>6 DEF Newest
  <2>2. Log[p][n + 1].time < Log[p][o].time
    BY <1>1, <1>3, <1>4, <1>5, <2>1
  <2> QED
    BY <1>6, <2>2 DEF Newest
<1>7. ShowsNewest(p, page, C \union {n + 1}, t)
  <2>1. C # {}
    BY <1>4
  <2> QED
    BY <1>6, <2>1 DEF ShowsNewest
<1>8. Knows(p, page, C \union {n + 1}, n + 1, g)
  BY <1>2, <1>4, <1>6 DEF Knows
<1> QED
  BY <1>7, <1>8

\* A change that is not is the newest: by the guard or, where compaction took the
\* page's tombstone, because it cannot be that late.
LEMMA AppliedIsNewest ==
    ASSUME NEW p \in Partitions, NEW n \in Nat, n + 1 =< Len(Log[p]), NEW page, NEW g,
           NEW C, C = Changes(p, n, page), Knows(p, page, C, n, g),
           ~IsStale(g, page, Log[p][n + 1].time)
    PROVE  /\ Newest(p, n + 1, C \union {n + 1})
           /\ AppliedTime(g, page) \in Int
           /\ AppliedTime(g, page) =< Log[p][n + 1].time
<1>1. n + 1 \in DOMAIN Log[p] /\ Log[p][n + 1].time \in Nat /\ n =< Len(Log[p])
  BY LogFacts, TopicAssumption
<1>2. \A o \in C : o \in 1..n /\ Log[p][o].time \in Nat
  BY <1>1, ChangeFacts
<1>3. AppliedTime(g, page) \in Int
  BY <1>2 DEF Knows, AppliedTime
<1>4. AppliedTime(g, page) =< Log[p][n + 1].time
  BY <1>1, <1>3 DEF IsStale
<1>5. \A m \in C : Log[p][m].time =< Log[p][n + 1].time
  <2>1. ASSUME NEW o \in C, Newest(p, o, C), page \in DOMAIN g, g[page] = Log[p][o].time,
               NEW m \in C
        PROVE  Log[p][m].time =< Log[p][n + 1].time
    <3>1. Log[p][m].time =< Log[p][o].time
      BY <1>2, <2>1 DEF Newest
    <3>2. Log[p][o].time =< Log[p][n + 1].time
      BY <1>4, <2>1 DEF AppliedTime
    <3> QED
      BY <1>1, <1>2, <3>1, <3>2
  <2>2. ASSUME NEW k \in 1..n, \A o \in C : Log[p][k].time - Log[p][o].time > TombstoneMs,
               NEW m \in C
        PROVE  Log[p][m].time =< Log[p][n + 1].time
    <3>1. k \in DOMAIN Log[p] /\ k < n + 1
      BY LogFacts
    <3>2. Log[p][k].time - Log[p][n + 1].time =< TombstoneMs
      BY <1>1, <3>1, LatenessAssumption
    <3>3. Log[p][k].time - Log[p][m].time > TombstoneMs
      BY <2>2
    <3>4. Log[p][k].time \in Nat /\ TombstoneMs \in Nat
      BY <3>1, TopicAssumption, LatenessAssumption
    <3> QED
      BY <1>1, <1>2, <3>2, <3>3, <3>4, SMTT(40)
  <2> QED
    BY <2>1, <2>2 DEF Knows
<1>6. Newest(p, n + 1, C \union {n + 1})
  <2> SUFFICES ASSUME NEW m \in C \union {n + 1}
               PROVE  \/ Log[p][m].time < Log[p][n + 1].time
                      \/ Log[p][m].time = Log[p][n + 1].time /\ m =< n + 1
    BY DEF Newest
  <2> QED
    BY <1>1, <1>2, <1>5
<1> QED
  BY <1>3, <1>4, <1>6

\* It becomes the last record of its page, and the guard remembers its time.
LEMMA AppliedIsShown ==
    ASSUME NEW p \in Partitions, NEW n \in Nat, n + 1 =< Len(Log[p]), NEW page, NEW g,
           NEW t \in Seq(Records(p)), NEW C, C = Changes(p, n, page),
           ShowsNewest(p, page, C, t), Knows(p, page, C, n, g),
           Log[p][n + 1].page = page, ~IsStale(g, page, Log[p][n + 1].time)
    PROVE  /\ ShowsNewest(p, page, C \union {n + 1}, t \o <<PageLatest(Log[p][n + 1])>>)
           /\ Knows(p, page, C \union {n + 1}, n + 1, Remember(g, page, Log[p][n + 1].time))
<1>1. n + 1 \in DOMAIN Log[p] /\ Log[p][n + 1].time \in Nat /\ n =< Len(Log[p])
  BY LogFacts, TopicAssumption
<1>2. /\ Newest(p, n + 1, C \union {n + 1})
      /\ AppliedTime(g, page) \in Int
      /\ AppliedTime(g, page) =< Log[p][n + 1].time
  BY AppliedIsNewest
<1>3. \A o \in C : o \in 1..n /\ Log[p][o].time \in Nat
  BY <1>1, ChangeFacts
<1>4. PICK h, time : h = Remember(g, page, time) /\ time = Log[p][n + 1].time
  OBVIOUS
<1>5. Knows(p, page, C \union {n + 1}, n + 1, h)
  <2>1. Max({AppliedTime(g, page), time}) = time
    <3>1. PICK S : S = {AppliedTime(g, page), time}
      OBVIOUS
    <3>2. S \in SUBSET Int /\ time \in S /\ \A k \in S : k =< time
      BY <1>1, <1>2, <1>4, <3>1
    <3> QED
      BY <3>1, <3>2, MaxIs
  <2>2. page \in DOMAIN h /\ h[page] = time
    BY <1>4, <2>1 DEF Remember
  <2> QED
    BY <1>2, <1>4, <2>2 DEF Knows
<1>6. PICK R, r, u : R = Records(p) /\ r = PageLatest(Log[p][n + 1]) /\ u = t \o <<r>>
  OBVIOUS
<1>7. r \in R /\ r.page = page /\ r.time = Log[p][n + 1].time
  BY <1>1, <1>6 DEF Records, PageLatest
<1>8. PICK l : l = Len(t) + 1
  OBVIOUS
<1>9. /\ u[l] = r /\ \A k \in 1..Len(t) : u[k] = t[k]
      /\ RecordsOf(u, page) = RecordsOf(t, page) \union {l}
  <2>1. OneMore(t, u, r) /\ Len(t) \in Nat
    <3>1. t \in Seq(R) /\ r \in R
      BY <1>6, <1>7
    <3> QED
      BY <1>6, <3>1 DEF OneMore
  <2>2. RecordsOf(u, page) = RecordsOf(t, page) \union {l}
    BY <1>7, <1>8, <2>1, RecordsAdded
  <2> QED
    BY <1>8, <2>1, <2>2 DEF OneMore
<1>10. ASSUME NEW k \in RecordsOf(t, page)
       PROVE  k =< l /\ u[k] = t[k] /\ t[k].time =< r.time
  <2>1. k \in 1..Len(t) /\ Len(t) \in Nat
    BY <1>6 DEF RecordsOf
  <2>2. PICK o \in C : \E z \in RecordsOf(t, page) :
            Newest(p, o, C) /\ LastOf(t, page, z) /\ t[z] = PageLatest(Log[p][o])
    BY DEF ShowsNewest
  <2>3. t[k].time =< Log[p][o].time
    BY <2>2 DEF LastOf, PageLatest
  <2>4. Log[p][o].time =< Log[p][n + 1].time
    BY <1>1, <1>2, <1>3 DEF Newest
  <2>5. t[k].time \in Nat
    <3>1. t[k] \in Records(p)
      BY <2>1
    <3> QED
      BY <3>1, RecordFacts
  <2> QED
    BY <1>1, <1>3, <1>7, <1>8, <1>9, <2>1, <2>3, <2>4, <2>5, SMTT(40)
<1>11. LastOf(u, page, l)
  <2>1. Len(t) \in Nat /\ r.time =< r.time /\ l =< l
    BY <1>1, <1>7, <1>8
  <2> QED
    BY <1>9, <1>10, <2>1 DEF LastOf
<1>12. ShowsNewest(p, page, C \union {n + 1}, u)
  <2>1. l \in RecordsOf(u, page) /\ u[l] = PageLatest(Log[p][n + 1])
    BY <1>6, <1>9
  <2> QED
    BY <1>2, <1>11, <2>1 DEF ShowsNewest
<1> QED
  BY <1>4, <1>5, <1>6, <1>12

\* handle, of any message and any page.
LEMMA HandleKeeps ==
    ASSUME NEW p \in Partitions, NEW n \in Nat, n + 1 =< Len(Log[p]), NEW page, NEW g,
           NEW t \in Seq(Records(p)), NEW msg, msg = Log[p][n + 1],
           ShowsNewest(p, page, Changes(p, n, page), t),
           Knows(p, page, Changes(p, n, page), n, g)
    PROVE  /\ ShowsNewest(p, page, Changes(p, n + 1, page), t \o PageEmits(g, msg))
           /\ Knows(p, page, Changes(p, n + 1, page), n + 1, PageAbsorb(g, msg))
<1>1. PICK C : C = Changes(p, n, page)
  OBVIOUS
<1>2. ShowsNewest(p, page, C, t) /\ Knows(p, page, C, n, g)
  BY <1>1
<1>3. n + 1 \in DOMAIN Log[p]
  BY LogFacts
<1>4. PICK r : r = PageLatest(msg)
  OBVIOUS
<1>5. r \in Records(p) /\ r.page = msg.page
  BY <1>3, <1>4 DEF Records, PageLatest
<1>6. CASE Applies(g, msg)
  <2>1. PageEmits(g, msg) = <<r>> /\ PageAbsorb(g, msg) = Remember(g, msg.page, msg.time)
    BY <1>4, <1>6, Zenon DEF PageEmits, PageAbsorb
  <2>2. msg.kind \in {"edit", "delete"} /\ ~IsStale(g, msg.page, msg.time)
    BY <1>6, Zenon DEF Applies
  <2>3. CASE msg.page = page
    <3>1. Changes(p, n + 1, page) = C \union {n + 1}
      BY <1>1, <2>2, <2>3, ChangesNext
    <3>2. Log[p][n + 1].page = page /\ ~IsStale(g, page, Log[p][n + 1].time)
      BY <2>2, <2>3
    <3>3. /\ ShowsNewest(p, page, C \union {n + 1}, t \o <<PageLatest(Log[p][n + 1])>>)
          /\ Knows(p, page, C \union {n + 1}, n + 1, Remember(g, page, Log[p][n + 1].time))
      BY <1>1, <1>2, <3>2, AppliedIsShown
    <3> QED
      BY <1>4, <2>1, <2>3, <3>1, <3>3, Zenon
  <2>4. CASE msg.page # page
    <3>1. Changes(p, n + 1, page) = C
      BY <1>1, <2>4, ChangesNext
    <3>2. PICK R : R = Records(p)
      OBVIOUS
    <3>3. ShowsNewest(p, page, C, t \o <<r>>)
      <4>1. t \in Seq(R) /\ r \in R /\ r.page # page
        BY <1>5, <2>4, <3>2
      <4> QED
        BY <1>2, <4>1, OtherShown
    <3>4. Knows(p, page, C, n + 1, g)
      BY <1>2, KnownLater
    <3>5. n + 1 \in Nat
      OBVIOUS
    <3>6. Knows(p, page, C, n + 1, Remember(g, msg.page, msg.time))
      BY <2>4, <3>4, <3>5, OtherRemembered
    <3> QED
      BY <2>1, <3>1, <3>3, <3>6, Zenon
  <2> QED
    BY <2>3, <2>4
<1>7. CASE ~Applies(g, msg)
  <2>1. PageEmits(g, msg) = <<>> /\ PageAbsorb(g, msg) = g
    BY <1>7, Zenon DEF PageEmits, PageAbsorb
  <2>2. t \o PageEmits(g, msg) = t
    <3>1. PICK R : R = Records(p)
      OBVIOUS
    <3>2. t \in Seq(R)
      BY <3>1
    <3>3. t \o <<>> = t
      BY <3>2
    <3> QED
      BY <2>1, <3>3, Zenon
  <2>3. CASE msg.kind \in {"edit", "delete"} /\ msg.page = page
    <3>1. Changes(p, n + 1, page) = C \union {n + 1}
      BY <1>1, <2>3, ChangesNext
    <3>2. IsStale(g, page, Log[p][n + 1].time)
      BY <1>7, <2>3, Zenon DEF Applies
    <3>3. /\ ShowsNewest(p, page, C \union {n + 1}, t)
          /\ Knows(p, page, C \union {n + 1}, n + 1, g)
      BY <1>1, <1>2, <3>2, StaleHeldBack
    <3> QED
      BY <2>1, <2>2, <3>1, <3>3, Zenon
  <2>4. CASE ~(msg.kind \in {"edit", "delete"} /\ msg.page = page)
    <3>1. Changes(p, n + 1, page) = C
      BY <1>1, <2>4, ChangesNext
    <3>2. Knows(p, page, C, n + 1, g)
      BY <1>2, KnownLater
    <3> QED
      BY <1>2, <2>1, <2>2, <3>1, <3>2, Zenon
  <2> QED
    BY <2>3, <2>4
<1> QED
  BY <1>6, <1>7

\* load_applied, of what is left of all the records: it finds the time of the
\* page's last one, unless that was a tombstone that nothing can be late for.
LEMMA RestoreKnows ==
    ASSUME Typed, NEW p \in Partitions, NEW gone \in Compactions(p), NEW g, NEW until,
           stable[p] = Len(topic[p]), until = Len(topic[p]),
           NEW page, NEW C, C = Changes(p, committed[p], page),
           ShowsNewest(p, page, C, topic[p])
    PROVE  Knows(p, page, C, committed[p],
                 PageRestore(g, p, committed[p], Restrict(topic[p], (1..until) \ gone)))
<1>1. PICK R, t, n : R = Records(p) /\ t = topic[p] /\ n = committed[p]
  OBVIOUS
<1>2. t \in Seq(R) /\ n \in Nat /\ n =< Len(Log[p]) /\ Len(t) \in Nat
  <2>1. t \in Seq(R) /\ n \in Nat /\ n =< Len(Log[p])
    BY <1>1 DEF Typed, TopicTyped
  <2> QED
    BY <2>1
<1>3. PICK kept, out : kept = (1..Len(t)) \ gone /\ out = Restrict(t, kept)
  OBVIOUS
<1>4. DOMAIN out = kept /\ \A k \in kept : out[k] = t[k]
  BY <1>3 DEF Restrict
<1>5. PICK h : h = PageRestore(g, p, n, out)
  OBVIOUS
<1>6. h = [pg \in {out[k].page : k \in DOMAIN out} |->
              Max({out[k].time : k \in {m \in DOMAIN out : out[m].page = pg}})]
  BY <1>5, Zenon DEF PageRestore
<1>7. \A o \in C : o \in 1..n /\ Log[p][o].time \in Nat
  BY <1>1, <1>2, ChangeFacts
<1>8. page \in DOMAIN h <=> \E k \in kept : t[k].page = page
  BY <1>4, <1>6
<1>9. ASSUME C = {}, RecordsOf(t, page) = {} PROVE Knows(p, page, C, n, h)
  <2>1. page \notin DOMAIN h
    BY <1>3, <1>8, <1>9 DEF RecordsOf
  <2> QED
    BY <1>9, <2>1 DEF Knows
<1>10. ASSUME NEW o \in C, NEW l \in RecordsOf(t, page), Newest(p, o, C), LastOf(t, page, l),
              t[l] = PageLatest(Log[p][o])
       PROVE  Knows(p, page, C, n, h)
  <2>1. l \in 1..Len(t) /\ t[l].page = page /\ t[l].time = Log[p][o].time
    BY <1>10 DEF RecordsOf, PageLatest
  <2>2. CASE l \notin gone
    <3>1. l \in kept
      BY <1>3, <2>1, <2>2
    <3>2. page \in DOMAIN h
      BY <1>8, <2>1, <3>1
    <3>3. PICK T : T = {out[k].time : k \in {m \in DOMAIN out : out[m].page = page}}
      OBVIOUS
    <3>4. h[page] = Max(T)
      BY <1>6, <3>2, <3>3
    <3>5. T = {t[k].time : k \in {m \in kept : t[m].page = page}}
      BY <1>4, <3>3
    <3>6. ASSUME NEW x \in T PROVE x \in Int /\ x =< t[l].time
      <4>1. PICK k \in kept : t[k].page = page /\ x = t[k].time
        BY <3>5, <3>6
      <4>2. k \in 1..Len(t) /\ k \in RecordsOf(t, page)
        BY <1>3, <4>1 DEF RecordsOf
      <4>3. t[k] \in Records(p)
        BY <1>1, <1>2, <4>2
      <4>4. t[k].time \in Nat
        BY <4>3, RecordFacts
      <4> QED
        BY <1>10, <4>1, <4>2, <4>4 DEF LastOf
    <3>7. t[l].time \in T
      BY <2>1, <3>1, <3>5
    <3>8. T \in SUBSET Int
      BY <3>6
    <3>9. Max(T) = t[l].time
      BY <3>6, <3>7, <3>8, MaxIs
    <3> QED
      BY <1>10, <2>1, <3>2, <3>4, <3>9 DEF Knows
  <2>3. CASE l \in gone
    <3>1. \/ Superseded(p, l)
          \/ Aged(p, l) /\ \A m \in 1..(l - 1) : topic[p][m].page = topic[p][l].page => m \in gone
      BY <2>3 DEF Compactions
    <3>2. ~Superseded(p, l)
      <4> SUFFICES ASSUME NEW m \in (l + 1)..Len(t), t[m].page = t[l].page PROVE FALSE
        BY <1>1 DEF Superseded
      <4>1. m \in RecordsOf(t, page) /\ ~(m =< l)
        BY <1>2, <2>1 DEF RecordsOf
      <4> QED
        BY <1>10, <4>1 DEF LastOf
    <3>3. \A m \in 1..(l - 1) : t[m].page = page => m \in gone
      BY <1>1, <2>1, <3>1, <3>2
    <3>4. page \notin DOMAIN h
      <4> SUFFICES ASSUME NEW k \in kept, t[k].page = page PROVE FALSE
        BY <1>8
      <4>1. k \in 1..Len(t) /\ k \notin gone /\ k \in RecordsOf(t, page)
        BY <1>3 DEF RecordsOf
      <4>2. k =< l /\ k # l
        BY <1>10, <2>3, <4>1 DEF LastOf
      <4>3. k \in 1..(l - 1)
        BY <1>2, <2>1, <4>1, <4>2
      <4> QED
        BY <3>3, <4>1, <4>3
    <3>5. PICK k \in 1..n : Log[p][k].time - t[l].time > TombstoneMs
      BY <1>1, <3>1, <3>2 DEF Aged
    <3>6. k \in DOMAIN Log[p]
      BY <1>2, LogFacts
    <3>7. Log[p][k].time \in Nat /\ TombstoneMs \in Nat
      BY <3>6, TopicAssumption, LatenessAssumption
    <3>8. ASSUME NEW a \in C PROVE Log[p][k].time - Log[p][a].time > TombstoneMs
      <4>1. Log[p][a].time =< Log[p][o].time
        BY <1>7, <1>10 DEF Newest
      <4> QED
        BY <1>7, <2>1, <3>5, <3>7, <4>1, SMTT(40)
    <3> QED
      BY <3>4, <3>8 DEF Knows
  <2> QED
    BY <2>2, <2>3
<1>11. Knows(p, page, C, n, h)
  BY <1>1, <1>9, <1>10, Zenon DEF ShowsNewest
<1> QED
  BY <1>1, <1>3, <1>5, <1>11

\* Now of the whole topic. What a step needs to leave alone for its invariant.
LEMMA TopicSame ==
    ASSUME TopicInv, UNCHANGED <<committed, topic, guard, blind>>
    PROVE  TopicInv'
BY Zenon DEF TopicInv, UpToDate

\* A step of one partition leaves the others as they are.
LEMMA TopicInvOf ==
    ASSUME TopicInv, NEW p \in Partitions,
           \A q \in Partitions \ {p} :
               /\ committed'[q] = committed[q] /\ topic'[q] = topic[q]
               /\ guard'[q] = guard[q] /\ blind'[q] = blind[q],
           ~blind'[p] => \A page \in PagesOf(Log[p]) :
               /\ ShowsNewest(p, page, Changes(p, committed'[p], page), topic'[p])
               /\ Knows(p, page, Changes(p, committed'[p], page), committed'[p], guard'[p])
    PROVE  TopicInv'
<1> SUFFICES ASSUME NEW q \in Partitions, ~blind'[q], NEW page \in PagesOf(Log[q])
             PROVE  /\ ShowsNewest(q, page, Changes(q, committed'[q], page), topic'[q])
                    /\ Knows(q, page, Changes(q, committed'[q], page), committed'[q], guard'[q])
  BY Zenon DEF TopicInv, UpToDate
<1>1. CASE q = p
  BY <1>1, Zenon
<1>2. CASE q # p
  <2>1. /\ committed'[q] = committed[q] /\ topic'[q] = topic[q]
        /\ guard'[q] = guard[q] /\ blind'[q] = blind[q]
    BY <1>2
  <2>2. UpToDate(q, page)
    BY <2>1, Zenon DEF TopicInv
  <2> QED
    BY <2>1, <2>2, Zenon DEF UpToDate
<1> QED
  BY <1>1, <1>2

\* handle and its commit.
LEMMA HandleInv ==
    ASSUME Typed, TopicInv, NEW p \in Partitions, Handle(p)
    PROVE  TopicInv'
<1>1. PICK n, t, g, msg : /\ n = committed[p] /\ t = topic[p] /\ g = guard[p]
                          /\ msg = Log[p][committed[p] + 1]
  OBVIOUS
<1>2. t \in Seq(Records(p)) /\ n \in Nat /\ n + 1 =< Len(Log[p])
  BY <1>1, LogFacts DEF Typed, TopicTyped, Handle
<1>3. /\ topic' = [topic EXCEPT ![p] = t \o PageEmits(g, msg)]
      /\ guard' = [guard EXCEPT ![p] = PageAbsorb(g, msg)]
      /\ committed' = [committed EXCEPT ![p] = n + 1]
      /\ blind' = blind
  BY <1>1, Zenon DEF Handle
<1>4. DOMAIN topic = Partitions /\ DOMAIN guard = Partitions /\ DOMAIN committed = Partitions
  BY DEF Typed, TopicTyped
<1>5. /\ topic'[p] = t \o PageEmits(g, msg)
      /\ guard'[p] = PageAbsorb(g, msg)
      /\ committed'[p] = n + 1
  BY <1>3, <1>4, Zenon
<1>6. \A q \in Partitions \ {p} :
          /\ committed'[q] = committed[q] /\ topic'[q] = topic[q]
          /\ guard'[q] = guard[q] /\ blind'[q] = blind[q]
  BY <1>3, <1>4
<1>7. ASSUME ~blind'[p], NEW page \in PagesOf(Log[p])
      PROVE  /\ ShowsNewest(p, page, Changes(p, committed'[p], page), topic'[p])
             /\ Knows(p, page, Changes(p, committed'[p], page), committed'[p], guard'[p])
  <2>1. ShowsNewest(p, page, Changes(p, n, page), t) /\ Knows(p, page, Changes(p, n, page), n, g)
    BY <1>1, <1>3, <1>7, Zenon DEF TopicInv, UpToDate
  <2>2. msg = Log[p][n + 1]
    BY <1>1
  <2>3. /\ ShowsNewest(p, page, Changes(p, n + 1, page), t \o PageEmits(g, msg))
        /\ Knows(p, page, Changes(p, n + 1, page), n + 1, PageAbsorb(g, msg))
    BY <1>2, <2>1, <2>2, HandleKeeps
  <2> QED
    BY <1>5, <2>3, Zenon
<1> QED
  BY <1>6, <1>7, TopicInvOf, Zenon

\* A new owner, who read all there was to read or leaves the partition blind.
LEMMA NewOwnerInv ==
    ASSUME Typed, TopicInv, NEW p \in Partitions, NewOwner(p)
    PROVE  TopicInv'
<1>1. PICK until \in 0..stable[p], gone \in Compactions(p) :
          /\ guard' = [guard EXCEPT ![p] =
                          PageRestore(@, p, committed[p], Restrict(topic[p], (1..until) \ gone))]
          /\ blind' = [blind EXCEPT ![p] = @ \/ until < Len(topic[p])]
  BY Zenon DEF NewOwner
<1>2. UNCHANGED <<committed, topic, stable>>
  BY DEF NewOwner
<1>3. DOMAIN guard = Partitions /\ DOMAIN blind = Partitions
  BY DEF Typed, TopicTyped
<1>4. /\ guard'[p] = PageRestore(guard[p], p, committed[p], Restrict(topic[p], (1..until) \ gone))
      /\ blind'[p] = (blind[p] \/ until < Len(topic[p]))
  BY <1>1, <1>3, Zenon
<1>5. \A q \in Partitions \ {p} :
          /\ committed'[q] = committed[q] /\ topic'[q] = topic[q]
          /\ guard'[q] = guard[q] /\ blind'[q] = blind[q]
  <2>1. \A q \in Partitions \ {p} : guard'[q] = guard[q] /\ blind'[q] = blind[q]
    BY <1>1, <1>3, Zenon
  <2> QED
    BY <1>2, <2>1
<1>6. ASSUME ~blind'[p], NEW page \in PagesOf(Log[p])
      PROVE  /\ ShowsNewest(p, page, Changes(p, committed'[p], page), topic'[p])
             /\ Knows(p, page, Changes(p, committed'[p], page), committed'[p], guard'[p])
  <2>1. ~blind[p] /\ ~(until < Len(topic[p]))
    BY <1>4, <1>6, Zenon
  <2>2. stable[p] = Len(topic[p]) /\ until = Len(topic[p])
    <3>1. topic[p] \in Seq(Records(p)) /\ stable[p] \in Nat /\ stable[p] =< Len(topic[p])
      BY DEF Typed, TopicTyped
    <3>2. Len(topic[p]) \in Nat
      BY <3>1
    <3> QED
      BY <2>1, <3>1, <3>2
  <2>3. PICK C, g : C = Changes(p, committed[p], page) /\ g = guard[p]
    OBVIOUS
  <2>4. ShowsNewest(p, page, C, topic[p])
    BY <2>1, <2>3, Zenon DEF TopicInv, UpToDate
  <2>5. Knows(p, page, C, committed[p],
              PageRestore(g, p, committed[p], Restrict(topic[p], (1..until) \ gone)))
    BY <2>2, <2>3, <2>4, RestoreKnows
  <2> QED
    BY <1>2, <1>4, <2>3, <2>4, <2>5, Zenon
<1> QED
  BY <1>5, <1>6, TopicInvOf, Zenon

\* Initially there are no records and no changes.
LEMMA TopicInvInit ==
    ASSUME Init
    PROVE  TopicInv
<1> SUFFICES ASSUME NEW p \in Partitions, NEW page \in PagesOf(Log[p]) PROVE UpToDate(p, page)
  BY DEF TopicInv
<1>1. committed[p] = 0 /\ topic[p] = <<>> /\ guard[p] = <<>>
  BY DEF Init, TopicInit, NoPages
<1>2. Changes(p, committed[p], page) = {} /\ RecordsOf(topic[p], page) = {}
  BY <1>1 DEF Changes, RecordsOf
<1>3. page \notin DOMAIN guard[p]
  BY <1>1
<1> QED
  BY <1>2, <1>3 DEF UpToDate, ShowsNewest, Knows

\* Every step keeps the invariant of the topic.
LEMMA TopicInvStep ==
    ASSUME Typed, TopicInv, [Next]_vars
    PROVE  TopicInv'
<1>1. ASSUME NEW p \in Partitions, TopicStep(p) \/ NewOwner(p)
      PROVE  TopicInv'
  <2>1. CASE Handle(p)
    BY <2>1, HandleInv
  <2>2. CASE WriteMarker(p)
    BY <2>2, TopicSame DEF WriteMarker
  <2>3. CASE NewOwner(p)
    BY <2>3, NewOwnerInv
  <2> QED
    BY <1>1, <2>1, <2>2, <2>3 DEF TopicStep
<1>2. CASE StoreStep \/ Break \/ UNCHANGED vars
  <2>1. UNCHANGED topicVars
    BY <1>2, StoreStepTyped DEF vars
  <2> QED
    BY <2>1, TopicSame DEF topicVars
<1> QED
  BY <1>1, <1>2 DEF Next

\* The change that NewestChange chooses is the newest.
LEMMA NewestIs ==
    ASSUME NEW p \in Partitions, NEW n \in Nat, n =< Len(Log[p]), NEW page,
           NEW o \in Changes(p, n, page), Newest(p, o, Changes(p, n, page))
    PROVE  NewestChange(Log[p], n, page) = PageLatest(Log[p][o]).shows
<1> DEFINE C == Changes(p, n, page)
           chosen == CHOOSE a \in C : Newest(p, a, C)
<1>1. \A a \in C : a \in 1..n /\ Log[p][a].time \in Nat
  BY ChangeFacts
<1>2. \A a \in C : Newest(p, a, C) => a = o
  BY <1>1 DEF Newest
<1>3. chosen = o
  BY <1>2, Zenon
<1>4. NewestChange(Log[p], n, page) =
          IF C = {} \/ Log[p][chosen].kind = "delete" THEN Tombstone ELSE Log[p][chosen].id
  BY Zenon DEF NewestChange, Newest, Changes
<1>5. C # {}
  OBVIOUS
<1> HIDE DEF C, chosen
<1>6. NewestChange(Log[p], n, page) =
          IF Log[p][o].kind = "delete" THEN Tombstone ELSE Log[p][o].id
  BY <1>3, <1>4, <1>5, Zenon
<1> QED
  BY <1>6 DEF PageLatest

\* The topic holds the newest change of every page by event time, deletions
\* included, for any logs in which events are late by less than tombstones are
\* kept for: handle's guard, rebuilt by load_applied from whatever compaction has
\* left of the whole partition, lets neither an older edit replace a newer one
\* nor a late one bring a deleted page back.
THEOREM TopicKeepsNewest == Spec => []NewestKept
<1>1. Init => Typed /\ TopicInv
  BY TypeInit, TopicInvInit
<1>2. Typed /\ TopicInv /\ [Next]_vars => (Typed /\ TopicInv)'
  BY TypeStep, TopicInvStep
<1>3. Typed /\ TopicInv => NewestKept
  <2> SUFFICES ASSUME Typed, TopicInv, NEW p \in Partitions, NEW page \in PagesOf(Log[p]),
                      ~blind[p]
               PROVE  ShownBy(topic[p], page) = NewestChange(Log[p], committed[p], page)
    BY DEF NewestKept
  <2>1. PICK R, t, n, C : /\ R = Records(p) /\ t = topic[p] /\ n = committed[p]
                          /\ C = Changes(p, n, page)
    OBVIOUS
  <2>2. t \in Seq(R) /\ n \in Nat /\ n =< Len(Log[p])
    BY <2>1 DEF Typed, TopicTyped
  <2>3. ShowsNewest(p, page, C, t)
    BY <2>1, Zenon DEF TopicInv, UpToDate
  <2>4. PICK S : S = {k \in DOMAIN t : t[k].page = page}
    OBVIOUS
  <2>5. S = RecordsOf(t, page) /\ S \in SUBSET Int
    <3>1. DOMAIN t = 1..Len(t) /\ Len(t) \in Nat
      BY <2>2
    <3> QED
      BY <2>4, <3>1 DEF RecordsOf
  <2>6. ShownBy(t, page) = IF S = {} THEN Tombstone ELSE t[Max(S)].shows
    BY <2>4, Zenon DEF ShownBy
  <2>7. ASSUME C = {}, RecordsOf(t, page) = {}
        PROVE  ShownBy(t, page) = NewestChange(Log[p], n, page)
    <3>1. ShownBy(t, page) = Tombstone
      BY <2>5, <2>6, <2>7
    <3>2. NewestChange(Log[p], n, page) = Tombstone
      BY <2>1, <2>7, Zenon DEF NewestChange, Changes
    <3> QED
      BY <3>1, <3>2
  <2>8. ASSUME NEW o \in C, NEW l \in RecordsOf(t, page), Newest(p, o, C), LastOf(t, page, l),
               t[l] = PageLatest(Log[p][o])
        PROVE  ShownBy(t, page) = NewestChange(Log[p], n, page)
    <3>1. l \in S /\ \A k \in S : k =< l
      BY <2>5, <2>8 DEF LastOf
    <3>2. Max(S) = l
      BY <2>5, <3>1, MaxIs
    <3>3. ShownBy(t, page) = PageLatest(Log[p][o]).shows
      BY <2>6, <2>8, <3>1, <3>2
    <3>4. NewestChange(Log[p], n, page) = PageLatest(Log[p][o]).shows
      BY <2>1, <2>2, <2>8, NewestIs
    <3> QED
      BY <3>3, <3>4
  <2> QED
    BY <2>1, <2>3, <2>7, <2>8, Zenon DEF ShowsNewest
<1> QED
  BY <1>1, <1>2, <1>3, PTL DEF Spec
=============================================================================

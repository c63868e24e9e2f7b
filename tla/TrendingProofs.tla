--------------------------- MODULE TrendingProofs ---------------------------
(***************************************************************************)
(* Proofs about Trending, for any number of partitions, members and        *)
(* faults, any logs, lateness and number of windows.                       *)
(***************************************************************************)
EXTENDS Trending, FiniteSetTheorems, WellFoundedInduction, TLAPS

-----------------------------------------------------------------------------
(***************************************************************************)
(* Facts about the operations of ConsumerGroup. GroupTypeOK says what      *)
(* values the variables have where they are used; GroupTyped adds that     *)
(* they are functions, which steps that update one value rely on.          *)
(***************************************************************************)
GroupTyped ==
    /\ GroupTypeOK
    /\ committed \in [Partitions -> Nat]
    /\ pos \in [Instances -> [Partitions -> Nat]]

\* A group without members has well-typed state.
LEMMA GroupInitTyped == GroupInit => GroupTyped
BY GroupAssumption DEF GroupInit, GroupTyped, GroupTypeOK

\* The budget of faults is respected.
LEMMA FaultBudgetTyped == GroupTyped /\ FaultBudget => faults' \in 0..MaxFaults
BY GroupAssumption DEF GroupTyped, GroupTypeOK, FaultBudget

\* Steps that leave the group alone, but may spend a fault, keep the types.
LEMMA GroupUnchangedTyped ==
    ASSUME GroupTyped, UNCHANGED <<committed, owner, assigned, pos>>,
           faults' \in 0..MaxFaults
    PROVE  GroupTyped'
BY DEF GroupTyped, GroupTypeOK

\* on_assign keeps the types when reading starts inside the log.
LEMMA TakeTyped ==
    ASSUME GroupTyped, NEW i \in Instances, NEW p \in Partitions,
           NEW after \in 0..Len(Log[p]), TakeFrom(i, p, after)
    PROVE  GroupTyped'
<1> USE GroupAssumption DEF TakeFrom, GroupTyped, GroupTypeOK
<1>1. after \in Nat
  OBVIOUS
<1>2. pos' \in [Instances -> [Partitions -> Nat]]
  BY <1>1
<1>3. \A j \in Instances : \A q \in Partitions : pos'[j][q] \in 0..Len(Log[q])
  OBVIOUS
<1>4. /\ owner' \in [Partitions -> Instances \union {NoInstance}]
      /\ assigned' \in [Instances -> SUBSET Partitions]
  OBVIOUS
<1> QED
  BY <1>2, <1>3, <1>4

\* poll() keeps the types: it returns messages of the log only.
LEMMA AdvanceTyped ==
    ASSUME GroupTyped, NEW i \in Instances, NEW p \in Partitions, Advance(i, p)
    PROVE  GroupTyped'
<1> USE GroupAssumption DEF Advance, GroupTyped, GroupTypeOK
<1>1. pos[i][p] + 1 \in 0..Len(Log[p])
  OBVIOUS
<1>2. pos' \in [Instances -> [Partitions -> Nat]]
  BY <1>1
<1>3. \A j \in Instances : \A q \in Partitions : pos'[j][q] \in 0..Len(Log[q])
  BY <1>1
<1> QED
  BY <1>2, <1>3

\* release_partitions keeps the types of what it changes.
LEMMA GiveUpTyped ==
    ASSUME GroupTyped, NEW i \in Instances, NEW S, GiveUp(i, S)
    PROVE  /\ assigned' \in [Instances -> SUBSET Partitions]
           /\ owner' \in [Partitions -> Instances \union {NoInstance}]
           /\ pos' \in [Instances -> [Partitions -> Nat]]
           /\ \A j \in Instances : \A q \in Partitions : pos'[j][q] \in 0..Len(Log[q])
<1> USE GroupAssumption DEF GiveUp, GroupTyped, GroupTypeOK
<1>1. /\ assigned' \in [Instances -> SUBSET Partitions]
      /\ owner' \in [Partitions -> Instances \union {NoInstance}]
  OBVIOUS
<1>2. pos' \in [Instances -> [Partitions -> Nat]]
  OBVIOUS
<1>3. \A j \in Instances : \A q \in Partitions : pos'[j][q] \in 0..Len(Log[q])
  OBVIOUS
<1> QED
  BY <1>1, <1>2, <1>3

\* The end of a process keeps the types.
LEMMA DieTyped ==
    ASSUME GroupTyped, NEW i \in Instances, Die(i), faults' \in 0..MaxFaults
    PROVE  GroupTyped'
<1> USE GroupAssumption DEF Die, GroupTyped, GroupTypeOK
<1>1. assigned' \in [Instances -> SUBSET Partitions]
  OBVIOUS
<1>2. pos' \in [Instances -> [Partitions -> Nat]]
  OBVIOUS
<1>3. \A j \in Instances : \A q \in Partitions : pos'[j][q] \in 0..Len(Log[q])
  OBVIOUS
<1> QED
  BY <1>1, <1>2, <1>3

\* The coordinator's expulsion keeps the types.
LEMMA ExpelTyped ==
    ASSUME GroupTyped, NEW i \in Instances, Expel(i)
    PROVE  GroupTyped'
<1>1. faults' \in 0..MaxFaults
  BY FaultBudgetTyped DEF Expel, GroupTyped, GroupTypeOK
<1>2. owner' \in [Partitions -> Instances \union {NoInstance}]
  BY DEF Expel, GroupTyped, GroupTypeOK
<1> QED
  BY <1>1, <1>2 DEF Expel, GroupTyped, GroupTypeOK

\* A commit of offsets inside the log keeps the types.
LEMMA CommitToTyped ==
    ASSUME GroupTyped, NEW offsets, CommitTo(offsets),
           \A p \in Partitions : p \in DOMAIN offsets => offsets[p] \in 0..Len(Log[p])
    PROVE  /\ committed' \in [Partitions -> Nat]
           /\ \A p \in Partitions : committed'[p] \in 0..Len(Log[p])
BY GroupAssumption DEF CommitTo, GroupTyped, GroupTypeOK

-----------------------------------------------------------------------------
(***************************************************************************)
(* Facts about the operations of MinuteWindows.                            *)
(***************************************************************************)

\* Every set of naturals with a member has a smallest one, and Min finds it.
LEMMA MinOfNaturals ==
    ASSUME NEW S \in SUBSET Nat, S # {}
    PROVE  Min(S) \in S /\ \A y \in S : Min(S) =< y
<1>1. OpToRel(<, Nat) = {pair \in Nat \X Nat : pair[1] < pair[2]}
  BY DEF OpToRel
<1>2. IsWellFoundedOn({pair \in Nat \X Nat : pair[1] < pair[2]}, Nat)
  BY <1>1, NatLessThanWellFounded, Zenon
<1>3. PICK x \in S : \A y \in S : <<y, x>> \notin {pair \in Nat \X Nat : pair[1] < pair[2]}
  BY <1>2, WFMin, Zenon
<1>4. ASSUME NEW y \in S PROVE x =< y
  <2>1. <<y, x>> \in Nat \X Nat /\ <<y, x>>[1] = y /\ <<y, x>>[2] = x
    OBVIOUS
  <2>2. ~(y < x)
    BY <2>1, <1>3, Zenon
  <2> QED
    BY <2>2
<1> QED
  BY <1>4 DEF Min

\* The larger of two numbers.
LEMMA MaxOfTwo ==
    ASSUME NEW a \in Int, NEW b \in Int
    PROVE  Max({a, b}) = IF a >= b THEN a ELSE b
<1>1. CASE a >= b
  <2>1. \A y \in {a, b} : a >= y
    BY <1>1
  <2>2. \A x \in {a, b} : (\A y \in {a, b} : x >= y) => x = a
    BY <1>1
  <2> QED
    BY <1>1, <2>1, <2>2 DEF Max
<1>2. CASE ~(a >= b)
  <2>1. \A y \in {a, b} : b >= y
    BY <1>2
  <2>2. \A x \in {a, b} : (\A y \in {a, b} : x >= y) => x = b
    BY <1>2
  <2> QED
    BY <1>2, <2>1, <2>2 DEF Max
<1> QED
  BY <1>1, <1>2

\* The smaller of two numbers.
LEMMA MinOfTwo ==
    ASSUME NEW a \in Int, NEW b \in Int
    PROVE  Min({a, b}) = IF a =< b THEN a ELSE b
<1>1. CASE a =< b
  <2>1. \A y \in {a, b} : a =< y
    BY <1>1
  <2>2. \A x \in {a, b} : (\A y \in {a, b} : x =< y) => x = a
    BY <1>1
  <2> QED
    BY <1>1, <2>1, <2>2 DEF Min
<1>2. CASE ~(a =< b)
  <2>1. \A y \in {a, b} : b =< y
    BY <1>2
  <2>2. \A x \in {a, b} : (\A y \in {a, b} : x =< y) => x = b
    BY <1>2
  <2> QED
    BY <1>2, <2>1, <2>2 DEF Min
<1> QED
  BY <1>1, <1>2

\* A later time is never in an earlier minute.
LEMMA MinutesInOrder ==
    ASSUME NEW a \in Int, NEW b \in Int
    PROVE  /\ MinuteStart(a) \in Int
           /\ a =< b => MinuteStart(a) =< MinuteStart(b)
<1>1. MinuteMs \in Nat \ {0}
  BY WindowsAssumption
<1>2. (a \div MinuteMs) * MinuteMs \in Int
  BY <1>1
<1>3. a =< b => (a \div MinuteMs) * MinuteMs =< (b \div MinuteMs) * MinuteMs
  BY <1>1
<1> QED
  BY <1>2, <1>3 DEF MinuteStart

(***************************************************************************)
(* The values a PartitionState has when n messages of the partition were   *)
(* read.                                                                   *)
(***************************************************************************)
IsState(s) ==
    s = [windows |-> s.windows, last |-> s.last, flushed |-> s.flushed,
         watermark |-> s.watermark, floor |-> s.floor]

WindowState(s, n) ==
    /\ IsState(s)
    /\ s.last \in 0..n
    /\ s.floor \in 0..s.last
    /\ s.watermark \in Nat
    /\ s.flushed \subseteq Int
    /\ \A k \in DOMAIN s.windows : /\ k[2] \in Int
                                   /\ s.windows[k].count \in Nat
                                   /\ s.windows[k].first \in 1..s.last

\* Nothing was read since the state was made.
Blank(s) ==
    /\ DOMAIN s.windows = {} /\ s.flushed = {}
    /\ s.last = 0 /\ s.watermark = 0 /\ s.floor = 0

\* PartitionState() is a blank state.
LEMMA NewStateBlank ==
    /\ Blank(NewState)
    /\ \A n \in Nat : WindowState(NewState, n)
<1>1. Blank(NewState)
  BY DEF Blank, NewState
<1>2. \A n \in Nat : WindowState(NewState, n)
  BY <1>1 DEF WindowState, IsState, NewState, Blank
<1> QED
  BY <1>1, <1>2

\* The assignments that add makes to the last offset and the watermark.
LEMMA SetLastAndMark ==
    ASSUME NEW s, IsState(s), NEW a, NEW b
    PROVE  [s EXCEPT !.last = a, !.watermark = b] =
               [windows |-> s.windows, last |-> a, flushed |-> s.flushed,
                watermark |-> b, floor |-> s.floor]
<1>1. PICK q : q = [s EXCEPT !.last = a]
  OBVIOUS
<1>2. q = [windows |-> s.windows, last |-> a, flushed |-> s.flushed,
           watermark |-> s.watermark, floor |-> s.floor]
  <2>1. PICK w, l, f, m, r : s = [windows |-> w, last |-> l, flushed |-> f,
                                  watermark |-> m, floor |-> r]
    BY Zenon DEF IsState
  <2> QED
    BY <1>1, <2>1
<1>3. [q EXCEPT !.watermark = b] =
          [windows |-> s.windows, last |-> a, flushed |-> s.flushed,
           watermark |-> b, floor |-> s.floor]
  BY <1>2
<1> QED
  BY <1>1, <1>3, Zenon

\* The assignments to the windows and to the flushed minutes.
LEMMA SetWindowsAndFlushed ==
    ASSUME NEW s, IsState(s), NEW a, NEW b
    PROVE  [s EXCEPT !.windows = a, !.flushed = b] =
               [windows |-> a, last |-> s.last, flushed |-> b,
                watermark |-> s.watermark, floor |-> s.floor]
<1>1. PICK q : q = [s EXCEPT !.windows = a]
  OBVIOUS
<1>2. q = [windows |-> a, last |-> s.last, flushed |-> s.flushed,
           watermark |-> s.watermark, floor |-> s.floor]
  <2>1. PICK w, l, f, m, r : s = [windows |-> w, last |-> l, flushed |-> f,
                                  watermark |-> m, floor |-> r]
    BY Zenon DEF IsState
  <2> QED
    BY <1>1, <2>1
<1>3. [q EXCEPT !.flushed = b] =
          [windows |-> a, last |-> s.last, flushed |-> b,
           watermark |-> s.watermark, floor |-> s.floor]
  BY <1>2
<1> QED
  BY <1>1, <1>3, Zenon

\* The same with the floor of a final flush.
LEMMA SetWindowsFlushedFloor ==
    ASSUME NEW s, IsState(s), NEW a, NEW b, NEW c
    PROVE  [s EXCEPT !.windows = a, !.flushed = b, !.floor = c] =
               [windows |-> a, last |-> s.last, flushed |-> b,
                watermark |-> s.watermark, floor |-> c]
<1>1. PICK q : q = [s EXCEPT !.windows = a, !.flushed = b]
  OBVIOUS
<1>2. q = [windows |-> a, last |-> s.last, flushed |-> b,
           watermark |-> s.watermark, floor |-> s.floor]
  BY <1>1, SetWindowsAndFlushed, Zenon
<1>3. [q EXCEPT !.floor = c] = [windows |-> a, last |-> s.last, flushed |-> b,
                                watermark |-> s.watermark, floor |-> c]
  BY <1>2
<1> QED
  BY <1>1, <1>3, Zenon

\* _enforce_cap: what stays are windows there were, and a minute stays or goes as
\* a whole.
LEMMA CapFacts ==
    ASSUME NEW s, IsState(s), \A k \in DOMAIN s.windows : k[2] \in Int
    PROVE  \E keep \in SUBSET DOMAIN s.windows :
               /\ EnforceCap(s) =
                     [windows |-> [k \in keep |-> s.windows[k]], last |-> s.last,
                      flushed |-> s.flushed \union {k[2] : k \in DOMAIN s.windows \ keep},
                      watermark |-> s.watermark, floor |-> s.floor]
               /\ \A a \in keep : \A b \in DOMAIN s.windows \ keep : a[2] # b[2]
<1> DEFINE minutes == {k[2] : k \in DOMAIN s.windows}
           From(m) == {k \in DOMAIN s.windows : k[2] >= m}
           few == {n \in minutes : Cardinality(From(n)) =< MaxWindows}
           keep == IF Cardinality(DOMAIN s.windows) =< MaxWindows THEN DOMAIN s.windows
                   ELSE UNION {From(m) : m \in few}
<1>1. EnforceCap(s) =
          [windows |-> [k \in keep |-> s.windows[k]], last |-> s.last,
           flushed |-> s.flushed \union {k[2] : k \in DOMAIN s.windows \ keep},
           watermark |-> s.watermark, floor |-> s.floor]
  <2>1. EnforceCap(s) =
            [s EXCEPT !.windows = [k \in keep |-> s.windows[k]],
                      !.flushed = @ \union {k[2] : k \in DOMAIN s.windows \ keep}]
    BY Zenon DEF EnforceCap
  <2> HIDE DEF keep
  <2> QED
    BY <2>1, SetWindowsAndFlushed, Zenon
<1>2. keep \in SUBSET DOMAIN s.windows
  OBVIOUS
<1>3. ASSUME NEW a \in keep, NEW b \in DOMAIN s.windows \ keep, a[2] = b[2] PROVE FALSE
  <2>1. PICK m \in few : a \in From(m)
    BY Zenon
  <2>2. b \in From(m)
    BY <2>1, <1>3, Zenon
  <2> QED
    BY <2>1, <2>2, Zenon
<1> HIDE DEF keep
<1> QED
  BY <1>1, <1>2, <1>3, Zenon

(***************************************************************************)
(* What add does to a state s when message n + 1 comes after n messages,   *)
(* in the terms the proofs need: it leaves other windows and the floor     *)
(* alone, and the message is turned away (Refused), forces its own minute  *)
(* out, or is counted.                                                     *)
(***************************************************************************)
OneMore(windows, key, offset) ==
    IF key \in DOMAIN windows
    THEN [count |-> windows[key].count + 1, first |-> windows[key].first]
    ELSE [count |-> 1, first |-> offset]

Refused(s, t, key) ==
    /\ t.windows = s.windows /\ t.flushed = s.flushed
    /\ key[2] < ClosedBefore(t) \/ (key[2] \in s.flushed /\ key \notin DOMAIN s.windows)

TakenIn(s, t, key, offset) ==
    /\ key \in DOMAIN s.windows \/ key[2] \notin s.flushed
    /\ key \in DOMAIN t.windows \/ key[2] \in t.flushed
    /\ key \in DOMAIN t.windows => t.windows[key] = OneMore(s.windows, key, offset)

Added(s, t, offset, msg) ==
    /\ t.last = offset /\ t.floor = s.floor
    /\ t.watermark = IF s.watermark >= msg.time THEN s.watermark ELSE msg.time
    /\ s.flushed \subseteq t.flushed
    /\ \A k \in DOMAIN t.windows :
           /\ k # KeyOf(msg) => k \in DOMAIN s.windows /\ t.windows[k] = s.windows[k]
           /\ k[2] \in t.flushed => k[2] \in s.flushed
    /\ \A k \in DOMAIN s.windows : k \in DOMAIN t.windows \/ k[2] \in t.flushed
    /\ Refused(s, t, KeyOf(msg)) \/ TakenIn(s, t, KeyOf(msg), offset)

\* What Counting returns: one more edit in the key's window, which keeps its
\* first offset.
LEMMA CountingFacts ==
    ASSUME NEW n \in Nat, NEW s, WindowState(s, n), NEW key, NEW w,
           w = Counting(s.windows, key, n + 1)
    PROVE  /\ DOMAIN w = DOMAIN s.windows \union {key}
           /\ \A k \in DOMAIN w : k # key => w[k] = s.windows[k]
           /\ w[key] = OneMore(s.windows, key, n + 1)
<1>1. DOMAIN w = DOMAIN s.windows \union {key}
  BY DEF Counting
<1>2. \A k \in DOMAIN w : k # key => w[k] = s.windows[k]
  BY DEF Counting
<1>3. CASE key \in DOMAIN s.windows
  <2>1. s.windows[key].first \in 1..n
    BY <1>3 DEF WindowState, IsState
  <2>2. Min({s.windows[key].first, n + 1}) = s.windows[key].first
    BY <2>1, MinOfTwo
  <2>3. w[key] = [count |-> s.windows[key].count + 1,
                  first |-> Min({s.windows[key].first, n + 1})]
    BY <1>3 DEF Counting
  <2> QED
    BY <1>1, <1>2, <1>3, <2>2, <2>3 DEF OneMore
<1>4. CASE key \notin DOMAIN s.windows
  <2>1. w[key] = [count |-> 1, first |-> n + 1]
    BY <1>4 DEF Counting
  <2> QED
    BY <1>1, <1>2, <1>4, <2>1 DEF OneMore
<1> QED
  BY <1>3, <1>4

\* add does what Added says and leaves a well-formed state.
LEMMA AddFacts ==
    ASSUME NEW n \in Nat, NEW s, WindowState(s, n), NEW msg, msg.time \in Nat
    PROVE  /\ Added(s, Add(s, n + 1, msg), n + 1, msg)
           /\ WindowState(Add(s, n + 1, msg), n + 1)
<1> DEFINE key == KeyOf(msg)
           mark == IF s.watermark >= msg.time THEN s.watermark ELSE msg.time
           seen == [windows |-> s.windows, last |-> n + 1, flushed |-> s.flushed,
                    watermark |-> mark, floor |-> s.floor]
<1>0. Max({s.last, n + 1}) = n + 1 /\ Max({s.watermark, msg.time}) = mark
  BY MaxOfTwo DEF WindowState
<1>3. mark \in Nat
  BY DEF WindowState
<1>m. mark = IF s.watermark >= msg.time THEN s.watermark ELSE msg.time
  OBVIOUS
<1> HIDE DEF mark
<1>1. [s EXCEPT !.last = Max({@, n + 1}), !.watermark = Max({@, msg.time})] = seen
  BY <1>0, SetLastAndMark, Zenon DEF WindowState
<1>2. key[2] \in Int
  BY MinutesInOrder DEF KeyOf
<1>4. CASE Rejects(seen, key)
  <2>1. Add(s, n + 1, msg) = seen
    BY <1>1, <1>4, Zenon DEF Add
  <2>2. Refused(s, seen, key)
    BY <1>4 DEF Rejects, Refused
  <2>3. Added(s, seen, n + 1, msg)
    BY <2>2, <1>m DEF Added
  <2>4. WindowState(seen, n + 1)
    BY <1>3 DEF WindowState, IsState
  <2> QED
    BY <2>1, <2>3, <2>4
<1>5. CASE ~Rejects(seen, key)
  <2>0. PICK w : w = Counting(s.windows, key, n + 1)
    OBVIOUS
  <2>1. PICK u : u = [windows |-> w, last |-> n + 1, flushed |-> s.flushed,
                      watermark |-> mark, floor |-> s.floor]
    OBVIOUS
  <2>2. Add(s, n + 1, msg) = EnforceCap(u)
    <3>1. [seen EXCEPT !.windows = Counting(@, key, n + 1)] = u
      BY <2>0, <2>1
    <3> QED
      BY <1>1, <1>5, <3>1, Zenon DEF Add
  <2>3. /\ DOMAIN w = DOMAIN s.windows \union {key}
        /\ \A k \in DOMAIN w : k # key => w[k] = s.windows[k]
        /\ w[key] = OneMore(s.windows, key, n + 1)
    <3>1. \A k, v : v = Counting(s.windows, k, n + 1) =>
              /\ DOMAIN v = DOMAIN s.windows \union {k}
              /\ \A j \in DOMAIN v : j # k => v[j] = s.windows[j]
              /\ v[k] = OneMore(s.windows, k, n + 1)
      BY CountingFacts, ZenonT(40)
    <3> QED
      BY <2>0, <3>1, ZenonT(40)
  <2>4. \A k \in DOMAIN w : /\ k[2] \in Int /\ w[k].count \in Nat
                            /\ w[k].first \in 1..(n + 1)
    <3> SUFFICES ASSUME NEW k \in DOMAIN w
                 PROVE  /\ k[2] \in Int /\ w[k].count \in Nat
                        /\ w[k].first \in 1..(n + 1)
      OBVIOUS
    <3>1. \A j \in DOMAIN s.windows : /\ j[2] \in Int /\ s.windows[j].count \in Nat
                                      /\ s.windows[j].first \in 1..n
      BY DEF WindowState
    <3>2. CASE k # key
      BY <3>1, <3>2, <2>3
    <3>3. CASE k = key
      BY <3>1, <3>3, <2>3, <1>2 DEF OneMore
    <3> QED
      BY <3>2, <3>3
  <2>5. PICK keep \in SUBSET DOMAIN u.windows :
            /\ EnforceCap(u) =
                  [windows |-> [k \in keep |-> u.windows[k]], last |-> u.last,
                   flushed |-> u.flushed \union {k[2] : k \in DOMAIN u.windows \ keep},
                   watermark |-> u.watermark, floor |-> u.floor]
            /\ \A a \in keep : \A b \in DOMAIN u.windows \ keep : a[2] # b[2]
    <3>1. (\A k \in DOMAIN u.windows : k[2] \in Int) /\ IsState(u)
      BY <2>1, <2>4 DEF IsState
    <3> QED
      BY <3>1, CapFacts, Zenon
  <2> DEFINE out == s.flushed \union {k[2] : k \in DOMAIN w \ keep}
             t == [windows |-> [k \in keep |-> w[k]], last |-> n + 1,
                   flushed |-> out, watermark |-> mark, floor |-> s.floor]
  <2>6. EnforceCap(u) = t
    BY <2>1, <2>5
  <2>7. keep \subseteq DOMAIN w /\ \A a \in keep : \A b \in DOMAIN w \ keep : a[2] # b[2]
    BY <2>1, <2>5
  <2>8. \A k \in DOMAIN w \ keep : k[2] \in out
    OBVIOUS
  <2>9. \A k \in keep : k[2] \in out => k[2] \in s.flushed
    BY <2>7
  <2>10. out \subseteq Int
    BY <2>4 DEF WindowState
  <2> HIDE DEF out
  <2>11. TakenIn(s, t, key, n + 1)
    <3>1. key \in DOMAIN s.windows \/ key[2] \notin s.flushed
      BY <1>5 DEF Rejects
    <3>2. key \in keep \/ key[2] \in out
      BY <2>3, <2>8
    <3> QED
      BY <3>1, <3>2, <2>3 DEF TakenIn
  <2>12. s.flushed \subseteq out
    BY DEF out
  <2>13. Added(s, t, n + 1, msg)
    BY <1>m, <2>3, <2>7, <2>8, <2>9, <2>11, <2>12 DEF Added
  <2>14. WindowState(t, n + 1)
    <3>1. s.floor \in 0..(n + 1)
      BY DEF WindowState
    <3> QED
      BY <3>1, <1>3, <2>4, <2>7, <2>10 DEF WindowState, IsState
  <2> QED
    BY <2>2, <2>6, <2>13, <2>14
<1> QED
  BY <1>4, <1>5

(***************************************************************************)
(* What pop_closed does to a state s, in the terms the proofs need: the    *)
(* windows it returns are gone, and those of minutes that are not over yet *)
(* leave a floor at or before their first offset.                          *)
(***************************************************************************)
Popped(s, t, final) ==
    /\ t.last = s.last /\ t.watermark = s.watermark
    /\ DOMAIN t.windows = DOMAIN s.windows \ Done(s, final)
    /\ \A k \in DOMAIN t.windows : /\ t.windows[k] = s.windows[k]
                                   /\ k[2] \in t.flushed => k[2] \in s.flushed
    /\ s.floor # 0 => t.floor # 0 /\ t.floor =< s.floor
    /\ \A k \in Done(s, final) : \/ k[2] < ClosedBefore(s)
                                 \/ t.floor # 0 /\ t.floor =< s.windows[k].first
    /\ t.floor = s.floor \/ \E k \in Done(s, final) : t.floor = s.windows[k].first
    /\ \A m \in t.flushed : m \in s.flushed \/ t.floor # 0

\* PartialFloor is the smallest of the floor there was and the first offsets of
\* the windows written before their minute was over.
LEMMA FloorFacts ==
    ASSUME NEW n, NEW s, WindowState(s, n), NEW partial \in SUBSET DOMAIN s.windows
    PROVE  LET f == PartialFloor(s, partial)
           IN /\ f \in Nat
              /\ f = s.floor \/ \E k \in partial : f = s.windows[k].first
              /\ s.floor # 0 => f # 0 /\ f =< s.floor
              /\ \A k \in partial : f # 0 /\ f =< s.windows[k].first
<1> DEFINE firsts == {s.windows[k].first : k \in partial}
           all == firsts \union (IF s.floor = 0 THEN {} ELSE {s.floor})
<1>1. s.floor \in Nat /\ \A k \in partial : s.windows[k].first \in Nat \ {0}
  BY DEF WindowState
<1>2. all \in SUBSET (Nat \ {0})
  BY <1>1
<1>3. PartialFloor(s, partial) = IF firsts = {} THEN s.floor ELSE Min(all)
  BY DEF PartialFloor
<1>4. CASE firsts = {}
  BY <1>1, <1>3, <1>4
<1>5. CASE firsts # {}
  <2>1. all \in SUBSET Nat /\ all # {}
    BY <1>2, <1>5
  <2>2. /\ \A k \in partial : s.windows[k].first \in all
        /\ s.floor # 0 => s.floor \in all
        /\ \A x \in all : x = s.floor \/ \E k \in partial : x = s.windows[k].first
    OBVIOUS
  <2> HIDE DEF all
  <2>3. Min(all) \in all /\ \A y \in all : Min(all) =< y
    BY <2>1, MinOfNaturals
  <2>4. Min(all) \in Nat \ {0}
    BY <2>3, <1>2
  <2>5. PartialFloor(s, partial) = Min(all)
    BY <1>3, <1>5
  <2> HIDE DEF firsts
  <2> QED
    BY <2>2, <2>3, <2>4, <2>5
<1> QED
  BY <1>4, <1>5

\* pop_closed does what Popped says, leaves a well-formed state, and does nothing
\* to a blank one.
LEMMA PopFacts ==
    ASSUME NEW n \in Nat, NEW s, WindowState(s, n), NEW final \in BOOLEAN
    PROVE  /\ Popped(s, PopClosed(s, final), final)
           /\ WindowState(PopClosed(s, final), n)
           /\ Blank(s) => Blank(PopClosed(s, final))
<1> DEFINE done == Done(s, final)
           partial == {k \in done : k[2] >= ClosedBefore(s)}
           rest == DOMAIN s.windows \ done
           out == {m \in s.flushed \union {k[2] : k \in done} : m >= ClosedBefore(s)}
           f == PartialFloor(s, partial)
           t == [windows |-> [k \in rest |-> s.windows[k]], last |-> s.last,
                 flushed |-> out, watermark |-> s.watermark, floor |-> f]
<1>1. PopClosed(s, final) = t
  <2>1. PopClosed(s, final) = [s EXCEPT !.windows = [k \in rest |-> s.windows[k]],
                                        !.flushed = out, !.floor = f]
    BY Zenon DEF PopClosed
  <2> HIDE DEF rest, out, f
  <2> QED
    BY <2>1, SetWindowsFlushedFloor, Zenon DEF WindowState
<1>2. ClosedBefore(s) \in Int
  BY MinutesInOrder, WindowsAssumption DEF ClosedBefore, WindowState
<1>3. /\ done \subseteq DOMAIN s.windows
      /\ \A k \in DOMAIN s.windows : k[2] \in Int
      /\ \A k \in rest : k[2] >= ClosedBefore(s) /\ final = FALSE
      /\ \A k \in done : final = FALSE => k[2] < ClosedBefore(s)
  BY <1>2 DEF Done, WindowState
<1>4. out \subseteq Int
  BY <1>3 DEF WindowState
<1>5. \A k \in rest : k[2] \in out => k[2] \in s.flushed
  BY <1>2, <1>3
<1>6. \A m \in out : m \in s.flushed \/ partial # {}
  OBVIOUS
<1>7. partial \in SUBSET DOMAIN s.windows
  BY <1>3
<1>8. /\ f \in Nat
      /\ f = s.floor \/ \E k \in partial : f = s.windows[k].first
      /\ s.floor # 0 => f # 0 /\ f =< s.floor
      /\ \A k \in partial : f # 0 /\ f =< s.windows[k].first
  <2> HIDE DEF partial
  <2> QED
    BY <1>7, FloorFacts, Zenon
<1>9. \A k \in done : k[2] < ClosedBefore(s) \/ k \in partial
  BY <1>2, <1>3
<1>10. partial \subseteq done
  OBVIOUS
<1>11. ASSUME Blank(s) PROVE DOMAIN [k \in rest |-> s.windows[k]] = {} /\ out = {} /\ f = 0
  BY <1>11, <1>3, <1>8, <1>10 DEF Blank
<1> HIDE DEF f, out, partial
<1>12. Popped(s, t, final)
  <2>1. f = s.floor \/ \E k \in Done(s, final) : f = s.windows[k].first
    BY <1>8, <1>10
  <2>2. \A k \in Done(s, final) : k[2] < ClosedBefore(s) \/ (f # 0 /\ f =< s.windows[k].first)
    BY <1>8, <1>9
  <2>3. \A m \in out : m \in s.flushed \/ f # 0
    BY <1>6, <1>8
  <2> QED
    BY <2>1, <2>2, <2>3, <1>5, <1>8 DEF Popped
<1>13. WindowState(t, n)
  <2>1. f \in 0..s.last
    BY <1>7, <1>8 DEF WindowState
  <2> QED
    BY <2>1, <1>3, <1>4 DEF WindowState, IsState
<1>14. Blank(s) => Blank(t)
  BY <1>11 DEF Blank
<1> QED
  BY <1>1, <1>12, <1>13, <1>14

\* commit_offsets: the offset is inside what was read, and before the first
\* message of every window that is open or was written before its minute was over.
LEMMA CommitFacts ==
    ASSUME NEW n \in Nat, NEW s, WindowState(s, n)
    PROVE  LET c == CommitOffset(s)
           IN /\ c \in 0..s.last
              /\ \A k \in DOMAIN s.windows : c < s.windows[k].first
              /\ s.floor # 0 => c < s.floor
              /\ \/ c = s.last
                 \/ s.floor # 0 /\ c = s.floor - 1
                 \/ \E k \in DOMAIN s.windows : c = s.windows[k].first - 1
<1> DEFINE needed == {s.windows[k].first : k \in DOMAIN s.windows}
                     \union (IF s.floor = 0 THEN {} ELSE {s.floor})
<1>1. /\ s.last \in Nat /\ s.floor \in 0..s.last
      /\ \A k \in DOMAIN s.windows : s.windows[k].first \in 1..s.last
  BY DEF WindowState
<1>2. needed \in SUBSET (1..s.last)
  BY <1>1
<1>3. /\ \A k \in DOMAIN s.windows : s.windows[k].first \in needed
      /\ s.floor # 0 => s.floor \in needed
      /\ \A x \in needed : \/ s.floor # 0 /\ x = s.floor
                           \/ \E k \in DOMAIN s.windows : x = s.windows[k].first
  OBVIOUS
<1>4. CommitOffset(s) = IF needed = {} THEN s.last ELSE Min(needed) - 1
  BY DEF CommitOffset
<1> HIDE DEF needed
<1>5. CASE needed = {}
  BY <1>1, <1>3, <1>4, <1>5
<1>6. CASE needed # {}
  <2>1. Min(needed) \in needed /\ \A y \in needed : Min(needed) =< y
    <3>1. needed \in SUBSET Nat
      BY <1>1, <1>2
    <3> QED
      BY <3>1, <1>6, MinOfNaturals
  <2>2. PICK x \in needed : x = Min(needed) /\ CommitOffset(s) = x - 1
    BY <2>1, <1>4, <1>6
  <2>3. \A y \in needed : y \in 1..s.last /\ x - 1 < y
    BY <1>2, <2>1, <2>2
  <2> QED
    BY <1>1, <1>2, <1>3, <2>2, <2>3
<1> QED
  BY <1>5, <1>6

-----------------------------------------------------------------------------
(***************************************************************************)
(* Facts about the log: the reference's edits of a key, and late edits.    *)
(***************************************************************************)

\* The edits for a key among the first n messages of p, late or not.
Edits(p, key, n) == {o \in Readable(p) \cap 1..n : KeyOf(Log[p][o]) = key}

\* The positions of a log are finitely many naturals.
LEMMA LogLength ==
    ASSUME NEW p \in Partitions
    PROVE  Len(Log[p]) \in Nat /\ Readable(p) \subseteq 1..Len(Log[p])
BY GroupAssumption DEF Readable, Offsets

\* The edits of a key among the first n messages are finitely many, and some of
\* them are at most as many.
LEMMA EditsFinite ==
    ASSUME NEW n \in Nat, NEW S \in SUBSET (1..n)
    PROVE  /\ IsFiniteSet(S) /\ Cardinality(S) \in Nat
           /\ \A T \in SUBSET S : Cardinality(T) \in Nat /\ Cardinality(T) =< Cardinality(S)
<1>1. IsFiniteSet(1..n)
  BY FS_Interval
<1>2. IsFiniteSet(S)
  BY <1>1, FS_Subset
<1>3. \A T \in SUBSET S : IsFiniteSet(T) /\ Cardinality(T) =< Cardinality(S)
  BY <1>2, FS_Subset
<1> QED
  BY <1>2, <1>3, FS_CardinalityType

\* Reading one message adds it to the edits of its key.
LEMMA EditAdded ==
    ASSUME NEW p \in Partitions, NEW n \in Nat, n + 1 \in Readable(p),
           NEW key, KeyOf(Log[p][n + 1]) = key
    PROVE  /\ Edits(p, key, n + 1) = Edits(p, key, n) \union {n + 1}
           /\ n + 1 \notin Edits(p, key, n) /\ Edits(p, key, n) \subseteq 1..n
<1>1. 1..(n + 1) = 1..n \union {n + 1} /\ n + 1 \notin 1..n
  OBVIOUS
<1> QED
  BY <1>1 DEF Edits

\* It adds the message to the edits in time, unless it is late.
LEMMA OnTimeAdded ==
    ASSUME NEW p \in Partitions, NEW n \in Nat, n + 1 \in Readable(p),
           NEW key, KeyOf(Log[p][n + 1]) = key
    PROVE  /\ Late(p, n + 1) => OnTime(p, key, n + 1) = OnTime(p, key, n)
           /\ OnTime(p, key, n + 1) \subseteq OnTime(p, key, n) \union {n + 1}
           /\ n + 1 \notin OnTime(p, key, n) /\ OnTime(p, key, n) \subseteq 1..n
<1>1. 1..(n + 1) = 1..n \union {n + 1} /\ n + 1 \notin 1..n
  OBVIOUS
<1> QED
  BY <1>1 DEF OnTime

\* It adds nothing to other keys.
LEMMA OthersSame ==
    ASSUME NEW p \in Partitions, NEW n \in Nat, NEW key,
           n + 1 \notin Readable(p) \/ KeyOf(Log[p][n + 1]) # key
    PROVE  OnTime(p, key, n + 1) = OnTime(p, key, n)
<1>1. 1..(n + 1) = 1..n \union {n + 1}
  OBVIOUS
<1> QED
  BY <1>1 DEF OnTime

\* What was read is still there when more was read.
LEMMA OnTimeGrows ==
    ASSUME NEW p \in Partitions, NEW key, NEW m \in Nat, NEW n \in Nat, m =< n
    PROVE  /\ OnTime(p, key, m) \subseteq OnTime(p, key, n)
           /\ Edits(p, key, m) \subseteq Edits(p, key, n)
           /\ OnTime(p, key, n) \subseteq 1..n /\ Edits(p, key, n) \subseteq 1..n
           /\ \A o \in OnTime(p, key, n) : o =< m => o \in OnTime(p, key, m)
BY DEF OnTime, Edits

\* Among the readable messages up to n, if there are any, one is the latest: it is
\* found by taking the smallest n for which there would be none.
LEMMA LatestExists ==
    ASSUME NEW p \in Partitions, NEW n \in Nat, Readable(p) \cap 1..n # {}
    PROVE  \E o \in Readable(p) \cap 1..n :
               \A x \in Readable(p) \cap 1..n : Log[p][x].time =< Log[p][o].time
<1> DEFINE Upto(m) == Readable(p) \cap 1..m
           HasLatest(m) == \E o \in Upto(m) :
                               \A x \in Upto(m) : Log[p][x].time =< Log[p][o].time
           bad == {m \in Nat : Upto(m) # {} /\ ~HasLatest(m)}
<1>1. \A x \in Readable(p) : Log[p][x].time \in Nat
  BY LogAssumption
<1>2. ASSUME bad # {} PROVE FALSE
  <2>1. PICK m \in bad : \A y \in bad : m =< y
    <3>1. bad \in SUBSET Nat
      OBVIOUS
    <3> HIDE DEF bad
    <3> QED
      BY <1>2, <3>1, MinOfNaturals
  <2>2. m \in Nat /\ Upto(m) # {} /\ ~HasLatest(m)
    OBVIOUS
  <2>3. m # 0
    BY <2>2
  <2>4. m - 1 \in Nat /\ m - 1 \notin bad
    BY <2>1, <2>2, <2>3
  <2>5. Upto(m) \subseteq Upto(m - 1) \union {m} /\ Upto(m - 1) \subseteq Upto(m)
    BY <2>2, <2>3
  <2>6. CASE Upto(m - 1) = {}
    <3>1. Upto(m) = {m}
      BY <2>2, <2>5, <2>6
    <3> QED
      BY <3>1, <2>2, <1>1
  <2>7. CASE HasLatest(m - 1)
    <3>1. PICK o \in Upto(m - 1) : \A x \in Upto(m - 1) : Log[p][x].time =< Log[p][o].time
      BY <2>7
    <3>2. CASE m \notin Upto(m)
      <4>1. Upto(m) = Upto(m - 1)
        BY <3>2, <2>5
      <4> QED
        BY <4>1, <2>2, <3>1
    <3>3. CASE m \in Upto(m) /\ Log[p][m].time =< Log[p][o].time
      <4>1. \A x \in Upto(m) : Log[p][x].time =< Log[p][o].time
        BY <3>1, <3>3, <2>5
      <4> QED
        BY <4>1, <2>2, <2>5
    <3>4. CASE m \in Upto(m) /\ ~(Log[p][m].time =< Log[p][o].time)
      <4>1. ASSUME NEW x \in Upto(m) PROVE Log[p][x].time =< Log[p][m].time
        <5>1. CASE x = m
          BY <5>1, <1>1
        <5>2. CASE x \in Upto(m - 1)
          <6>1. Log[p][x].time =< Log[p][o].time
            BY <5>2, <3>1
          <6>2. Log[p][x].time \in Nat /\ Log[p][o].time \in Nat /\ Log[p][m].time \in Nat
            BY <5>2, <3>4, <1>1
          <6> QED
            BY <6>1, <6>2, <3>4
        <5> QED
          BY <5>1, <5>2, <2>5
      <4> QED
        BY <4>1, <3>4, <2>2
    <3> QED
      BY <3>2, <3>3, <3>4
  <2> QED
    BY <2>4, <2>6, <2>7
<1> QED
  BY <1>2

\* The watermark is the time of a message among the first n, if there was one.
MarkSeen(s, p, n) ==
    s.watermark = 0 \/ \E o \in Readable(p) \cap 1..n : Log[p][o].time = s.watermark

\* Once a window's minute is closed every further edit for it is late.
LEMMA LateOnceClosed ==
    ASSUME NEW p \in Partitions, NEW n \in Nat, NEW s, s.watermark \in Nat,
           MarkSeen(s, p, n), NEW o \in Readable(p), n =< o,
           KeyOf(Log[p][o])[2] < ClosedBefore(s)
    PROVE  Late(p, o)
<1> DEFINE times == {Log[p][x].time : x \in Readable(p) \cap 1..o}
<1>1. o \in Nat /\ o \in Readable(p) \cap 1..o
  BY LogLength
<1>2. \A x \in Readable(p) : Log[p][x].time \in Nat
  BY LogAssumption
<1>3. PICK m \in Readable(p) \cap 1..o :
          \A x \in Readable(p) \cap 1..o : Log[p][x].time =< Log[p][m].time
  BY <1>1, LatestExists
<1>4. /\ Log[p][m].time \in times
      /\ \A t \in times : t =< Log[p][m].time /\ t \in Nat
  BY <1>2, <1>3
<1>5. Max(times) \in times /\ \A t \in times : Max(times) >= t
  <2> HIDE DEF times
  <2>1. \E t \in times : \A y \in times : t >= y
    BY <1>4
  <2> QED
    BY <2>1 DEF Max
<1>6. s.watermark =< Max(times) /\ Max(times) \in Nat
  <2>1. CASE s.watermark = 0
    BY <2>1, <1>4, <1>5
  <2>2. CASE s.watermark # 0
    <3>1. PICK x \in Readable(p) \cap 1..n : Log[p][x].time = s.watermark
      BY <2>2 DEF MarkSeen
    <3>2. x \in Readable(p) \cap 1..o
      BY <1>1
    <3> QED
      BY <3>1, <3>2, <1>4, <1>5
  <2> QED
    BY <2>1, <2>2
<1> HIDE DEF times
<1>7. MinuteStart(s.watermark - LatenessMs) =< MinuteStart(Max(times) - LatenessMs)
  <2>1. LatenessMs \in Nat
    BY WindowsAssumption
  <2>2. /\ s.watermark - LatenessMs \in Int /\ Max(times) - LatenessMs \in Int
        /\ s.watermark - LatenessMs =< Max(times) - LatenessMs
    BY <2>1, <1>6
  <2> QED
    BY <2>2, MinutesInOrder
<1>8. /\ MinuteStart(s.watermark - LatenessMs) \in Int
      /\ MinuteStart(Max(times) - LatenessMs) \in Int
      /\ KeyOf(Log[p][o])[2] \in Int
  BY <1>2, <1>6, MinutesInOrder, WindowsAssumption DEF KeyOf
<1>9. KeyOf(Log[p][o])[2] < MinuteStart(Max(times) - LatenessMs)
  BY <1>7, <1>8 DEF ClosedBefore
<1> QED
  BY <1>9 DEF Late, times

-----------------------------------------------------------------------------
(***************************************************************************)
(* The type invariant. A partition's windows are of keys of its own edits, *)
(* and no offset in it is past what was read.                              *)
(***************************************************************************)
MemTyped ==
    /\ DOMAIN mem = Instances
    /\ \A i \in Instances : DOMAIN mem[i] = Partitions
    /\ \A i \in Instances : \A p \in Partitions :
           /\ WindowState(mem[i][p], pos[i][p])
           /\ \A k \in DOMAIN mem[i][p].windows : Edits(p, k, pos[i][p]) # {}

LocalTyped ==
    /\ pc \in [Instances -> {"down", "poll", "commit", "revoke", "stop"}]
    /\ giving \in [Instances -> SUBSET Partitions]

Typed == GroupTyped /\ LocalTyped /\ MemTyped /\ table \in [Keys -> Nat]

\* Typed contains the type invariant.
LEMMA TypedImplies == Typed => TypeOK
BY DEF Typed, GroupTyped, LocalTyped, TypeOK

\* The initial state is type correct.
LEMMA TypeInit == Init => Typed
<1> SUFFICES ASSUME Init PROVE Typed
  OBVIOUS
<1>1. GroupTyped
  BY GroupInitTyped DEF Init
<1>2. LocalTyped
  BY DEF Init, GroupInit, LocalTyped
<1>3. MemTyped
  <2>1. \A i \in Instances : \A p \in Partitions : mem[i][p] = NewState /\ pos[i][p] = 0
    BY DEF Init, GroupInit
  <2>2. DOMAIN mem = Instances /\ \A i \in Instances : DOMAIN mem[i] = Partitions
    BY DEF Init
  <2>3. WindowState(NewState, 0) /\ DOMAIN NewState.windows = {}
    BY NewStateBlank DEF Blank
  <2> QED
    BY <2>1, <2>2, <2>3 DEF MemTyped
<1>4. table \in [Keys -> Nat]
  BY DEF Init
<1> QED
  BY <1>1, <1>2, <1>3, <1>4 DEF Typed

(***************************************************************************)
(* What the steps other than on_assign, add and a flush's write do: they   *)
(* carry over a partition's windows, or drop windows and partition, and    *)
(* make nobody an owner.                                                   *)
(***************************************************************************)
Carried ==
    /\ UNCHANGED <<table, dropped>>
    /\ DOMAIN mem' = Instances /\ \A j \in Instances : DOMAIN mem'[j] = Partitions
    /\ \A j \in Instances : \A q \in Partitions :
           \/ /\ mem'[j][q] = mem[j][q] /\ pos'[j][q] = pos[j][q]
              /\ q \in assigned'[j] <=> q \in assigned[j]
           \/ mem'[j][q] = NewState /\ q \notin assigned'[j]
    /\ \A j \in Instances : \A q \in Partitions :
           q \in assigned'[j] /\ owner'[q] = j => q \in assigned[j] /\ owner[q] = j

Commits(i) == CommitAccepted(i, Needed(i)) /\ CommitTo(Needed(i))

Writes(i, final) ==
    WriteClosed(i, final) /\ UNCHANGED <<committed, owner, assigned, pos, dropped>>

\* The ways a process ends without a last flush.
Ends(i) ==
    \/ CommitRefused(i) \/ Crash(i)
    \/ FlushRefused(i) \/ LostRefused(i) \/ ReleaseRefused(i)

\* Such an end spends a fault or none.
LEMMA EndsExit ==
    ASSUME NEW i \in Instances, Ends(i)
    PROVE  Exit(i) /\ (UNCHANGED faults \/ FaultBudget)
BY DEF Ends, CommitRefused, Crash, FlushRefused, LostRefused, ReleaseRefused, WriteRefused

\* Every step is of one of five kinds.
LEMMA StepKinds ==
    ASSUME Typed, [Next]_vars
    PROVE  \/ Carried /\ UNCHANGED committed
           \/ Carried /\ \E i \in Instances : Commits(i)
           \/ \E i \in Instances : \E p \in Partitions : Assign(i, p) \/ Receive(i, p)
           \/ \E i \in Instances : \E final \in BOOLEAN : Writes(i, final)
<1>a. /\ owner \in [Partitions -> Instances \union {NoInstance}]
      /\ assigned \in [Instances -> SUBSET Partitions]
      /\ pos \in [Instances -> [Partitions -> Nat]]
      /\ giving \in [Instances -> SUBSET Partitions]
      /\ DOMAIN mem = Instances /\ \A i \in Instances : DOMAIN mem[i] = Partitions
      /\ NoInstance \notin Instances
  BY GroupAssumption DEF Typed, GroupTyped, GroupTypeOK, LocalTyped, MemTyped
<1>1. ASSUME UNCHANGED <<table, mem, dropped, assigned, pos>>,
             \A q \in Partitions : \A j \in Instances : owner'[q] = j => owner[q] = j
      PROVE  Carried
  BY <1>1, <1>a DEF Carried
<1>2. CASE UNCHANGED vars
  BY <1>2, <1>1 DEF vars
<1>3. ASSUME NEW i \in Instances, Start(i) PROVE Carried /\ UNCHANGED committed
  BY <1>3, <1>1 DEF Start, Join
<1>4. ASSUME NEW i \in Instances, Commit(i) PROVE Carried /\ Commits(i)
  BY <1>4, <1>1 DEF Commit, Commits
<1>5. ASSUME NEW i \in Instances, Expelled(i) PROVE Carried /\ UNCHANGED committed
  <2>1. \A q \in Partitions : \A j \in Instances : owner'[q] = j => owner[q] = j
    BY <1>5, <1>a DEF Expelled, Expel
  <2> QED
    BY <2>1, <1>5, <1>1 DEF Expelled, Expel
<1>6. ASSUME NEW i \in Instances, Ends(i)
      PROVE  Carried /\ UNCHANGED committed
  <2>1. /\ UNCHANGED <<committed, owner, table, dropped>>
        /\ assigned' = [assigned EXCEPT ![i] = {}]
        /\ pos' = [pos EXCEPT ![i] = [p \in Partitions |-> 0]]
        /\ mem' = [mem EXCEPT ![i] = [p \in Partitions |-> NewState]]
    BY <1>6, EndsExit DEF Exit, Die
  <2>2. DOMAIN mem' = Instances /\ \A j \in Instances : DOMAIN mem'[j] = Partitions
    BY <2>1, <1>a
  <2>3. ASSUME NEW j \in Instances, NEW q \in Partitions
        PROVE  /\ j # i => /\ mem'[j][q] = mem[j][q] /\ pos'[j][q] = pos[j][q]
                           /\ assigned'[j] = assigned[j]
               /\ j = i => mem'[j][q] = NewState /\ q \notin assigned'[j]
    BY <2>1, <1>a
  <2> QED
    BY <2>1, <2>2, <2>3 DEF Carried
<1>7. ASSUME NEW i \in Instances, Release(i) PROVE Carried /\ Commits(i)
  <2>1. /\ UNCHANGED <<table, dropped>> /\ Commits(i)
        /\ GiveUp(i, giving[i])
        /\ mem' = [mem EXCEPT ![i] = Forget(i, giving[i])]
    BY <1>7 DEF Release, Commits
  <2>2. DOMAIN mem' = Instances /\ \A j \in Instances : DOMAIN mem'[j] = Partitions
    BY <2>1, <1>a DEF Forget
  <2>3. ASSUME NEW j \in Instances, NEW q \in Partitions
        PROVE  \/ /\ mem'[j][q] = mem[j][q] /\ pos'[j][q] = pos[j][q]
                  /\ q \in assigned'[j] <=> q \in assigned[j]
               \/ mem'[j][q] = NewState /\ q \notin assigned'[j]
    <3>1. CASE j # i
      BY <3>1, <2>1, <1>a DEF GiveUp
    <3>2. CASE j = i /\ q \in giving[i]
      BY <3>2, <2>1, <1>a DEF GiveUp, Forget
    <3>3. CASE j = i /\ q \notin giving[i]
      BY <3>3, <2>1, <1>a DEF GiveUp, Forget
    <3> QED
      BY <3>1, <3>2, <3>3
  <2>4. \A j \in Instances : \A q \in Partitions :
            q \in assigned'[j] /\ owner'[q] = j => q \in assigned[j] /\ owner[q] = j
    BY <2>1, <1>a DEF GiveUp
  <2> QED
    BY <2>1, <2>2, <2>3, <2>4 DEF Carried
<1>8. ASSUME NEW i \in Instances, Flush(i) PROVE Writes(i, FALSE)
  BY <1>8 DEF Flush, Writes
<1>9. ASSUME NEW i \in Instances, Lost(i) \/ Stop(i) PROVE Writes(i, TRUE)
  BY <1>9 DEF Lost, Stop, BeginRelease, Writes
<1>10. ASSUME NEW i \in Instances, NEW p \in Partitions, Revoke(i, p)
       PROVE  Writes(i, TRUE)
  BY <1>10 DEF Revoke, BeginRelease, Writes
<1> QED
  BY <1>2, <1>3, <1>4, <1>5, <1>6, <1>7, <1>8, <1>9, <1>10 DEF Next, Ends

\* A key has windows on the one partition that has its edits.
LEMMA OnePartition ==
    ASSUME Typed, NEW i \in Instances, NEW p \in Partitions, NEW q \in Partitions,
           NEW key \in DOMAIN mem[i][p].windows,
           NEW o \in Readable(q), KeyOf(Log[q][o]) = key
    PROVE  p = q
<1>1. PICK x \in Readable(p) : KeyOf(Log[p][x]) = key
  BY DEF Typed, MemTyped, Edits
<1>2. Log[p][x].page = Log[q][o].page
  BY <1>1 DEF KeyOf
<1> QED
  BY <1>2, LogAssumption

\* Nor does the key have windows on a second one.
LEMMA OneWindow ==
    ASSUME Typed, NEW i \in Instances, NEW p \in Partitions, NEW q \in Partitions,
           NEW key \in DOMAIN mem[i][p].windows, key \in DOMAIN mem[i][q].windows
    PROVE  p = q
<1>1. PICK o \in Readable(q) : KeyOf(Log[q][o]) = key
  BY DEF Typed, MemTyped, Edits
<1> QED
  BY <1>1, OnePartition

\* The rows of a flush: the total of a key is what it was or the count of a window
\* that was popped, whichever is larger.
LEMMA WriteFacts ==
    ASSUME Typed, NEW i \in Instances, NEW final, WriteClosed(i, final)
    PROVE  /\ table' \in [Keys -> Nat]
           /\ \A key \in Keys :
                  /\ table'[key] >= table[key]
                  /\ \A p \in Partitions : key \in Done(mem[i][p], final) =>
                         table'[key] >= mem[i][p].windows[key].count
                  /\ \/ table'[key] = table[key]
                     \/ \E p \in Partitions :
                            /\ key \in DOMAIN mem[i][p].windows
                            /\ table'[key] = mem[i][p].windows[key].count
<1> DEFINE Holds(key) == {q \in Partitions : key \in Done(mem[i][q], final)}
           Counts(key) == {mem[i][p].windows[key].count : p \in Holds(key)}
<1>1. table' = [key \in Keys |-> IF Counts(key) = {} THEN table[key]
                                 ELSE Upsert(table[key], Max(Counts(key)))]
  BY DEF WriteClosed
<1>2. \A p \in Partitions : Done(mem[i][p], final) \subseteq DOMAIN mem[i][p].windows
  BY DEF Done
<1>3. table \in [Keys -> Nat]
  BY DEF Typed
<1>4. ASSUME NEW key \in Keys
      PROVE  /\ table'[key] \in Nat
             /\ table'[key] >= table[key]
             /\ \A p \in Partitions : key \in Done(mem[i][p], final) =>
                    table'[key] >= mem[i][p].windows[key].count
             /\ \/ table'[key] = table[key]
                \/ \E p \in Partitions :
                       /\ key \in DOMAIN mem[i][p].windows
                       /\ table'[key] = mem[i][p].windows[key].count
  <2>1. CASE Holds(key) = {}
    <3>1. table'[key] = table[key]
      BY <2>1, <1>1
    <3> QED
      BY <2>1, <3>1, <1>3
  <2>2. CASE Holds(key) # {}
    <3>1. PICK p \in Partitions : key \in Done(mem[i][p], final)
      BY <2>2
    <3>2. key \in DOMAIN mem[i][p].windows
      BY <3>1, <1>2
    <3>3. \A q \in Partitions : key \in Done(mem[i][q], final) => q = p
      BY <3>2, <1>2, OneWindow
    <3>4. PICK c : c = mem[i][p].windows[key].count
      OBVIOUS
    <3>5. c \in Nat
      BY <3>2, <3>4 DEF Typed, MemTyped, WindowState
    <3>6. Counts(key) = {c}
      BY <3>1, <3>3, <3>4
    <3>7. Max({c}) = c
      BY <3>5 DEF Max
    <3>8. table'[key] = Max({table[key], c})
      BY <3>6, <3>7, <1>1 DEF Upsert
    <3>9. table'[key] = IF table[key] >= c THEN table[key] ELSE c
      BY <3>8, <3>5, <1>3, MaxOfTwo
    <3> QED
      BY <3>2, <3>3, <3>4, <3>5, <3>9, <1>3, SMTT(40)
  <2> QED
    BY <2>1, <2>2
<1>5. table' \in [Keys -> Nat]
  BY <1>1, <1>4
<1> QED
  BY <1>4, <1>5

\* What a member may commit is inside what it has read.
LEMMA NeededTyped ==
    ASSUME Typed, NEW i \in Instances, NEW p \in Partitions, p \in DOMAIN Needed(i)
    PROVE  /\ mem[i][p].last > 0
           /\ Needed(i)[p] = CommitOffset(mem[i][p])
           /\ Needed(i)[p] \in 0..mem[i][p].last
           /\ mem[i][p].last =< pos[i][p] /\ pos[i][p] =< Len(Log[p])
           /\ Needed(i)[p] \in 0..Len(Log[p])
<1>1. mem[i][p].last > 0 /\ Needed(i)[p] = CommitOffset(mem[i][p])
  BY DEF Needed
<1>2. pos[i][p] \in Nat /\ WindowState(mem[i][p], pos[i][p])
  BY DEF Typed, MemTyped, GroupTyped
<1>3. CommitOffset(mem[i][p]) \in 0..mem[i][p].last
  BY <1>2, CommitFacts
<1>4. mem[i][p].last =< pos[i][p] /\ pos[i][p] \in 0..Len(Log[p])
  BY <1>2 DEF WindowState, Typed, GroupTyped, GroupTypeOK
<1>5. Len(Log[p]) \in Nat /\ mem[i][p].last \in Nat
  BY <1>2, LogLength DEF WindowState
<1> QED
  BY <1>1, <1>2, <1>3, <1>4, <1>5

\* A commit keeps the types of the committed offsets.
LEMMA CommitsTyped ==
    ASSUME Typed, NEW i \in Instances, CommitTo(Needed(i))
    PROVE  /\ committed' \in [Partitions -> Nat]
           /\ \A p \in Partitions : committed'[p] \in 0..Len(Log[p])
<1>1. \A p \in Partitions : p \in DOMAIN Needed(i) => Needed(i)[p] \in 0..Len(Log[p])
  BY NeededTyped
<1> QED
  BY <1>1, CommitToTyped DEF Typed

\* Every step keeps the types of what the group and the loop keep.
LEMMA GroupStep ==
    ASSUME Typed, [Next]_vars
    PROVE  GroupTyped' /\ LocalTyped'
<1>a. /\ GroupTyped /\ LocalTyped /\ faults \in 0..MaxFaults
      /\ assigned \in [Instances -> SUBSET Partitions]
      /\ pc \in [Instances -> {"down", "poll", "commit", "revoke", "stop"}]
      /\ giving \in [Instances -> SUBSET Partitions]
  BY DEF Typed, LocalTyped, GroupTyped, GroupTypeOK
<1>1. CASE UNCHANGED vars
  BY <1>1, <1>a, GroupUnchangedTyped DEF vars, LocalTyped
<1>2. ASSUME NEW i \in Instances, Start(i) PROVE GroupTyped' /\ LocalTyped'
  BY <1>2, <1>a, GroupUnchangedTyped DEF Start, Join, LocalTyped
<1>3. ASSUME NEW i \in Instances, NEW p \in Partitions, Assign(i, p)
      PROVE  GroupTyped' /\ LocalTyped'
  <2>1. TakeFrom(i, p, committed[p]) /\ committed[p] \in 0..Len(Log[p])
    BY <1>3, <1>a DEF Assign, Take, GroupTyped, GroupTypeOK
  <2>2. GroupTyped'
    BY <2>1, <1>a, TakeTyped
  <2> QED
    BY <1>3, <2>1, <2>2, <1>a DEF Assign, TakeFrom, LocalTyped
<1>4. ASSUME NEW i \in Instances, NEW p \in Partitions, Receive(i, p)
      PROVE  GroupTyped' /\ LocalTyped'
  BY <1>4, <1>a, AdvanceTyped DEF Receive, Advance, LocalTyped
<1>5. ASSUME NEW i \in Instances, NEW next \in {"revoke", "stop"},
             NEW S \in SUBSET Partitions, BeginRelease(i, S, next),
             faults' \in 0..MaxFaults
      PROVE  GroupTyped' /\ LocalTyped'
  BY <1>5, <1>a, GroupUnchangedTyped DEF BeginRelease, LocalTyped
<1>6. ASSUME NEW i \in Instances, NEW p \in Partitions, Revoke(i, p)
      PROVE  GroupTyped' /\ LocalTyped'
  BY <1>5, <1>6, <1>a, FaultBudgetTyped DEF Revoke
<1>7. ASSUME NEW i \in Instances, Flush(i) PROVE GroupTyped' /\ LocalTyped'
  BY <1>7, <1>a, GroupUnchangedTyped DEF Flush, LocalTyped
<1>8. ASSUME NEW i \in Instances, Commit(i) PROVE GroupTyped' /\ LocalTyped'
  <2>1. /\ committed' \in [Partitions -> Nat]
        /\ \A p \in Partitions : committed'[p] \in 0..Len(Log[p])
    BY <1>8, CommitsTyped DEF Commit
  <2> QED
    BY <2>1, <1>8, <1>a DEF Commit, GroupTyped, GroupTypeOK, LocalTyped
<1>9. ASSUME NEW i \in Instances, Lost(i) PROVE GroupTyped' /\ LocalTyped'
  BY <1>5, <1>9, <1>a DEF Lost
<1>10. ASSUME NEW i \in Instances, Stop(i) PROVE GroupTyped' /\ LocalTyped'
  BY <1>5, <1>10, <1>a, FaultBudgetTyped DEF Stop
<1>11. ASSUME NEW i \in Instances, Release(i) PROVE GroupTyped' /\ LocalTyped'
  <2>1. /\ committed' \in [Partitions -> Nat]
        /\ \A p \in Partitions : committed'[p] \in 0..Len(Log[p])
    BY <1>11, CommitsTyped DEF Release
  <2>2. GiveUp(i, giving[i]) /\ UNCHANGED faults
    BY <1>11 DEF Release
  <2>3. GroupTyped'
    BY <2>1, <2>2, <1>a, GiveUpTyped DEF GroupTyped, GroupTypeOK
  <2> QED
    BY <2>3, <1>11, <1>a DEF Release, LocalTyped
<1>12. ASSUME NEW i \in Instances, Ends(i) PROVE GroupTyped' /\ LocalTyped'
  <2>1. Die(i) /\ giving' = [giving EXCEPT ![i] = {}]
    BY <1>12, EndsExit DEF Exit
  <2>2. faults' \in 0..MaxFaults
    BY <1>12, <1>a, EndsExit, FaultBudgetTyped
  <2>3. GroupTyped'
    BY <2>1, <2>2, <1>a, DieTyped
  <2> QED
    BY <2>1, <2>3, <1>a DEF Die, LocalTyped
<1>13. ASSUME NEW i \in Instances, Expelled(i) PROVE GroupTyped' /\ LocalTyped'
  BY <1>13, <1>a, ExpelTyped DEF Expelled, Expel, LocalTyped
<1> QED
  BY <1>1, <1>2, <1>3, <1>4, <1>6, <1>7, <1>8, <1>9, <1>10, <1>11, <1>12, <1>13
     DEF Next, Ends

\* A member has windows of the partitions it has.
OnlyAssigned ==
    \A i \in Instances : \A p \in Partitions :
        p \notin assigned[i] => Blank(mem[i][p])

\* What add is given: the message after those read so far.
LEMMA ReceiveFacts ==
    ASSUME Typed, NEW i \in Instances, NEW p \in Partitions, Receive(i, p)
    PROVE  /\ p \in assigned[i] /\ pos[i][p] \in Nat
           /\ pos[i][p] + 1 \in Offsets(p) /\ pos[i][p] + 1 =< Len(Log[p])
           /\ pos'[i][p] = pos[i][p] + 1
           /\ UNCHANGED <<committed, owner, assigned, table>>
           /\ DOMAIN mem' = Instances
           /\ \A j \in Instances : DOMAIN mem'[j] = Partitions
           /\ \A j \in Instances : \A q \in Partitions :
                  j # i \/ q # p => mem'[j][q] = mem[j][q] /\ pos'[j][q] = pos[j][q]
           /\ pos[i][p] + 1 \notin Readable(p) => mem'[i][p] = mem[i][p]
           /\ pos[i][p] + 1 \in Readable(p) =>
                  /\ Log[p][pos[i][p] + 1].time \in Nat
                  /\ mem'[i][p] = Add(mem[i][p], pos[i][p] + 1, Log[p][pos[i][p] + 1])
           /\ dropped \subseteq dropped'
           /\ \A m \in mem'[i][p].flushed \ mem[i][p].flushed : <<p, m>> \in dropped'
<1>1. /\ p \in assigned[i] /\ pos[i][p] < Len(Log[p])
      /\ pos' = [pos EXCEPT ![i][p] = @ + 1]
      /\ mem' = IF pos'[i][p] \in Readable(p)
                THEN [mem EXCEPT ![i][p] = Add(@, pos'[i][p], Log[p][pos'[i][p]])]
                ELSE mem
      /\ UNCHANGED <<committed, owner, assigned, table>>
      /\ dropped' = dropped \union {<<p, m>> : m \in mem'[i][p].flushed \ mem[i][p].flushed}
  BY DEF Receive, Advance
<1>2. /\ pos \in [Instances -> [Partitions -> Nat]]
      /\ DOMAIN mem = Instances /\ \A j \in Instances : DOMAIN mem[j] = Partitions
      /\ Len(Log[p]) \in Nat
  BY LogLength DEF Typed, GroupTyped, MemTyped
<1>3. pos'[i][p] = pos[i][p] + 1 /\ pos[i][p] \in Nat
  BY <1>1, <1>2
<1>4. pos[i][p] + 1 \in Offsets(p) /\ pos[i][p] + 1 =< Len(Log[p])
  BY <1>1, <1>2, <1>3 DEF Offsets
<1>5. \A j \in Instances : \A q \in Partitions : j # i \/ q # p => pos'[j][q] = pos[j][q]
  BY <1>1, <1>2
<1>6. PICK n : n = pos[i][p] + 1 /\ pos'[i][p] = n
  BY <1>3
<1>7. CASE n \notin Readable(p)
  BY <1>1, <1>2, <1>3, <1>4, <1>5, <1>6, <1>7
<1>8. CASE n \in Readable(p)
  <2>1. mem' = [mem EXCEPT ![i][p] = Add(@, n, Log[p][n])]
    BY <1>1, <1>6, <1>8
  <2>2. PICK a : a = Add(mem[i][p], n, Log[p][n])
    OBVIOUS
  <2>3. mem' = [mem EXCEPT ![i][p] = a]
    BY <2>1, <2>2
  <2>4. /\ DOMAIN mem' = Instances
        /\ \A j \in Instances : DOMAIN mem'[j] = Partitions
        /\ \A j \in Instances : \A q \in Partitions :
               j # i \/ q # p => mem'[j][q] = mem[j][q]
        /\ mem'[i][p] = a
    BY <2>3, <1>2
  <2>5. Log[p][n].time \in Nat
    BY <1>8, LogAssumption
  <2>6. p \in assigned[i] /\ UNCHANGED <<committed, owner, assigned, table>>
    BY <1>1, Zenon
  <2>7. /\ dropped \subseteq dropped'
        /\ \A m \in mem'[i][p].flushed \ mem[i][p].flushed : <<p, m>> \in dropped'
    BY <1>1, Zenon
  <2>8. /\ Log[p][pos[i][p] + 1].time \in Nat
        /\ mem'[i][p] = Add(mem[i][p], pos[i][p] + 1, Log[p][pos[i][p] + 1])
    BY <1>6, <2>2, <2>4, <2>5, Zenon
  <2> QED
    BY <1>3, <1>4, <1>5, <1>6, <1>8, <2>4, <2>6, <2>7, <2>8, ZenonT(40)
<1> QED
  BY <1>7, <1>8

\* What on_assign finds: a partition the member did not have.
LEMMA AssignFacts ==
    ASSUME Typed, NEW i \in Instances, NEW p \in Partitions, Assign(i, p)
    PROVE  /\ p \notin assigned[i] /\ owner[p] = NoInstance
           /\ UNCHANGED <<committed, table, mem, dropped>>
           /\ pos'[i][p] = committed[p]
           /\ \A j \in Instances : \A q \in Partitions :
                  /\ j # i \/ q # p =>
                         /\ pos'[j][q] = pos[j][q]
                         /\ q \in assigned'[j] <=> q \in assigned[j]
                  /\ q # p => owner'[q] = owner[q]
           /\ p \in assigned'[i] /\ owner'[p] = i
<1>1. /\ ~Stale(i) /\ owner[p] = NoInstance
      /\ owner' = [owner EXCEPT ![p] = i]
      /\ assigned' = [assigned EXCEPT ![i] = @ \union {p}]
      /\ pos' = [pos EXCEPT ![i][p] = committed[p]]
      /\ UNCHANGED <<committed, table, mem, dropped>>
  BY DEF Assign, Take, TakeFrom
<1>2. /\ owner \in [Partitions -> Instances \union {NoInstance}]
      /\ assigned \in [Instances -> SUBSET Partitions]
      /\ pos \in [Instances -> [Partitions -> Nat]]
      /\ NoInstance \notin Instances
  BY GroupAssumption DEF Typed, GroupTyped, GroupTypeOK
<1>3. p \notin assigned[i]
  BY <1>1, <1>2 DEF Stale
<1>4. \A j \in Instances : \A q \in Partitions :
          /\ j # i \/ q # p => /\ pos'[j][q] = pos[j][q]
                               /\ q \in assigned'[j] <=> q \in assigned[j]
          /\ q # p => owner'[q] = owner[q]
  BY <1>1, <1>2
<1> QED
  BY <1>1, <1>2, <1>3, <1>4

\* What a flush's write does to the windows.
LEMMA PopStep ==
    ASSUME Typed, NEW i \in Instances, NEW final, WriteClosed(i, final)
    PROVE  /\ DOMAIN mem' = Instances
           /\ \A j \in Instances : DOMAIN mem'[j] = Partitions
           /\ \A j \in Instances : \A q \in Partitions :
                  mem'[j][q] = IF j = i THEN PopClosed(mem[i][q], final) ELSE mem[j][q]
<1>1. /\ mem' = [mem EXCEPT ![i] = [p \in Partitions |-> PopClosed(@[p], final)]]
      /\ DOMAIN mem = Instances /\ \A j \in Instances : DOMAIN mem[j] = Partitions
  BY DEF WriteClosed, Typed, MemTyped
<1> QED
  BY <1>1

\* Every step keeps the windows well formed, and blank where there is no partition.
LEMMA MemStep ==
    ASSUME Typed, OnlyAssigned, [Next]_vars
    PROVE  MemTyped' /\ OnlyAssigned' /\ table' \in [Keys -> Nat]
<1> DEFINE Good(s, p, n) ==
               /\ WindowState(s, n)
               /\ \A k \in DOMAIN s.windows : Edits(p, k, n) # {}
<1>a. /\ table \in [Keys -> Nat] /\ pos \in [Instances -> [Partitions -> Nat]]
      /\ committed \in [Partitions -> Nat]
      /\ DOMAIN mem = Instances /\ \A j \in Instances : DOMAIN mem[j] = Partitions
      /\ \A j \in Instances : \A q \in Partitions : Good(mem[j][q], q, pos[j][q])
      /\ pos' \in [Instances -> [Partitions -> Nat]]
  <2>1. GroupTyped'
    BY GroupStep
  <2> QED
    BY <2>1 DEF Typed, GroupTyped, MemTyped
<1>b. ASSUME DOMAIN mem' = Instances, \A j \in Instances : DOMAIN mem'[j] = Partitions,
             \A j \in Instances : \A q \in Partitions :
                 /\ Good(mem'[j][q], q, pos'[j][q])
                 /\ q \notin assigned'[j] => Blank(mem'[j][q])
      PROVE  MemTyped' /\ OnlyAssigned'
  BY <1>b DEF MemTyped, OnlyAssigned, Edits
<1>c. ASSUME NEW s, Blank(s), IsState(s), NEW q \in Partitions, NEW n \in Nat
      PROVE  Good(s, q, n)
  BY <1>c DEF Blank, WindowState
<1>d. Blank(NewState) /\ IsState(NewState)
  BY NewStateBlank DEF WindowState
<1> HIDE DEF Good
<1>1. CASE Carried
  <2>1. ASSUME NEW j \in Instances, NEW q \in Partitions
        PROVE  Good(mem'[j][q], q, pos'[j][q]) /\ (q \notin assigned'[j] => Blank(mem'[j][q]))
    <3>1. CASE /\ mem'[j][q] = mem[j][q] /\ pos'[j][q] = pos[j][q]
               /\ q \in assigned'[j] <=> q \in assigned[j]
      BY <3>1, <1>a DEF OnlyAssigned
    <3>2. CASE mem'[j][q] = NewState
      <4>1. pos'[j][q] \in Nat
        BY <1>a
      <4> QED
        BY <4>1, <3>2, <1>c, <1>d
    <3> QED
      BY <3>1, <3>2, <1>1 DEF Carried
  <2> QED
    BY <2>1, <1>1, <1>a, <1>b DEF Carried
<1>2. ASSUME NEW i \in Instances, NEW p \in Partitions, Assign(i, p)
      PROVE  MemTyped' /\ OnlyAssigned' /\ table' = table
  <2>1. ASSUME NEW j \in Instances, NEW q \in Partitions
        PROVE  Good(mem'[j][q], q, pos'[j][q]) /\ (q \notin assigned'[j] => Blank(mem'[j][q]))
    <3>1. CASE j = i /\ q = p
      <4>1. p \notin assigned[i] /\ mem' = mem /\ p \in assigned'[i]
        BY <1>2, AssignFacts
      <4>2. Blank(mem[i][p]) /\ IsState(mem[i][p])
        BY <4>1, <1>a DEF OnlyAssigned, Good, WindowState
      <4>3. pos'[i][p] \in Nat
        BY <1>a
      <4> QED
        BY <3>1, <4>1, <4>2, <4>3, <1>c
    <3>2. CASE j # i \/ q # p
      <4>1. /\ mem' = mem /\ pos'[j][q] = pos[j][q]
            /\ q \in assigned'[j] <=> q \in assigned[j]
        BY <3>2, <1>2, AssignFacts
      <4> QED
        BY <4>1, <1>a DEF OnlyAssigned
    <3> QED
      BY <3>1, <3>2
  <2>2. mem' = mem /\ table' = table
    BY <1>2, AssignFacts
  <2> QED
    BY <2>1, <2>2, <1>a, <1>b
<1>3. ASSUME NEW i \in Instances, NEW p \in Partitions, Receive(i, p)
      PROVE  MemTyped' /\ OnlyAssigned' /\ table' = table
  <2>1. PICK n \in Nat : n = pos[i][p]
    BY <1>a
  <2>2. /\ p \in assigned[i] /\ n + 1 \in Offsets(p) /\ pos'[i][p] = n + 1
        /\ UNCHANGED <<assigned, table>>
        /\ DOMAIN mem' = Instances
        /\ \A j \in Instances : DOMAIN mem'[j] = Partitions
        /\ \A j \in Instances : \A q \in Partitions :
               j # i \/ q # p => mem'[j][q] = mem[j][q] /\ pos'[j][q] = pos[j][q]
        /\ n + 1 \notin Readable(p) => mem'[i][p] = mem[i][p]
        /\ n + 1 \in Readable(p) => /\ Log[p][n + 1].time \in Nat
                                    /\ mem'[i][p] = Add(mem[i][p], n + 1, Log[p][n + 1])
    BY <1>3, <2>1, ReceiveFacts
  <2>3. Good(mem'[i][p], p, n + 1)
    <3>1. WindowState(mem[i][p], n)
      BY <2>1, <1>a DEF Good
    <3>2. \A k \in DOMAIN mem[i][p].windows : Edits(p, k, n) # {}
      BY <2>1, <1>a DEF Good
    <3>3. \A k : Edits(p, k, n) \subseteq Edits(p, k, n + 1)
      BY OnTimeGrows
    <3>4. CASE n + 1 \notin Readable(p)
      <4>1. WindowState(mem[i][p], n + 1)
        BY <3>1 DEF WindowState
      <4> QED
        BY <4>1, <3>2, <3>3, <3>4, <2>2 DEF Good
    <3>5. CASE n + 1 \in Readable(p)
      <4>1. PICK msg : msg = Log[p][n + 1] /\ msg.time \in Nat
        BY <3>5, <2>2
      <4>2. PICK t : t = mem'[i][p] /\ t = Add(mem[i][p], n + 1, msg)
        BY <3>5, <4>1, <2>2
      <4>3. Added(mem[i][p], t, n + 1, msg) /\ WindowState(t, n + 1)
        BY <3>1, <4>1, <4>2, AddFacts
      <4>4. n + 1 \in Edits(p, KeyOf(msg), n + 1)
        BY <3>5, <4>1 DEF Edits
      <4>5. \A k \in DOMAIN t.windows : k = KeyOf(msg) \/ k \in DOMAIN mem[i][p].windows
        BY <4>3 DEF Added
      <4> QED
        BY <3>2, <3>3, <4>2, <4>3, <4>4, <4>5 DEF Good
    <3> QED
      BY <3>4, <3>5
  <2>4. ASSUME NEW j \in Instances, NEW q \in Partitions
        PROVE  Good(mem'[j][q], q, pos'[j][q]) /\ (q \notin assigned'[j] => Blank(mem'[j][q]))
    BY <2>2, <2>3, <1>a DEF OnlyAssigned
  <2> QED
    BY <2>2, <2>4, <1>b
<1>4. ASSUME NEW i \in Instances, NEW final \in BOOLEAN, Writes(i, final)
      PROVE  MemTyped' /\ OnlyAssigned' /\ table' \in [Keys -> Nat]
  <2>1. WriteClosed(i, final) /\ UNCHANGED <<assigned, pos>>
    BY <1>4 DEF Writes
  <2>2. ASSUME NEW q \in Partitions
        PROVE  /\ Good(PopClosed(mem[i][q], final), q, pos[i][q])
               /\ Blank(mem[i][q]) => Blank(PopClosed(mem[i][q], final))
    <3>1. pos[i][q] \in Nat /\ WindowState(mem[i][q], pos[i][q])
      BY <1>a DEF Good
    <3>2. PICK t : t = PopClosed(mem[i][q], final)
      OBVIOUS
    <3>3. /\ Popped(mem[i][q], t, final) /\ WindowState(t, pos[i][q])
          /\ Blank(mem[i][q]) => Blank(t)
      BY <3>1, <3>2, PopFacts
    <3>4. DOMAIN t.windows \subseteq DOMAIN mem[i][q].windows
      BY <3>3 DEF Popped
    <3> QED
      BY <3>2, <3>3, <3>4, <1>a DEF Good
  <2>3. /\ DOMAIN mem' = Instances
        /\ \A j \in Instances : DOMAIN mem'[j] = Partitions
        /\ \A j \in Instances : \A q \in Partitions :
               mem'[j][q] = IF j = i THEN PopClosed(mem[i][q], final) ELSE mem[j][q]
    BY <2>1, PopStep
  <2>4. ASSUME NEW j \in Instances, NEW q \in Partitions
        PROVE  Good(mem'[j][q], q, pos'[j][q]) /\ (q \notin assigned'[j] => Blank(mem'[j][q]))
    BY <2>1, <2>2, <2>3, <1>a DEF OnlyAssigned
  <2>5. table' \in [Keys -> Nat]
    BY <2>1, WriteFacts
  <2> QED
    BY <2>3, <2>4, <2>5, <1>b
<1>5. Carried => table' = table
  BY DEF Carried
<1> QED
  BY <1>1, <1>2, <1>3, <1>4, <1>5, <1>a, StepKinds

-----------------------------------------------------------------------------
(***************************************************************************)
(* Committed offsets. What an owner of a partition still needs is past the *)
(* committed offset, so what it commits next is not before it.             *)
(***************************************************************************)
Ahead(s, n, c) ==
    /\ n >= c
    /\ s.last > 0 => s.last >= c
    /\ s.floor # 0 => s.floor > c
    /\ \A k \in DOMAIN s.windows : s.windows[k].first > c

OwnersAhead ==
    \A i \in Instances : \A p \in Partitions :
        p \in assigned[i] /\ owner[p] = i => Ahead(mem[i][p], pos[i][p], committed[p])

OffsetsInv == Typed /\ OnlyAssigned /\ OwnersAhead

\* A commit is accepted for partitions the member owns: the new offset is before
\* everything it still needs, and not before the old one.
LEMMA CommitOwned ==
    ASSUME OffsetsInv, NEW i \in Instances, Commits(i), NEW p \in Partitions
    PROVE  /\ committed'[p] >= committed[p]
           /\ p \notin DOMAIN Needed(i) => committed'[p] = committed[p]
           /\ p \in DOMAIN Needed(i) =>
                  /\ p \in assigned[i] /\ owner[p] = i
                  /\ committed'[p] = CommitOffset(mem[i][p])
                  /\ Ahead(mem[i][p], pos[i][p], committed'[p])
           /\ mem[i][p].last = 0 => p \notin DOMAIN Needed(i)
<1>a. /\ Typed /\ committed \in [Partitions -> Nat]
      /\ pos[i][p] \in Nat /\ WindowState(mem[i][p], pos[i][p])
  BY DEF OffsetsInv, Typed, GroupTyped, MemTyped
<1>0. committed'[p] = IF p \in DOMAIN Needed(i) THEN Needed(i)[p] ELSE committed[p]
  BY DEF Commits, CommitTo
<1>1. CASE p \notin DOMAIN Needed(i)
  BY <1>0, <1>1, <1>a
<1>2. CASE p \in DOMAIN Needed(i)
  <2>1. /\ mem[i][p].last > 0
        /\ Needed(i)[p] = CommitOffset(mem[i][p])
        /\ mem[i][p].last =< pos[i][p]
    BY <1>2, <1>a, NeededTyped
  <2>2. p \in assigned[i]
    BY <2>1 DEF OffsetsInv, OnlyAssigned, Blank
  <2>3. owner[p] = i
    BY <1>2, <2>2 DEF Commits, CommitAccepted, Stale
  <2>4. PICK c : c = CommitOffset(mem[i][p])
    OBVIOUS
  <2>5. /\ c \in 0..mem[i][p].last
        /\ \A k \in DOMAIN mem[i][p].windows : c < mem[i][p].windows[k].first
        /\ mem[i][p].floor # 0 => c < mem[i][p].floor
        /\ \/ c = mem[i][p].last
           \/ mem[i][p].floor # 0 /\ c = mem[i][p].floor - 1
           \/ \E k \in DOMAIN mem[i][p].windows : c = mem[i][p].windows[k].first - 1
    BY <2>4, <1>a, CommitFacts
  <2>6. Ahead(mem[i][p], pos[i][p], committed[p])
    BY <2>2, <2>3 DEF OffsetsInv, OwnersAhead
  <2>7. /\ mem[i][p].last \in Nat /\ mem[i][p].floor \in Nat
        /\ \A k \in DOMAIN mem[i][p].windows : mem[i][p].windows[k].first \in Nat
    BY <1>a DEF WindowState
  <2>8. c >= committed[p]
    BY <2>1, <2>5, <2>6, <2>7, <1>a DEF Ahead
  <2>9. Ahead(mem[i][p], pos[i][p], c)
    BY <2>1, <2>5, <2>7, <1>a DEF Ahead
  <2> QED
    BY <1>0, <1>2, <2>1, <2>2, <2>3, <2>4, <2>8, <2>9
<1>3. mem[i][p].last = 0 => p \notin DOMAIN Needed(i)
  BY DEF Needed
<1> QED
  BY <1>1, <1>2, <1>3

\* Every step keeps what owners need past the committed offset.
LEMMA OffsetsStep ==
    ASSUME OffsetsInv, [Next]_vars
    PROVE  OffsetsInv' /\ \A p \in Partitions : committed'[p] >= committed[p]
<1>a. /\ Typed /\ OnlyAssigned /\ OwnersAhead
      /\ committed \in [Partitions -> Nat]
      /\ pos \in [Instances -> [Partitions -> Nat]]
      /\ assigned \in [Instances -> SUBSET Partitions]
      /\ \A j \in Instances : \A q \in Partitions : WindowState(mem[j][q], pos[j][q])
      /\ NoInstance \notin Instances
  BY GroupAssumption DEF OffsetsInv, Typed, GroupTyped, GroupTypeOK, MemTyped
<1>b. Typed' /\ OnlyAssigned'
  BY <1>a, GroupStep, MemStep DEF Typed
<1>c. ASSUME NEW s, NEW n \in Nat, WindowState(s, n)
      PROVE  /\ s.last \in Nat /\ s.floor \in Nat /\ s.last =< n /\ s.floor =< s.last
             /\ \A k \in DOMAIN s.windows : s.windows[k].first \in Nat
  BY <1>c DEF WindowState
<1>1. CASE Carried /\ UNCHANGED committed
  <2>1. OwnersAhead'
    <3> SUFFICES ASSUME NEW j \in Instances, NEW q \in Partitions,
                        q \in assigned'[j], owner'[q] = j
                 PROVE  Ahead(mem'[j][q], pos'[j][q], committed'[q])
      BY DEF OwnersAhead, Ahead
    <3>1. /\ mem'[j][q] = mem[j][q] /\ pos'[j][q] = pos[j][q]
          /\ q \in assigned[j] /\ owner[q] = j
      BY <1>1 DEF Carried
    <3> QED
      BY <3>1, <1>1, <1>a DEF OwnersAhead
  <2> QED
    BY <2>1, <1>1, <1>a, <1>b DEF OffsetsInv
<1>2. ASSUME Carried, NEW i \in Instances, Commits(i)
      PROVE  OwnersAhead' /\ \A p \in Partitions : committed'[p] >= committed[p]
  <2>1. OwnersAhead'
    <3> SUFFICES ASSUME NEW j \in Instances, NEW q \in Partitions,
                        q \in assigned'[j], owner'[q] = j
                 PROVE  Ahead(mem'[j][q], pos'[j][q], committed'[q])
      BY DEF OwnersAhead, Ahead
    <3>1. /\ mem'[j][q] = mem[j][q] /\ pos'[j][q] = pos[j][q]
          /\ q \in assigned[j] /\ owner[q] = j
      BY <1>2 DEF Carried
    <3>2. CASE q \in DOMAIN Needed(i)
      <4>1. owner[q] = i /\ Ahead(mem[i][q], pos[i][q], committed'[q])
        BY <3>2, <1>2, CommitOwned
      <4> QED
        BY <4>1, <3>1
    <3>3. CASE q \notin DOMAIN Needed(i)
      <4>1. committed'[q] = committed[q]
        BY <3>3, <1>2, CommitOwned
      <4> QED
        BY <4>1, <3>1, <1>a DEF OwnersAhead
    <3> QED
      BY <3>2, <3>3
  <2> QED
    BY <2>1, <1>2, CommitOwned
<1>3. ASSUME NEW i \in Instances, NEW p \in Partitions, Assign(i, p)
      PROVE  OwnersAhead' /\ committed' = committed
  <2>1. /\ p \notin assigned[i] /\ UNCHANGED <<committed, mem>>
        /\ pos'[i][p] = committed[p] /\ owner'[p] = i
    BY <1>3, <1>a, AssignFacts
  <2>2. ASSUME NEW j \in Instances, NEW q \in Partitions,
               q \in assigned'[j], owner'[q] = j
        PROVE  Ahead(mem'[j][q], pos'[j][q], committed'[q])
    <3>1. CASE q = p
      <4>1. j = i /\ Blank(mem[i][p])
        BY <2>1, <2>2, <3>1, <1>a DEF OnlyAssigned
      <4> QED
        BY <4>1, <2>1, <3>1, <1>a DEF Ahead, Blank
    <3>2. CASE q # p
      <4>1. q \in assigned[j] /\ owner[q] = j /\ pos'[j][q] = pos[j][q]
        BY <2>2, <3>2, <1>3, <1>a, AssignFacts
      <4> QED
        BY <4>1, <2>1, <1>a DEF OwnersAhead
    <3> QED
      BY <3>1, <3>2
  <2> QED
    BY <2>1, <2>2 DEF OwnersAhead, Ahead
<1>4. ASSUME NEW i \in Instances, NEW p \in Partitions, Receive(i, p)
      PROVE  OwnersAhead' /\ committed' = committed
  <2>1. PICK n \in Nat : n = pos[i][p]
    BY <1>a
  <2>2. /\ p \in assigned[i] /\ pos'[i][p] = n + 1
        /\ UNCHANGED <<committed, owner, assigned>>
        /\ \A j \in Instances : \A q \in Partitions :
               j # i \/ q # p => mem'[j][q] = mem[j][q] /\ pos'[j][q] = pos[j][q]
        /\ n + 1 \notin Readable(p) => mem'[i][p] = mem[i][p]
        /\ n + 1 \in Readable(p) => /\ Log[p][n + 1].time \in Nat
                                    /\ mem'[i][p] = Add(mem[i][p], n + 1, Log[p][n + 1])
    BY <1>4, <2>1, <1>a, ReceiveFacts
  <2>3. ASSUME owner[p] = i PROVE Ahead(mem'[i][p], n + 1, committed[p])
    <3>1. Ahead(mem[i][p], n, committed[p]) /\ committed[p] \in Nat
      BY <2>1, <2>2, <2>3, <1>a DEF OwnersAhead
    <3>2. CASE n + 1 \notin Readable(p)
      BY <3>1, <3>2, <2>2 DEF Ahead
    <3>3. CASE n + 1 \in Readable(p)
      <4>1. PICK s : s = mem[i][p] /\ WindowState(s, n)
        BY <2>1, <1>a
      <4>2. PICK msg : msg = Log[p][n + 1] /\ msg.time \in Nat
        BY <3>3, <2>2
      <4>3. PICK t : t = mem'[i][p] /\ t = Add(s, n + 1, msg)
        BY <3>3, <4>1, <4>2, <2>2
      <4>4. Added(s, t, n + 1, msg)
        BY <4>1, <4>2, <4>3, AddFacts
      <4>5. /\ Ahead(s, n, committed[p]) /\ s.last \in Nat /\ s.floor \in Nat
            /\ \A k \in DOMAIN s.windows : s.windows[k].first \in Nat
        BY <3>1, <4>1, <1>c
      <4>6. ASSUME NEW k \in DOMAIN t.windows PROVE t.windows[k].first > committed[p]
        <5>1. CASE k \in DOMAIN s.windows /\ t.windows[k].first = s.windows[k].first
          BY <5>1, <4>5 DEF Ahead
        <5>2. CASE t.windows[k].first = n + 1
          BY <5>2, <3>1 DEF Ahead
        <5>3. CASE k = KeyOf(msg)
          BY <5>1, <5>2, <5>3, <4>4 DEF Added, Refused, TakenIn, OneMore
        <5>4. CASE k # KeyOf(msg)
          BY <5>1, <5>4, <4>4 DEF Added
        <5> QED
          BY <5>3, <5>4
      <4>7. t.last = n + 1 /\ t.floor = s.floor
        BY <4>4 DEF Added
      <4> QED
        BY <3>1, <4>3, <4>5, <4>6, <4>7 DEF Ahead
    <3> QED
      BY <3>2, <3>3
  <2>4. ASSUME NEW j \in Instances, NEW q \in Partitions,
               q \in assigned'[j], owner'[q] = j
        PROVE  Ahead(mem'[j][q], pos'[j][q], committed'[q])
    BY <2>2, <2>3, <2>4, <1>a DEF OwnersAhead
  <2> QED
    BY <2>2, <2>4 DEF OwnersAhead, Ahead
<1>5. ASSUME NEW i \in Instances, NEW final \in BOOLEAN, Writes(i, final)
      PROVE  OwnersAhead' /\ committed' = committed
  <2>1. WriteClosed(i, final) /\ UNCHANGED <<committed, owner, assigned, pos>>
    BY <1>5 DEF Writes
  <2>2. ASSUME NEW q \in Partitions, Ahead(mem[i][q], pos[i][q], committed[q])
        PROVE  Ahead(PopClosed(mem[i][q], final), pos[i][q], committed[q])
    <3>1. PICK s : s = mem[i][q] /\ WindowState(s, pos[i][q]) /\ pos[i][q] \in Nat
      BY <1>a
    <3>2. PICK t : t = PopClosed(s, final)
      OBVIOUS
    <3>3. Popped(s, t, final)
      BY <3>1, <3>2, PopFacts
    <3>4. \A k \in DOMAIN t.windows :
              k \in DOMAIN s.windows /\ t.windows[k].first = s.windows[k].first
      BY <3>3 DEF Popped
    <3>5. /\ t.last = s.last
          /\ t.floor = s.floor \/ \E k \in DOMAIN s.windows : t.floor = s.windows[k].first
      BY <3>3 DEF Popped, Done
    <3>6. Ahead(s, pos[i][q], committed[q])
      BY <2>2, <3>1
    <3> QED
      BY <3>1, <3>2, <3>4, <3>5, <3>6 DEF Ahead
  <2>3. \A j \in Instances : \A q \in Partitions :
            mem'[j][q] = IF j = i THEN PopClosed(mem[i][q], final) ELSE mem[j][q]
    BY <2>1, <1>a, PopStep
  <2>4. ASSUME NEW j \in Instances, NEW q \in Partitions,
               q \in assigned'[j], owner'[q] = j
        PROVE  Ahead(mem'[j][q], pos'[j][q], committed'[q])
    BY <2>1, <2>2, <2>3, <2>4, <1>a DEF OwnersAhead
  <2> QED
    BY <2>1, <2>4 DEF OwnersAhead, Ahead
<1>6. committed' = committed => \A p \in Partitions : committed'[p] >= committed[p]
  BY <1>a
<1> QED
  BY <1>1, <1>2, <1>3, <1>4, <1>5, <1>6, <1>a, <1>b, StepKinds DEF OffsetsInv

\* The initial state: nothing is assigned.
LEMMA OffsetsInit == Init => OffsetsInv
<1> SUFFICES ASSUME Init PROVE OffsetsInv
  OBVIOUS
<1>1. \A i \in Instances : assigned[i] = {} /\ \A p \in Partitions : mem[i][p] = NewState
  BY DEF Init, GroupInit
<1> QED
  BY <1>1, TypeInit, NewStateBlank DEF OffsetsInv, OnlyAssigned, OwnersAhead

\* The invariant about offsets holds throughout.
LEMMA OffsetsInvariant == Spec => []OffsetsInv
<1>1. OffsetsInv /\ [Next]_vars => OffsetsInv'
  BY OffsetsStep
<1> QED
  BY <1>1, OffsetsInit, PTL DEF Spec

\* Type correctness.
THEOREM TypeCorrect == Spec => []TypeOK
<1>1. OffsetsInv => TypeOK
  BY TypedImplies DEF OffsetsInv
<1> QED
  BY <1>1, OffsetsInvariant, PTL

\* A committed offset never moves back: commit_offsets returns an offset that is
\* not before the one the partition was taken over at, and a member that was
\* expelled has its commit refused.
THEOREM OffsetsForward == Spec => OffsetsNeverRegress
<1>1. OffsetsInv /\ [Next]_vars
          => [\A p \in Partitions : committed'[p] >= committed[p]]_committed
  BY OffsetsStep
<1> QED
  BY <1>1, OffsetsInvariant, PTL DEF Spec, OffsetsNeverRegress

-----------------------------------------------------------------------------
(***************************************************************************)
(* Totals are not too large. A window counts edits that were read, each    *)
(* once, and the windows of a key are all of one partition.                *)
(***************************************************************************)
CountsRead ==
    \A i \in Instances : \A p \in Partitions : \A k \in DOMAIN mem[i][p].windows :
        mem[i][p].windows[k].count =< Cardinality(Edits(p, k, pos[i][p]))

\* All edits of a key are those among all messages.
LEMMA AllEdits ==
    ASSUME NEW p \in Partitions, NEW key
    PROVE  {o \in Readable(p) : KeyOf(Log[p][o]) = key} = Edits(p, key, Len(Log[p]))
BY LogLength DEF Edits

\* The edits among the first n messages can be counted, and more messages have at
\* least as many.
LEMMA EditsCounted ==
    ASSUME NEW p \in Partitions, NEW key, NEW m \in Nat, NEW n \in Nat, m =< n
    PROVE  /\ Cardinality(Edits(p, key, m)) \in Nat
           /\ Cardinality(Edits(p, key, n)) \in Nat
           /\ Cardinality(Edits(p, key, m)) =< Cardinality(Edits(p, key, n))
           /\ Cardinality(OnTime(p, key, m)) \in Nat
           /\ Cardinality(OnTime(p, key, n)) \in Nat
           /\ Cardinality(OnTime(p, key, m)) =< Cardinality(OnTime(p, key, n))
<1>1. /\ OnTime(p, key, m) \subseteq OnTime(p, key, n)
      /\ Edits(p, key, m) \subseteq Edits(p, key, n)
      /\ OnTime(p, key, n) \subseteq 1..n /\ Edits(p, key, n) \subseteq 1..n
  BY OnTimeGrows
<1> QED
  BY <1>1, EditsFinite

\* add counts the message it is given once.
LEMMA CountsStep ==
    ASSUME OffsetsInv, CountsRead, [Next]_vars
    PROVE  CountsRead'
<1>a. /\ Typed /\ Typed'
      /\ pos \in [Instances -> [Partitions -> Nat]]
      /\ \A j \in Instances : \A q \in Partitions : WindowState(mem[j][q], pos[j][q])
  BY OffsetsStep DEF OffsetsInv, Typed, GroupTyped, MemTyped
<1>b. ASSUME \A j \in Instances : \A q \in Partitions : \A k \in DOMAIN mem'[j][q].windows :
                 mem'[j][q].windows[k].count =< Cardinality(Edits(q, k, pos'[j][q]))
      PROVE  CountsRead'
  BY <1>b DEF CountsRead, Edits
<1>1. CASE Carried
  <2>1. ASSUME NEW j \in Instances, NEW q \in Partitions, NEW k \in DOMAIN mem'[j][q].windows
        PROVE  mem'[j][q] = mem[j][q] /\ pos'[j][q] = pos[j][q]
    BY <1>1, NewStateBlank DEF Carried, Blank
  <2> QED
    BY <2>1, <1>b DEF CountsRead
<1>2. ASSUME NEW i \in Instances, NEW p \in Partitions, Assign(i, p) PROVE CountsRead'
  <2>1. ASSUME NEW j \in Instances, NEW q \in Partitions, NEW k \in DOMAIN mem'[j][q].windows
        PROVE  mem'[j][q] = mem[j][q] /\ pos'[j][q] = pos[j][q]
    <3>1. mem' = mem /\ p \notin assigned[i]
      BY <1>2, <1>a, AssignFacts
    <3>2. DOMAIN mem[i][p].windows = {}
      BY <3>1 DEF OffsetsInv, OnlyAssigned, Blank
    <3>3. j # i \/ q # p
      BY <3>1, <3>2
    <3> QED
      BY <3>1, <3>3, <1>2, <1>a, AssignFacts
  <2> QED
    BY <2>1, <1>b DEF CountsRead
<1>3. ASSUME NEW i \in Instances, NEW p \in Partitions, Receive(i, p) PROVE CountsRead'
  <2>1. PICK n \in Nat : n = pos[i][p]
    BY <1>a
  <2>2. /\ n + 1 \in Offsets(p) /\ pos'[i][p] = n + 1
        /\ \A j \in Instances : \A q \in Partitions :
               j # i \/ q # p => mem'[j][q] = mem[j][q] /\ pos'[j][q] = pos[j][q]
        /\ n + 1 \notin Readable(p) => mem'[i][p] = mem[i][p]
        /\ n + 1 \in Readable(p) => /\ Log[p][n + 1].time \in Nat
                                    /\ mem'[i][p] = Add(mem[i][p], n + 1, Log[p][n + 1])
    BY <1>3, <2>1, <1>a, ReceiveFacts
  <2>3. ASSUME NEW k \in DOMAIN mem[i][p].windows
        PROVE  /\ mem[i][p].windows[k].count \in Nat
               /\ mem[i][p].windows[k].count =< Cardinality(Edits(p, k, n))
               /\ mem[i][p].windows[k].count =< Cardinality(Edits(p, k, n + 1))
    <3>1. mem[i][p].windows[k].count \in Nat
      BY <1>a DEF WindowState
    <3>2. mem[i][p].windows[k].count =< Cardinality(Edits(p, k, n))
      BY <2>1 DEF CountsRead
    <3>3. /\ Cardinality(Edits(p, k, n)) \in Nat /\ Cardinality(Edits(p, k, n + 1)) \in Nat
          /\ Cardinality(Edits(p, k, n)) =< Cardinality(Edits(p, k, n + 1))
      BY EditsCounted
    <3> QED
      BY <3>1, <3>2, <3>3
  <2>4. ASSUME NEW k \in DOMAIN mem'[i][p].windows
        PROVE  mem'[i][p].windows[k].count =< Cardinality(Edits(p, k, n + 1))
    <3>1. CASE n + 1 \notin Readable(p)
      BY <3>1, <2>2, <2>3
    <3>2. CASE n + 1 \in Readable(p)
      <4>1. PICK s : s = mem[i][p] /\ WindowState(s, n)
        BY <2>1, <1>a
      <4>2. PICK msg : msg = Log[p][n + 1] /\ msg.time \in Nat
        BY <3>2, <2>2
      <4>3. PICK t : t = mem'[i][p] /\ t = Add(s, n + 1, msg)
        BY <3>2, <4>1, <4>2, <2>2
      <4>4. Added(s, t, n + 1, msg)
        BY <4>1, <4>2, <4>3, AddFacts
      <4>5. CASE k \in DOMAIN s.windows /\ t.windows[k] = s.windows[k]
        BY <4>5, <4>1, <4>3, <2>3
      <4>6. ASSUME k = KeyOf(msg), k \in DOMAIN t.windows,
                   t.windows[k] = OneMore(s.windows, k, n + 1)
            PROVE  t.windows[k].count =< Cardinality(Edits(p, k, n + 1))
        <5>0. n + 1 \in Readable(p) /\ KeyOf(Log[p][n + 1]) = k
          BY <3>2, <4>2, <4>6, <2>2
        <5>1. /\ Edits(p, k, n + 1) = Edits(p, k, n) \union {n + 1}
              /\ n + 1 \notin Edits(p, k, n) /\ Edits(p, k, n) \subseteq 1..n
          BY <5>0, EditAdded
        <5>2. IsFiniteSet(Edits(p, k, n)) /\ Cardinality(Edits(p, k, n)) \in Nat
          BY <5>1, EditsFinite
        <5>3. Cardinality(Edits(p, k, n + 1)) = Cardinality(Edits(p, k, n)) + 1
          BY <5>1, <5>2, FS_AddElement
        <5>4. CASE k \in DOMAIN s.windows
          <6>1. t.windows[k].count = s.windows[k].count + 1
            BY <4>6, <5>4 DEF OneMore
          <6>2. s.windows[k].count \in Nat /\ s.windows[k].count =< Cardinality(Edits(p, k, n))
            BY <4>1, <5>4, <2>3
          <6> QED
            BY <6>1, <6>2, <5>2, <5>3
        <5>5. CASE k \notin DOMAIN s.windows
          <6>1. t.windows[k].count = 1
            BY <4>6, <5>5 DEF OneMore
          <6> QED
            BY <6>1, <5>2, <5>3
        <5> QED
          BY <5>4, <5>5
      <4>7. CASE k # KeyOf(msg)
        BY <4>3, <4>4, <4>5, <4>7 DEF Added
      <4>8. CASE k = KeyOf(msg)
        <5>1. CASE Refused(s, t, k)
          BY <5>1, <4>3, <4>5 DEF Refused
        <5>2. CASE TakenIn(s, t, k, n + 1)
          BY <5>2, <4>3, <4>6, <4>8 DEF TakenIn
        <5> QED
          BY <5>1, <5>2, <4>4, <4>8 DEF Added
      <4> QED
        BY <4>7, <4>8
    <3> QED
      BY <3>1, <3>2
  <2>5. ASSUME NEW j \in Instances, NEW q \in Partitions, NEW k \in DOMAIN mem'[j][q].windows
        PROVE  mem'[j][q].windows[k].count =< Cardinality(Edits(q, k, pos'[j][q]))
    <3>1. CASE j = i /\ q = p
      BY <3>1, <2>2, <2>4
    <3>2. CASE j # i \/ q # p
      BY <3>2, <2>2 DEF CountsRead
    <3> QED
      BY <3>1, <3>2
  <2> QED
    BY <2>5, <1>b
<1>4. ASSUME NEW i \in Instances, NEW final \in BOOLEAN, Writes(i, final) PROVE CountsRead'
  <2>1. WriteClosed(i, final) /\ UNCHANGED pos
    BY <1>4 DEF Writes
  <2>2. \A j \in Instances : \A q \in Partitions :
            mem'[j][q] = IF j = i THEN PopClosed(mem[i][q], final) ELSE mem[j][q]
    BY <2>1, <1>a, PopStep
  <2>3. ASSUME NEW q \in Partitions, NEW k \in DOMAIN PopClosed(mem[i][q], final).windows
        PROVE  /\ k \in DOMAIN mem[i][q].windows
               /\ PopClosed(mem[i][q], final).windows[k] = mem[i][q].windows[k]
    <3>1. Popped(mem[i][q], PopClosed(mem[i][q], final), final)
      <4>1. WindowState(mem[i][q], pos[i][q]) /\ pos[i][q] \in Nat
        BY <1>a
      <4> QED
        BY <4>1, PopFacts
    <3> QED
      BY <3>1 DEF Popped
  <2>4. ASSUME NEW j \in Instances, NEW q \in Partitions, NEW k \in DOMAIN mem'[j][q].windows
        PROVE  mem'[j][q].windows[k].count =< Cardinality(Edits(q, k, pos'[j][q]))
    <3>1. CASE j = i
      BY <3>1, <2>1, <2>2, <2>3 DEF CountsRead
    <3>2. CASE j # i
      BY <3>2, <2>1, <2>2 DEF CountsRead
    <3> QED
      BY <3>1, <3>2
  <2> QED
    BY <2>4, <1>b
<1> QED
  BY <1>1, <1>2, <1>3, <1>4, <1>a, StepKinds

\* No step makes a total too large.
LEMMA NeverOvercountedStep ==
    ASSUME OffsetsInv, CountsRead, NeverOvercounted, [Next]_vars
    PROVE  NeverOvercounted'
<1>a. Typed /\ pos \in [Instances -> [Partitions -> Nat]]
      /\ \A j \in Instances : \A q \in Partitions : pos[j][q] \in 0..Len(Log[q])
  BY DEF OffsetsInv, Typed, GroupTyped, GroupTypeOK
<1>1. CASE UNCHANGED table
  BY <1>1 DEF NeverOvercounted
<1>2. ASSUME NEW i \in Instances, NEW final \in BOOLEAN, Writes(i, final)
      PROVE  NeverOvercounted'
  <2> SUFFICES ASSUME NEW p \in Partitions, NEW key \in Keys,
                      NEW o \in Readable(p), KeyOf(Log[p][o]) = key
               PROVE  table'[key] =< Cardinality(Edits(p, key, Len(Log[p])))
    BY AllEdits DEF NeverOvercounted
  <2>1. CASE table'[key] = table[key]
    BY <2>1, AllEdits DEF NeverOvercounted
  <2>2. ASSUME NEW q \in Partitions, key \in DOMAIN mem[i][q].windows,
               table'[key] = mem[i][q].windows[key].count
        PROVE  table'[key] =< Cardinality(Edits(p, key, Len(Log[p])))
    <3>1. q = p
      BY <2>2, <1>a, OnePartition
    <3>2. table'[key] =< Cardinality(Edits(p, key, pos[i][p]))
      BY <2>2, <3>1 DEF CountsRead
    <3>3. pos[i][p] \in Nat /\ Len(Log[p]) \in Nat /\ pos[i][p] =< Len(Log[p])
      BY <1>a, LogLength
    <3>4. /\ Cardinality(Edits(p, key, pos[i][p])) =< Cardinality(Edits(p, key, Len(Log[p])))
          /\ Cardinality(Edits(p, key, pos[i][p])) \in Nat
          /\ Cardinality(Edits(p, key, Len(Log[p]))) \in Nat
      BY <3>3, EditsCounted
    <3>5. table'[key] \in Nat
      BY <2>2, <1>a DEF Typed, MemTyped, WindowState
    <3> QED
      BY <3>2, <3>4, <3>5
  <2>3. WriteClosed(i, final)
    BY <1>2 DEF Writes
  <2> QED
    BY <2>1, <2>2, <2>3, <1>a, WriteFacts
<1>3. ASSUME NEW i \in Instances, NEW p \in Partitions, Assign(i, p) \/ Receive(i, p)
      PROVE  UNCHANGED table
  BY <1>3 DEF Assign, Receive
<1> QED
  BY <1>1, <1>2, <1>3, <1>a, StepKinds DEF Carried

\* A replay after a crash, a revocation or an expulsion never makes an edit count
\* twice: no total exceeds the edits there are.
THEOREM TotalsNotTooLarge == Spec => []NeverOvercounted
<1> DEFINE I == OffsetsInv /\ CountsRead /\ NeverOvercounted
<1>1. Init => I
  <2> SUFFICES ASSUME Init PROVE CountsRead /\ NeverOvercounted
    BY OffsetsInit
  <2>1. CountsRead
    BY NewStateBlank DEF Init, CountsRead, Blank
  <2>2. NeverOvercounted
    <3> SUFFICES ASSUME NEW p \in Partitions, NEW key \in Keys
                 PROVE  table[key] =< Cardinality(Edits(p, key, Len(Log[p])))
      BY AllEdits DEF NeverOvercounted
    <3>1. Cardinality(Edits(p, key, Len(Log[p]))) \in Nat
      BY LogLength, EditsCounted
    <3>2. table[key] = 0
      BY DEF Init
    <3> QED
      BY <3>1, <3>2
  <2> QED
    BY <2>1, <2>2
<1>2. I /\ [Next]_vars => I'
  BY OffsetsStep, CountsStep, NeverOvercountedStep
<1> QED
  BY <1>1, <1>2, PTL DEF Spec

-----------------------------------------------------------------------------
(***************************************************************************)
(* Totals are not too small. Seen says what the watermark and the flushed  *)
(* minutes of a state mean, where d is what the cap has forced out.        *)
(***************************************************************************)
Seen(s, p, n, d) ==
    /\ MarkSeen(s, p, n)
    /\ \A k \in DOMAIN s.windows : k[2] \notin s.flushed
    /\ \A m \in s.flushed : <<p, m>> \in d \/ s.floor # 0

SeenInv ==
    \A i \in Instances : \A p \in Partitions : Seen(mem[i][p], p, pos[i][p], dropped)

\* The minute of a key was forced out, or no edit in time is missing in its total.
Final(p, key) ==
    \/ <<p, key[2]>> \in dropped
    \/ table[key] >= Cardinality(OnTime(p, key, Len(Log[p])))

\* Before the committed offset there are edits in time of final keys only.
Settled ==
    \A p \in Partitions : \A key \in Keys :
        Final(p, key) \/ OnTime(p, key, committed[p]) = {}

(***************************************************************************)
(* How an owner that read n messages still knows about every edit of a     *)
(* key: they are to be read again, or in the key's window, or there are    *)
(* none.                                                                   *)
(***************************************************************************)
Tracks(s, p, key, n) ==
    \/ s.floor # 0 /\ \A o \in OnTime(p, key, n) : s.floor =< o
    \/ /\ key \in DOMAIN s.windows
       /\ \A o \in OnTime(p, key, n) : s.windows[key].first =< o
       /\ s.windows[key].count >= Cardinality(OnTime(p, key, n))
    \/ key \notin DOMAIN s.windows /\ OnTime(p, key, n) = {}

Tracked ==
    \A i \in Instances : \A p \in Partitions : p \in assigned[i] /\ owner[p] = i =>
        \A key \in Keys : Final(p, key) \/ Tracks(mem[i][p], p, key, pos[i][p])

CountedInv == OffsetsInv /\ SeenInv /\ Settled /\ Tracked

\* A message that add takes in or turns away leaves Seen as it was.
LEMMA SeenAdd ==
    ASSUME NEW p \in Partitions, NEW n \in Nat, n + 1 \in Readable(p),
           NEW s, WindowState(s, n), NEW t, Added(s, t, n + 1, Log[p][n + 1]),
           NEW d, NEW e, d \subseteq e, \A m \in t.flushed \ s.flushed : <<p, m>> \in e,
           Seen(s, p, n, d)
    PROVE  Seen(t, p, n + 1, e)
<1>1. PICK msg : msg = Log[p][n + 1] /\ msg.time \in Nat
  BY LogAssumption
<1>2. Added(s, t, n + 1, msg)
  BY <1>1
<1>3. MarkSeen(t, p, n + 1)
  <2>1. s.watermark \in Nat
    BY DEF WindowState
  <2>2. CASE t.watermark = msg.time
    <3>1. n + 1 \in Readable(p) \cap 1..(n + 1) /\ Log[p][n + 1].time = t.watermark
      BY <1>1, <2>2
    <3> QED
      BY <3>1 DEF MarkSeen
  <2>3. CASE t.watermark = s.watermark /\ s.watermark # 0
    <3>1. PICK o \in Readable(p) \cap 1..n : Log[p][o].time = s.watermark
      BY <2>3 DEF Seen, MarkSeen
    <3>2. o \in Readable(p) \cap 1..(n + 1)
      OBVIOUS
    <3> QED
      BY <2>3, <3>1, <3>2 DEF MarkSeen
  <2>4. CASE t.watermark = s.watermark /\ s.watermark = 0
    BY <2>4 DEF MarkSeen
  <2> QED
    BY <1>2, <2>2, <2>3, <2>4 DEF Added
<1>4. ASSUME NEW k \in DOMAIN t.windows PROVE k[2] \notin t.flushed
  <2> SUFFICES ASSUME k[2] \in t.flushed PROVE FALSE
    OBVIOUS
  <2>1. k[2] \in s.flushed
    BY <1>2 DEF Added
  <2>2. k \notin DOMAIN s.windows
    BY <2>1 DEF Seen
  <2>3. k = KeyOf(msg)
    BY <1>2, <2>2 DEF Added
  <2>4. TakenIn(s, t, k, n + 1)
    BY <1>2, <2>2, <2>3 DEF Added, Refused
  <2> QED
    BY <2>1, <2>2, <2>4 DEF TakenIn
<1>5. ASSUME NEW m \in t.flushed PROVE <<p, m>> \in e \/ t.floor # 0
  <2>1. t.floor = s.floor
    BY <1>2 DEF Added
  <2> QED
    BY <2>1 DEF Seen
<1> QED
  BY <1>3, <1>4, <1>5 DEF Seen

\* So does pop_closed.
LEMMA SeenPop ==
    ASSUME NEW p \in Partitions, NEW n, NEW s, NEW t, NEW final, Popped(s, t, final),
           NEW d, Seen(s, p, n, d)
    PROVE  Seen(t, p, n, d)
<1>1. MarkSeen(t, p, n)
  BY DEF Popped, Seen, MarkSeen
<1>2. \A k \in DOMAIN t.windows : k[2] \notin t.flushed
  BY DEF Popped, Seen
<1>3. \A m \in t.flushed : <<p, m>> \in d \/ t.floor # 0
  BY DEF Popped, Seen
<1> QED
  BY <1>1, <1>2, <1>3 DEF Seen

\* An owner still knows about every edit after add, unless the cap forces the
\* minute out.
LEMMA TracksAdd ==
    ASSUME NEW p \in Partitions, NEW n \in Nat, n + 1 \in Readable(p),
           NEW s, WindowState(s, n), NEW t, Added(s, t, n + 1, Log[p][n + 1]),
           WindowState(t, n + 1), MarkSeen(t, p, n + 1),
           NEW d, Seen(s, p, n, d), NEW key, Tracks(s, p, key, n)
    PROVE  \/ Tracks(t, p, key, n + 1)
           \/ key[2] \in t.flushed \ s.flushed
           \/ <<p, key[2]>> \in d
<1> DEFINE floored == s.floor # 0 /\ \A o \in OnTime(p, key, n) : s.floor =< o
<1>1. PICK msg : msg = Log[p][n + 1] /\ Added(s, t, n + 1, msg)
  OBVIOUS
<1>2. t.floor = s.floor /\ s.floor \in 0..n
  BY <1>1 DEF Added, WindowState
<1>3. /\ Cardinality(OnTime(p, key, n)) \in Nat
      /\ IsFiniteSet(OnTime(p, key, n)) /\ OnTime(p, key, n) \subseteq 1..n
  <2>1. OnTime(p, key, n) \subseteq 1..n
    BY OnTimeGrows
  <2> QED
    BY <2>1, EditsFinite
<1>4. OnTime(p, key, n + 1) \subseteq OnTime(p, key, n) \union {n + 1}
  <2>1. CASE KeyOf(msg) = key
    BY <2>1, <1>1, OnTimeAdded
  <2>2. CASE KeyOf(msg) # key
    BY <2>2, <1>1, OthersSame
  <2> QED
    BY <2>1, <2>2
<1>5. CASE floored
  <2>1. \A o \in OnTime(p, key, n + 1) : t.floor =< o
    BY <1>2, <1>4, <1>5
  <2> QED
    BY <2>1, <1>2, <1>5 DEF Tracks
<1>6. CASE KeyOf(msg) # key /\ ~floored
  <2>1. OnTime(p, key, n + 1) = OnTime(p, key, n)
    BY <1>6, <1>1, OthersSame
  <2>2. key \in DOMAIN t.windows =>
            key \in DOMAIN s.windows /\ t.windows[key] = s.windows[key]
    BY <1>1, <1>6 DEF Added
  <2>3. key \in DOMAIN s.windows =>
            key \in DOMAIN t.windows \/ key[2] \in t.flushed \ s.flushed
    BY <1>1 DEF Added, Seen
  <2> QED
    BY <1>6, <2>1, <2>2, <2>3 DEF Tracks
<1>7. CASE KeyOf(msg) = key /\ ~floored
  <2>1. CASE Refused(s, t, key) /\ key[2] < ClosedBefore(t)
    <3>1. t.watermark \in Nat
      BY DEF WindowState
    <3>2. Late(p, n + 1)
      <4>1. KeyOf(Log[p][n + 1])[2] < ClosedBefore(t)
        BY <1>1, <1>7, <2>1
      <4>2. n + 1 \in Nat /\ n + 1 =< n + 1
        OBVIOUS
      <4> QED
        BY <3>1, <4>1, <4>2, LateOnceClosed
    <3>3. OnTime(p, key, n + 1) = OnTime(p, key, n)
      BY <3>2, <1>1, <1>7, OnTimeAdded
    <3>4. t.windows = s.windows
      BY <2>1 DEF Refused
    <3> QED
      BY <1>2, <3>3, <3>4 DEF Tracks
  <2>2. CASE Refused(s, t, key) /\ ~(key[2] < ClosedBefore(t))
    <3>1. key \notin DOMAIN s.windows /\ key[2] \in s.flushed
      BY <2>2 DEF Refused
    <3>2. OnTime(p, key, n) = {}
      BY <3>1, <1>7 DEF Tracks
    <3> QED
      BY <3>1, <3>2, <1>7 DEF Seen
  <2>3. CASE TakenIn(s, t, key, n + 1)
    <3>1. CASE key \notin DOMAIN t.windows
      BY <2>3, <3>1 DEF TakenIn, Seen
    <3>2. CASE key \in DOMAIN t.windows
      <4>1. IsFiniteSet(OnTime(p, key, n) \union {n + 1})
            /\ Cardinality(OnTime(p, key, n) \union {n + 1}) = Cardinality(OnTime(p, key, n)) + 1
        <5>1. n + 1 \notin OnTime(p, key, n)
          BY <1>3
        <5> QED
          BY <5>1, <1>3, FS_AddElement
      <4>2. /\ Cardinality(OnTime(p, key, n + 1)) =< Cardinality(OnTime(p, key, n)) + 1
            /\ Cardinality(OnTime(p, key, n + 1)) \in Nat
        <5>1. /\ IsFiniteSet(OnTime(p, key, n + 1))
              /\ Cardinality(OnTime(p, key, n + 1)) =<
                     Cardinality(OnTime(p, key, n) \union {n + 1})
          BY <4>1, <1>4, FS_Subset
        <5> QED
          BY <4>1, <5>1, FS_CardinalityType
      <4>3. CASE key \in DOMAIN s.windows
        <5>1. /\ t.windows[key].count = s.windows[key].count + 1
              /\ t.windows[key].first = s.windows[key].first
              /\ s.windows[key].count \in Nat /\ s.windows[key].first \in 1..n
          BY <2>3, <3>2, <4>3 DEF TakenIn, OneMore, WindowState
        <5>2. /\ \A o \in OnTime(p, key, n) : s.windows[key].first =< o
              /\ s.windows[key].count >= Cardinality(OnTime(p, key, n))
          BY <1>7, <4>3 DEF Tracks
        <5>3. \A o \in OnTime(p, key, n + 1) : t.windows[key].first =< o
          BY <1>4, <5>1, <5>2
        <5>4. t.windows[key].count >= Cardinality(OnTime(p, key, n + 1))
          BY <1>3, <4>2, <5>1, <5>2
        <5> QED
          BY <3>2, <5>3, <5>4 DEF Tracks
      <4>4. CASE key \notin DOMAIN s.windows
        <5>1. OnTime(p, key, n) = {}
          BY <1>7, <4>4 DEF Tracks
        <5>2. t.windows[key].count = 1 /\ t.windows[key].first = n + 1
          BY <2>3, <3>2, <4>4 DEF TakenIn, OneMore
        <5>3. \A o \in OnTime(p, key, n + 1) : t.windows[key].first =< o
          BY <1>4, <5>1, <5>2
        <5>4. t.windows[key].count >= Cardinality(OnTime(p, key, n + 1))
          BY <4>2, <5>1, <5>2, FS_EmptySet
        <5> QED
          BY <3>2, <5>3, <5>4 DEF Tracks
      <4> QED
        BY <4>3, <4>4
    <3> QED
      BY <3>1, <3>2
  <2> QED
    BY <1>1, <1>7, <2>1, <2>2, <2>3 DEF Added
<1> QED
  BY <1>5, <1>6, <1>7

\* An owner still knows about every edit after pop_closed, or the window it wrote
\* has every edit in time that there will ever be: the minute is closed, so that
\* later edits are late.
LEMMA TracksPop ==
    ASSUME NEW p \in Partitions, NEW n \in Nat, n =< Len(Log[p]),
           NEW s, WindowState(s, n), NEW t, NEW final, Popped(s, t, final),
           NEW d, Seen(s, p, n, d), NEW key, Tracks(s, p, key, n)
    PROVE  \/ Tracks(t, p, key, n)
           \/ /\ key \in Done(s, final)
              /\ s.windows[key].count >= Cardinality(OnTime(p, key, Len(Log[p])))
<1> DEFINE floored == s.floor # 0 /\ \A o \in OnTime(p, key, n) : s.floor =< o
<1>1. OnTime(p, key, n) \subseteq 1..n
  BY OnTimeGrows
<1>2. CASE floored
  <2>1. /\ t.floor # 0 /\ t.floor =< s.floor
        /\ t.floor = s.floor \/ \E k \in DOMAIN s.windows : t.floor = s.windows[k].first
    BY <1>2 DEF Popped, Done
  <2>2. t.floor \in Nat /\ s.floor \in Nat
    BY <2>1 DEF WindowState
  <2>3. \A o \in OnTime(p, key, n) : t.floor =< o
    BY <1>1, <1>2, <2>1, <2>2
  <2> QED
    BY <2>1, <2>3 DEF Tracks
<1>3. CASE ~floored /\ key \notin DOMAIN s.windows
  <2>1. OnTime(p, key, n) = {} /\ key \notin DOMAIN t.windows
    BY <1>3 DEF Tracks, Popped
  <2> QED
    BY <2>1 DEF Tracks
<1>4. CASE ~floored /\ key \in DOMAIN s.windows
  <2>1. /\ \A o \in OnTime(p, key, n) : s.windows[key].first =< o
        /\ s.windows[key].count >= Cardinality(OnTime(p, key, n))
        /\ s.windows[key].first \in Nat
    BY <1>4 DEF Tracks, WindowState
  <2>2. CASE key \notin Done(s, final)
    <3>1. key \in DOMAIN t.windows /\ t.windows[key] = s.windows[key]
      BY <1>4, <2>2 DEF Popped
    <3> QED
      BY <2>1, <3>1 DEF Tracks
  <2>3. CASE key \in Done(s, final) /\ t.floor # 0 /\ t.floor =< s.windows[key].first
    <3>1. t.floor \in Nat
      <4>1. t.floor = s.floor \/ \E k \in DOMAIN s.windows : t.floor = s.windows[k].first
        BY DEF Popped, Done
      <4> QED
        BY <4>1 DEF WindowState
    <3>2. \A o \in OnTime(p, key, n) : t.floor =< o
      BY <1>1, <2>1, <2>3, <3>1
    <3> QED
      BY <2>3, <3>2 DEF Tracks
  <2>4. CASE key \in Done(s, final) /\ key[2] < ClosedBefore(s)
    <3>1. ASSUME NEW o \in OnTime(p, key, Len(Log[p])) PROVE o \in OnTime(p, key, n)
      <4>1. o \in Readable(p) /\ KeyOf(Log[p][o]) = key /\ ~Late(p, o) /\ o \in Nat
        BY LogLength DEF OnTime
      <4>2. ~(n =< o)
        <5>1. s.watermark \in Nat /\ MarkSeen(s, p, n)
          BY DEF WindowState, Seen
        <5> QED
          BY <2>4, <4>1, <5>1, LateOnceClosed
      <4>3. o =< n
        BY <4>1, <4>2
      <4> QED
        BY <4>3, LogLength, OnTimeGrows
    <3>2. OnTime(p, key, n) \subseteq OnTime(p, key, Len(Log[p]))
      BY LogLength, OnTimeGrows
    <3>3. OnTime(p, key, Len(Log[p])) = OnTime(p, key, n)
      BY <3>1, <3>2
    <3> QED
      BY <2>1, <2>4, <3>3
  <2> QED
    BY <2>2, <2>3, <2>4 DEF Popped
<1> QED
  BY <1>2, <1>3, <1>4

\* A final key stays final: totals only grow.
LEMMA FinalStays ==
    ASSUME OffsetsInv, [Next]_vars, NEW p \in Partitions, NEW key \in Keys, Final(p, key)
    PROVE  Final(p, key)'
<1>1. Typed /\ table \in [Keys -> Nat] /\ table' \in [Keys -> Nat]
  BY OffsetsStep DEF OffsetsInv, Typed
<1>2. dropped \subseteq dropped' /\ table'[key] >= table[key]
  <2>1. CASE Carried
    BY <2>1, <1>1 DEF Carried
  <2>2. ASSUME NEW i \in Instances, NEW q \in Partitions, Assign(i, q) \/ Receive(i, q)
        PROVE  dropped \subseteq dropped' /\ table' = table
    BY <2>2 DEF Assign, Receive
  <2>3. ASSUME NEW i \in Instances, NEW final \in BOOLEAN, Writes(i, final)
        PROVE  dropped \subseteq dropped' /\ table'[key] >= table[key]
    BY <2>3, <1>1, WriteFacts DEF Writes
  <2> QED
    BY <2>1, <2>2, <2>3, <1>1, StepKinds
<1>3. Cardinality(OnTime(p, key, Len(Log[p]))) \in Nat
  BY LogLength, EditsCounted
<1>4. CASE <<p, key[2]>> \in dropped
  BY <1>2, <1>4 DEF Final
<1>5. CASE table[key] >= Cardinality(OnTime(p, key, Len(Log[p])))
  <2>1. table'[key] >= Cardinality(OnTime(p, key, Len(Log[p])))
    BY <1>1, <1>2, <1>3, <1>5
  <2> QED
    BY <2>1 DEF Final, OnTime, Late
<1> QED
  BY <1>4, <1>5 DEF Final

\* A member commits offsets of keys that are final or whose edits are to come.
LEMMA CommitSettles ==
    ASSUME OffsetsInv, Settled, Tracked, NEW i \in Instances, Commits(i),
           NEW p \in Partitions, NEW key \in Keys, ~Final(p, key)
    PROVE  OnTime(p, key, committed'[p]) = {}
<1>a. /\ Typed /\ pos[i][p] \in Nat /\ WindowState(mem[i][p], pos[i][p])
      /\ committed[p] \in Nat
  BY DEF OffsetsInv, Typed, GroupTyped, MemTyped
<1>1. CASE p \notin DOMAIN Needed(i)
  <2>1. committed'[p] = committed[p]
    BY <1>1, CommitOwned
  <2> QED
    BY <2>1 DEF Settled
<1>2. CASE p \in DOMAIN Needed(i)
  <2>1. /\ p \in assigned[i] /\ owner[p] = i
        /\ committed'[p] = CommitOffset(mem[i][p])
        /\ Ahead(mem[i][p], pos[i][p], committed'[p])
    BY <1>2, CommitOwned
  <2>2. PICK c \in Nat : c = committed'[p]
    <3>1. CommitOffset(mem[i][p]) \in 0..mem[i][p].last
      BY <1>a, CommitFacts
    <3>2. mem[i][p].last \in Nat
      BY <1>a DEF WindowState
    <3> QED
      BY <2>1, <3>1, <3>2
  <2>3. Tracks(mem[i][p], p, key, pos[i][p])
    BY <2>1 DEF Tracked
  <2>4. ASSUME NEW o \in OnTime(p, key, c) PROVE FALSE
    <3>1. o \in OnTime(p, key, pos[i][p]) /\ o \in 1..c
      BY <1>a, <2>1, <2>2, OnTimeGrows DEF Ahead
    <3>2. CASE mem[i][p].floor # 0 /\ mem[i][p].floor =< o
      BY <3>1, <3>2, <1>a, <2>1, <2>2 DEF Ahead, WindowState
    <3>3. CASE key \in DOMAIN mem[i][p].windows /\ mem[i][p].windows[key].first =< o
      BY <3>1, <3>3, <1>a, <2>1, <2>2 DEF Ahead, WindowState
    <3> QED
      BY <2>3, <3>1, <3>2, <3>3 DEF Tracks
  <2> QED
    BY <2>2, <2>4
<1> QED
  BY <1>1, <1>2

\* Every step keeps what the watermarks and the flushed minutes mean.
LEMMA SeenStep ==
    ASSUME OffsetsInv, SeenInv, [Next]_vars
    PROVE  SeenInv'
<1>a. /\ Typed /\ OnlyAssigned /\ pos \in [Instances -> [Partitions -> Nat]]
      /\ \A j \in Instances : \A q \in Partitions : WindowState(mem[j][q], pos[j][q])
  BY DEF OffsetsInv, Typed, GroupTyped, MemTyped
<1>b. ASSUME \A j \in Instances : \A q \in Partitions :
                 Seen(mem'[j][q], q, pos'[j][q], dropped')
      PROVE  SeenInv'
  BY <1>b DEF SeenInv, Seen, MarkSeen
<1>c. \A s, q, n, d : Blank(s) => Seen(s, q, n, d)
  BY DEF Blank, Seen, MarkSeen
<1>d. \A s, q, n, d, e : Seen(s, q, n, d) /\ d \subseteq e => Seen(s, q, n, e)
  BY DEF Seen
<1>1. CASE Carried
  <2>1. ASSUME NEW j \in Instances, NEW q \in Partitions
        PROVE  Seen(mem'[j][q], q, pos'[j][q], dropped')
    <3>1. CASE mem'[j][q] = mem[j][q] /\ pos'[j][q] = pos[j][q]
      BY <3>1, <1>1 DEF Carried, SeenInv
    <3>2. CASE mem'[j][q] = NewState
      BY <3>2, <1>c, NewStateBlank
    <3> QED
      BY <3>1, <3>2, <1>1 DEF Carried
  <2> QED
    BY <2>1, <1>b
<1>2. ASSUME NEW i \in Instances, NEW p \in Partitions, Assign(i, p) PROVE SeenInv'
  <2>1. ASSUME NEW j \in Instances, NEW q \in Partitions
        PROVE  Seen(mem'[j][q], q, pos'[j][q], dropped')
    <3>1. UNCHANGED <<mem, dropped>> /\ p \notin assigned[i]
      BY <1>2, <1>a, AssignFacts
    <3>2. CASE j = i /\ q = p
      BY <3>1, <3>2, <1>a, <1>c DEF OnlyAssigned
    <3>3. CASE j # i \/ q # p
      <4>1. pos'[j][q] = pos[j][q]
        BY <3>3, <1>2, <1>a, AssignFacts
      <4> QED
        BY <3>1, <4>1 DEF SeenInv
    <3> QED
      BY <3>2, <3>3
  <2> QED
    BY <2>1, <1>b
<1>3. ASSUME NEW i \in Instances, NEW p \in Partitions, Receive(i, p) PROVE SeenInv'
  <2>1. PICK n \in Nat : n = pos[i][p]
    BY <1>a
  <2>2. /\ pos'[i][p] = n + 1
        /\ \A j \in Instances : \A q \in Partitions :
               j # i \/ q # p => mem'[j][q] = mem[j][q] /\ pos'[j][q] = pos[j][q]
        /\ n + 1 \notin Readable(p) => mem'[i][p] = mem[i][p]
        /\ n + 1 \in Readable(p) => /\ Log[p][n + 1].time \in Nat
                                    /\ mem'[i][p] = Add(mem[i][p], n + 1, Log[p][n + 1])
        /\ dropped \subseteq dropped'
        /\ \A m \in mem'[i][p].flushed \ mem[i][p].flushed : <<p, m>> \in dropped'
    BY <1>3, <2>1, <1>a, ReceiveFacts
  <2>3. Seen(mem[i][p], p, n, dropped) /\ WindowState(mem[i][p], n)
    BY <2>1, <1>a DEF SeenInv
  <2>4. Seen(mem'[i][p], p, n + 1, dropped')
    <3>1. CASE n + 1 \notin Readable(p)
      <4>1. Seen(mem[i][p], p, n + 1, dropped)
        BY <2>3 DEF Seen, MarkSeen
      <4> QED
        BY <3>1, <4>1, <2>2, <1>d
    <3>2. CASE n + 1 \in Readable(p)
      <4>1. Added(mem[i][p], mem'[i][p], n + 1, Log[p][n + 1])
        BY <3>2, <2>2, <2>3, AddFacts
      <4> QED
        BY <3>2, <4>1, <2>2, <2>3, SeenAdd
    <3> QED
      BY <3>1, <3>2
  <2>5. ASSUME NEW j \in Instances, NEW q \in Partitions
        PROVE  Seen(mem'[j][q], q, pos'[j][q], dropped')
    <3>1. CASE j = i /\ q = p
      BY <3>1, <2>2, <2>4
    <3>2. CASE j # i \/ q # p
      BY <3>2, <2>2, <1>d DEF SeenInv
    <3> QED
      BY <3>1, <3>2
  <2> QED
    BY <2>5, <1>b
<1>4. ASSUME NEW i \in Instances, NEW final \in BOOLEAN, Writes(i, final) PROVE SeenInv'
  <2>1. WriteClosed(i, final) /\ UNCHANGED <<pos, dropped>>
    BY <1>4 DEF Writes
  <2>2. \A j \in Instances : \A q \in Partitions :
            mem'[j][q] = IF j = i THEN PopClosed(mem[i][q], final) ELSE mem[j][q]
    BY <2>1, <1>a, PopStep
  <2>3. ASSUME NEW q \in Partitions
        PROVE  Seen(PopClosed(mem[i][q], final), q, pos[i][q], dropped)
    <3>1. WindowState(mem[i][q], pos[i][q]) /\ pos[i][q] \in Nat
      BY <1>a
    <3>2. Popped(mem[i][q], PopClosed(mem[i][q], final), final)
      BY <3>1, PopFacts
    <3>3. Seen(mem[i][q], q, pos[i][q], dropped)
      BY DEF SeenInv
    <3> QED
      BY <3>2, <3>3, SeenPop
  <2>4. ASSUME NEW j \in Instances, NEW q \in Partitions
        PROVE  Seen(mem'[j][q], q, pos'[j][q], dropped')
    <3>1. CASE j = i
      BY <3>1, <2>1, <2>2, <2>3
    <3>2. CASE j # i
      BY <3>2, <2>1, <2>2 DEF SeenInv
    <3> QED
      BY <3>1, <3>2
  <2> QED
    BY <2>4, <1>b
<1> QED
  BY <1>1, <1>2, <1>3, <1>4, <1>a, StepKinds

\* Every step keeps edits before the committed offset settled, and others known to
\* the owner.
LEMMA CountedStep ==
    ASSUME CountedInv, [Next]_vars
    PROVE  CountedInv'
<1>a. /\ OffsetsInv /\ SeenInv /\ Settled /\ Tracked /\ Typed /\ OnlyAssigned
      /\ OffsetsInv' /\ SeenInv' /\ Typed'
  BY OffsetsStep, SeenStep DEF CountedInv, OffsetsInv
<1>b. /\ pos \in [Instances -> [Partitions -> Nat]] /\ committed \in [Partitions -> Nat]
      /\ assigned \in [Instances -> SUBSET Partitions]
      /\ NoInstance \notin Instances
      /\ \A j \in Instances : \A q \in Partitions :
             WindowState(mem[j][q], pos[j][q]) /\ pos[j][q] \in 0..Len(Log[q])
      /\ \A j \in Instances : \A q \in Partitions : WindowState(mem'[j][q], pos'[j][q])
  BY <1>a, GroupAssumption DEF Typed, GroupTyped, GroupTypeOK, MemTyped
<1>c. \A q \in Partitions : \A key \in Keys : Final(q, key) => Final(q, key)'
  BY <1>a, FinalStays
<1>d. ASSUME UNCHANGED committed PROVE Settled'
  <2> SUFFICES ASSUME NEW p \in Partitions, NEW key \in Keys
               PROVE  Final(p, key)' \/ OnTime(p, key, committed'[p]) = {}
    BY DEF Settled, OnTime, Late
  <2> QED
    BY <1>a, <1>c, <1>d DEF Settled
<1>e. ASSUME NEW j \in Instances, NEW q \in Partitions, q \in assigned[j], owner[q] = j,
             mem'[j][q] = mem[j][q], pos'[j][q] = pos[j][q], NEW key \in Keys
      PROVE  Final(q, key)' \/ Tracks(mem'[j][q], q, key, pos'[j][q])
  BY <1>a, <1>c, <1>e DEF Tracked
<1>f. ASSUME \A j \in Instances : \A q \in Partitions :
                 q \in assigned'[j] /\ owner'[q] = j =>
                     \A key \in Keys : Final(q, key)' \/ Tracks(mem'[j][q], q, key, pos'[j][q])
      PROVE  Tracked'
  BY <1>f DEF Tracked, Tracks, OnTime, Late
<1>1. ASSUME Carried PROVE Tracked'
  <2>1. ASSUME NEW j \in Instances, NEW q \in Partitions, q \in assigned'[j], owner'[q] = j
        PROVE  /\ q \in assigned[j] /\ owner[q] = j
               /\ mem'[j][q] = mem[j][q] /\ pos'[j][q] = pos[j][q]
    BY <1>1, <2>1 DEF Carried
  <2> QED
    BY <2>1, <1>e, <1>f
<1>2. ASSUME NEW i \in Instances, Commits(i) PROVE Settled'
  <2> SUFFICES ASSUME NEW p \in Partitions, NEW key \in Keys
               PROVE  Final(p, key)' \/ OnTime(p, key, committed'[p]) = {}
    BY DEF Settled, OnTime, Late
  <2> QED
    BY <1>2, <1>a, <1>c, CommitSettles
<1>3. ASSUME NEW i \in Instances, NEW p \in Partitions, Assign(i, p)
      PROVE  Settled' /\ Tracked'
  <2>1. /\ p \notin assigned[i] /\ UNCHANGED <<committed, mem>>
        /\ pos'[i][p] = committed[p] /\ owner'[p] = i
    BY <1>3, <1>a, AssignFacts
  <2>2. ASSUME NEW j \in Instances, NEW q \in Partitions, q \in assigned'[j], owner'[q] = j,
               NEW key \in Keys
        PROVE  Final(q, key)' \/ Tracks(mem'[j][q], q, key, pos'[j][q])
    <3>1. CASE q = p
      <4>1. j = i /\ DOMAIN mem[i][p].windows = {}
        BY <2>1, <2>2, <3>1, <1>a DEF OnlyAssigned, Blank
      <4>2. Final(p, key) \/ OnTime(p, key, committed[p]) = {}
        BY <1>a DEF Settled
      <4> QED
        BY <2>1, <3>1, <4>1, <4>2, <1>c DEF Tracks
    <3>2. CASE q # p
      <4>1. q \in assigned[j] /\ owner[q] = j /\ pos'[j][q] = pos[j][q]
        BY <2>2, <3>2, <1>3, <1>a, AssignFacts
      <4> QED
        BY <4>1, <2>1, <1>e
    <3> QED
      BY <3>1, <3>2
  <2> QED
    BY <2>1, <2>2, <1>d, <1>f
<1>4. ASSUME NEW i \in Instances, NEW p \in Partitions, Receive(i, p)
      PROVE  Settled' /\ Tracked'
  <2>1. PICK n \in Nat : n = pos[i][p]
    BY <1>b
  <2>2. /\ p \in assigned[i] /\ pos'[i][p] = n + 1
        /\ UNCHANGED <<committed, owner, assigned>>
        /\ \A j \in Instances : \A q \in Partitions :
               j # i \/ q # p => mem'[j][q] = mem[j][q] /\ pos'[j][q] = pos[j][q]
        /\ n + 1 \notin Readable(p) => mem'[i][p] = mem[i][p]
        /\ n + 1 \in Readable(p) => /\ Log[p][n + 1].time \in Nat
                                    /\ mem'[i][p] = Add(mem[i][p], n + 1, Log[p][n + 1])
        /\ dropped \subseteq dropped'
        /\ \A m \in mem'[i][p].flushed \ mem[i][p].flushed : <<p, m>> \in dropped'
    BY <1>4, <2>1, <1>a, ReceiveFacts
  <2>3. ASSUME owner[p] = i, NEW key \in Keys
        PROVE  Final(p, key)' \/ Tracks(mem'[i][p], p, key, n + 1)
    <3>1. CASE Final(p, key)
      BY <3>1, <1>c
    <3>2. CASE ~Final(p, key)
      <4>1. Tracks(mem[i][p], p, key, n)
        BY <2>1, <2>2, <2>3, <3>2, <1>a DEF Tracked
      <4>2. CASE n + 1 \notin Readable(p)
        <5>1. OnTime(p, key, n + 1) = OnTime(p, key, n)
          BY <4>2, OthersSame
        <5> QED
          BY <4>1, <4>2, <5>1, <2>2 DEF Tracks
      <4>3. CASE n + 1 \in Readable(p)
        <5>1. WindowState(mem[i][p], n) /\ Seen(mem[i][p], p, n, dropped)
          BY <2>1, <1>a, <1>b DEF SeenInv
        <5>2. /\ Added(mem[i][p], mem'[i][p], n + 1, Log[p][n + 1])
              /\ WindowState(mem'[i][p], n + 1)
          BY <4>3, <5>1, <2>2, AddFacts
        <5>3. Seen(mem'[i][p], p, n + 1, dropped')
          BY <4>3, <5>1, <5>2, <2>2, SeenAdd
        <5>4. MarkSeen(mem'[i][p], p, n + 1)
          BY <5>3 DEF Seen
        <5>5. \/ Tracks(mem'[i][p], p, key, n + 1)
              \/ key[2] \in mem'[i][p].flushed \ mem[i][p].flushed
              \/ <<p, key[2]>> \in dropped
          BY <4>1, <4>3, <5>1, <5>2, <5>4, TracksAdd
        <5> QED
          BY <5>5, <2>2 DEF Final
      <4> QED
        BY <4>2, <4>3
    <3> QED
      BY <3>1, <3>2
  <2>4. ASSUME NEW j \in Instances, NEW q \in Partitions, q \in assigned'[j], owner'[q] = j,
               NEW key \in Keys
        PROVE  Final(q, key)' \/ Tracks(mem'[j][q], q, key, pos'[j][q])
    <3>1. CASE j = i /\ q = p
      BY <2>2, <2>3, <2>4, <3>1
    <3>2. CASE j # i \/ q # p
      BY <2>2, <2>4, <3>2, <1>e
    <3> QED
      BY <3>1, <3>2
  <2> QED
    BY <2>2, <2>4, <1>d, <1>f
<1>5. ASSUME NEW i \in Instances, NEW final \in BOOLEAN, Writes(i, final)
      PROVE  Settled' /\ Tracked'
  <2>1. WriteClosed(i, final) /\ UNCHANGED <<committed, owner, assigned, pos, dropped>>
    BY <1>5 DEF Writes
  <2>2. \A j \in Instances : \A q \in Partitions :
            mem'[j][q] = IF j = i THEN PopClosed(mem[i][q], final) ELSE mem[j][q]
    BY <2>1, <1>a, PopStep
  <2>3. ASSUME NEW q \in Partitions, q \in assigned[i], owner[q] = i, NEW key \in Keys
        PROVE  Final(q, key)' \/ Tracks(PopClosed(mem[i][q], final), q, key, pos[i][q])
    <3>1. CASE Final(q, key)
      BY <3>1, <1>c
    <3>2. CASE ~Final(q, key)
      <4>1. /\ WindowState(mem[i][q], pos[i][q]) /\ pos[i][q] \in Nat
            /\ pos[i][q] =< Len(Log[q])
            /\ Seen(mem[i][q], q, pos[i][q], dropped)
            /\ Tracks(mem[i][q], q, key, pos[i][q])
        BY <2>3, <3>2, <1>a, <1>b, LogLength DEF SeenInv, Tracked
      <4>2. Popped(mem[i][q], PopClosed(mem[i][q], final), final)
        BY <4>1, PopFacts
      <4>3. \/ Tracks(PopClosed(mem[i][q], final), q, key, pos[i][q])
            \/ /\ key \in Done(mem[i][q], final)
               /\ mem[i][q].windows[key].count >= Cardinality(OnTime(q, key, Len(Log[q])))
        BY <4>1, <4>2, TracksPop
      <4>4. ASSUME key \in Done(mem[i][q], final),
                   mem[i][q].windows[key].count >= Cardinality(OnTime(q, key, Len(Log[q])))
            PROVE  Final(q, key)'
        <5>1. table'[key] >= mem[i][q].windows[key].count /\ table'[key] \in Nat
          BY <4>4, <2>1, <1>a, WriteFacts
        <5>2. mem[i][q].windows[key].count \in Nat
          BY <4>1, <4>4 DEF Done, WindowState
        <5>3. Cardinality(OnTime(q, key, Len(Log[q]))) \in Nat
          BY LogLength, EditsCounted
        <5>4. table'[key] >= Cardinality(OnTime(q, key, Len(Log[q])))
          BY <4>4, <5>1, <5>2, <5>3
        <5> QED
          BY <5>4 DEF Final, OnTime, Late
      <4> QED
        BY <4>3, <4>4
    <3> QED
      BY <3>1, <3>2
  <2>4. ASSUME NEW j \in Instances, NEW q \in Partitions, q \in assigned'[j], owner'[q] = j,
               NEW key \in Keys
        PROVE  Final(q, key)' \/ Tracks(mem'[j][q], q, key, pos'[j][q])
    <3>1. CASE j = i
      BY <2>1, <2>2, <2>3, <2>4, <3>1
    <3>2. CASE j # i
      BY <2>1, <2>2, <2>4, <3>2, <1>e
    <3> QED
      BY <3>1, <3>2
  <2> QED
    BY <2>1, <2>4, <1>d, <1>f
<1> QED
  BY <1>1, <1>2, <1>3, <1>4, <1>5, <1>a, <1>d, StepKinds DEF CountedInv

\* The initial state: nothing is committed or assigned.
LEMMA CountedInit == Init => CountedInv
<1> SUFFICES ASSUME Init PROVE SeenInv /\ Settled /\ Tracked
  BY OffsetsInit DEF CountedInv
<1>1. \A i \in Instances : assigned[i] = {} /\ \A p \in Partitions : mem[i][p] = NewState
  BY DEF Init, GroupInit
<1>2. SeenInv
  BY <1>1, NewStateBlank DEF SeenInv, Seen, MarkSeen, Blank
<1>3. \A p \in Partitions : committed[p] = 0
  BY DEF Init, GroupInit
<1>4. \A p \in Partitions : \A key : OnTime(p, key, 0) = {}
  BY DEF OnTime
<1> QED
  BY <1>1, <1>2, <1>3, <1>4 DEF Settled, Tracked

\* "A partition is only advanced past the oldest offset its open windows still
\* need": an edit in time before the committed offset is in the total of its
\* minute, unless the cap has forced that minute out.
THEOREM NothingSkipped == Spec => []CommittedCounted
<1>1. CountedInv => CommittedCounted
  <2> SUFFICES ASSUME CountedInv, NEW p \in Partitions, NEW key \in Keys,
                      <<p, key[2]>> \notin dropped
               PROVE  table[key] >= Cardinality(OnTime(p, key, committed[p]))
    BY DEF CommittedCounted
  <2>1. /\ table[key] \in Nat /\ committed[p] \in Nat
        /\ committed[p] =< Len(Log[p]) /\ Len(Log[p]) \in Nat
    BY LogLength DEF CountedInv, OffsetsInv, Typed, GroupTyped, GroupTypeOK
  <2>2. CASE Final(p, key)
    <3>1. /\ Cardinality(OnTime(p, key, committed[p])) \in Nat
          /\ Cardinality(OnTime(p, key, Len(Log[p]))) \in Nat
          /\ Cardinality(OnTime(p, key, committed[p])) =<
                 Cardinality(OnTime(p, key, Len(Log[p])))
      BY <2>1, EditsCounted
    <3> QED
      BY <2>1, <2>2, <3>1 DEF Final
  <2>3. CASE OnTime(p, key, committed[p]) = {}
    BY <2>1, <2>3, FS_EmptySet
  <2> QED
    BY <2>2, <2>3 DEF CountedInv, Settled
<1>2. CountedInv /\ [Next]_vars => CountedInv'
  BY CountedStep
<1> QED
  BY <1>1, <1>2, CountedInit, PTL DEF Spec
=============================================================================

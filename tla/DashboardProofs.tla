-------------------------- MODULE DashboardProofs ---------------------------
(***************************************************************************)
(* Proofs about Dashboard, for any views and questions, any size of cache  *)
(* and pool, any timeout and any number of requests.                       *)
(***************************************************************************)
EXTENDS Dashboard, FiniteSetTheorems, TLAPS

(***************************************************************************)
(* The inductive invariant, in parts. Several are over values rather than  *)
(* variables, so that they can be used of the next state as well.          *)
(***************************************************************************)

\* How long the statements of q may have taken when left of them have not begun.
Spent(q, left) == Timeout * (Statements[q] - left)

\* A request at time t: its data is of no more than its statements' time ago.
RequestOK(r, t) ==
    /\ r.view \in Views /\ r.question \in Questions
    /\ r.pc \in {"sent", "running", "next", "answered"}
    /\ r.pc \in {"running", "next"} =>
           r.at \in 0..t /\ r.left \in 1..Statements[r.question]
    /\ r.pc = "next" => t =< r.at + Spent(r.question, r.left)
    /\ r.pc = "running" =>
           r.deadline \in Nat /\ t =< r.deadline /\ r.deadline =< r.at + Spent(r.question, r.left - 1)
    /\ r.pc = "answered" => r.age \in Int /\ r.age < CacheSeconds + Spent(r.question, 0)

ClockOK == now \in 0..MaxTime /\ loads \in 0..MaxLoads

RequestsOK ==
    /\ DOMAIN requests \subseteq 1..loads
    /\ \A n \in DOMAIN requests : RequestOK(requests[n], now)

\* An entry at time t: what it holds was of no more than the statements' time
\* before it was stored.
EntryOK(q, e, t) ==
    e.value \in 0..t /\ e.time \in 0..t /\ e.time - e.value =< Spent(q, 0)

EntriesOK ==
    /\ DOMAIN entries \subseteq Cached
    /\ IsFiniteSet(DOMAIN entries) /\ Cardinality(DOMAIN entries) =< MaxEntries
    /\ \A q \in DOMAIN entries : EntryOK(q, entries[q], now)

\* Every connection that is out belongs to a running statement.
Running == {n \in DOMAIN requests : At(n, "running")}

PoolOK == used = Cardinality(Running) /\ used =< PoolSize

\* The fields of a view's state.
IsView(s) ==
    \E o, q, d, e, l, r, c :
        s = [open |-> o, question |-> q, data |-> d, error |-> e, loading |-> l,
             refreshing |-> r, current |-> c]

\* The state s of view v when rs are the requests under way and n were sent: the
\* request it waits for asks what the view asks, and what it shows is the answer
\* to one that is over.
Fits(v, s, rs, n) ==
    /\ IsView(s)
    /\ s.open => s.question \in Questions
    /\ s.current \in 0..n
    /\ s.data # NoData => s.data.load \in 0..s.current /\ s.data.load \notin DOMAIN rs
    /\ s.current \in DOMAIN rs /\ rs[s.current].view = v
           => rs[s.current].question = s.question

ViewsOK == DOMAIN view = Views /\ \A v \in Views : Fits(v, view[v], requests, loads)

\* What the view's state s shows is the answer to its question, or flagged.
Flagged(s) ==
    s.data # NoData /\ s.data.question # s.question => s.refreshing \/ s.error

DashboardInv == ClockOK /\ RequestsOK /\ EntriesOK /\ PoolOK /\ ViewsOK /\ OldDataFlagged

-----------------------------------------------------------------------------
(***************************************************************************)
(* Facts about the operators.                                              *)
(***************************************************************************)

\* The numbers among the constants.
LEMMA Numbers ==
    /\ CacheSeconds \in Nat \ {0} /\ MaxEntries \in Nat \ {0} /\ PoolSize \in Nat \ {0}
    /\ Timeout \in Nat \ {0} /\ MaxLoads \in Nat /\ MaxTime \in Nat
    /\ \A q \in Questions : Statements[q] \in Nat \ {0}
BY DashboardAssumption

\* Multiplication by Timeout, one statement at a time.
LEMMA TimesTimeout ==
    ASSUME NEW k \in Nat
    PROVE  /\ Timeout * k \in Nat
           /\ Timeout * (k + 1) = Timeout * k + Timeout
BY Numbers

\* Spent begins with nothing, grows by Timeout with each statement, and ends with
\* the time of all.
LEMMA SpentFacts ==
    ASSUME NEW q \in Questions, NEW left \in 1..Statements[q]
    PROVE  /\ Spent(q, left) \in Nat /\ Spent(q, left - 1) \in Nat
           /\ Spent(q, left - 1) = Spent(q, left) + Timeout
           /\ Spent(q, 0) \in Nat
           /\ Spent(q, 0) = Timeout * Statements[q]
           /\ Spent(q, Statements[q]) = 0
<1>1. Statements[q] \in Nat \ {0} /\ Timeout \in Nat
  BY Numbers
<1>2. PICK k \in Nat : k = Statements[q] - left
  BY <1>1
<1>3. Statements[q] - (left - 1) = k + 1 /\ Statements[q] - 0 = Statements[q]
      /\ Statements[q] - Statements[q] = 0
  BY <1>1, <1>2
<1>4. Timeout * k \in Nat /\ Timeout * (k + 1) = Timeout * k + Timeout
      /\ Timeout * Statements[q] \in Nat
  BY <1>1, TimesTimeout
<1>5. Spent(q, left) = Timeout * k /\ Spent(q, left - 1) = Timeout * (k + 1)
      /\ Spent(q, 0) = Timeout * Statements[q] /\ Spent(q, Statements[q]) = Timeout * 0
  BY <1>2, <1>3, Zenon DEF Spent
<1>6. Timeout * 0 = 0
  BY <1>1
<1> QED
  BY <1>1, <1>4, <1>5, <1>6

\* load: the view waits for request n, and what it shows is flagged.
LEMMA BegunFacts ==
    ASSUME NEW s, IsView(s), NEW n
    PROVE  /\ IsView(Begun(s, n))
           /\ Begun(s, n).open = s.open /\ Begun(s, n).question = s.question
           /\ Begun(s, n).data = s.data /\ Begun(s, n).current = n
           /\ Begun(s, n).refreshing = (s.data # NoData)
<1>1. PICK o, q, d, e, l, r, c :
          s = [open |-> o, question |-> q, data |-> d, error |-> e, loading |-> l,
               refreshing |-> r, current |-> c]
  BY Zenon DEF IsView
<1>2. s.open = o /\ s.question = q /\ s.data = d /\ s.current = c
  BY <1>1
<1>3. PICK f : f = (s.data # NoData)
  OBVIOUS
<1>4. PICK a : a = [s EXCEPT !.current = n]
  OBVIOUS
<1>5. a = [open |-> o, question |-> q, data |-> d, error |-> e, loading |-> l,
           refreshing |-> r, current |-> n]
  BY <1>1, <1>4
<1>6. PICK b : b = [a EXCEPT !.refreshing = f]
  OBVIOUS
<1>7. b = [open |-> o, question |-> q, data |-> d, error |-> e, loading |-> l,
           refreshing |-> f, current |-> n]
  BY <1>5, <1>6
<1>8. IsView(b)
  BY <1>7, Zenon DEF IsView
<1>9. /\ b.open = o /\ b.question = q /\ b.data = d
      /\ b.error = e /\ b.refreshing = f /\ b.current = n
  BY <1>7
<1>10. Begun(s, n) = b
  BY <1>3, <1>4, <1>6, Zenon DEF Begun
<1> QED
  BY <1>2, <1>3, <1>8, <1>9, <1>10, Zenon

\* What the effect assigns before it loads.
LEMMA OpenedFacts ==
    ASSUME NEW s, IsView(s), NEW x
    PROVE  /\ IsView(Opened(s, x))
           /\ Opened(s, x).question = x /\ Opened(s, x).data = s.data
<1>1. PICK o, q, d, e, l, r, c :
          s = [open |-> o, question |-> q, data |-> d, error |-> e, loading |-> l,
               refreshing |-> r, current |-> c]
  BY Zenon DEF IsView
<1>2. s.open = o /\ s.question = q /\ s.data = d /\ s.current = c
  BY <1>1
<1>3. PICK f : f = (s.data = NoData)
  OBVIOUS
<1>4. PICK a : a = [s EXCEPT !.open = TRUE]
  OBVIOUS
<1>5. a = [open |-> TRUE, question |-> q, data |-> d, error |-> e, loading |-> l,
           refreshing |-> r, current |-> c]
  BY <1>1, <1>4
<1>6. PICK b : b = [a EXCEPT !.question = x]
  OBVIOUS
<1>7. b = [open |-> TRUE, question |-> x, data |-> d, error |-> e, loading |-> l,
           refreshing |-> r, current |-> c]
  BY <1>5, <1>6
<1>8. PICK k : k = [b EXCEPT !.loading = f]
  OBVIOUS
<1>9. k = [open |-> TRUE, question |-> x, data |-> d, error |-> e, loading |-> f,
           refreshing |-> r, current |-> c]
  BY <1>7, <1>8
<1>10. IsView(k)
  BY <1>9, Zenon DEF IsView
<1>11. /\ k.open = TRUE /\ k.question = x /\ k.data = d
      /\ k.error = e /\ k.refreshing = r /\ k.current = c
  BY <1>9
<1>12. Opened(s, x) = k
  BY <1>3, <1>4, <1>6, <1>8, Zenon DEF Opened
<1> QED
  BY <1>2, <1>3, <1>10, <1>11, <1>12, Zenon

\* An error takes the place of the flag; the data stays.
LEMMA ShowErrorFacts ==
    ASSUME NEW s, IsView(s)
    PROVE  /\ IsView(ShowError(s)) /\ ShowError(s).open = s.open
           /\ ShowError(s).question = s.question /\ ShowError(s).data = s.data
           /\ ShowError(s).current = s.current /\ ShowError(s).error = TRUE
<1>1. PICK o, q, d, e, l, r, c :
          s = [open |-> o, question |-> q, data |-> d, error |-> e, loading |-> l,
               refreshing |-> r, current |-> c]
  BY Zenon DEF IsView
<1>2. s.open = o /\ s.question = q /\ s.data = d /\ s.current = c
  BY <1>1
<1>3. PICK a : a = [s EXCEPT !.error = TRUE]
  OBVIOUS
<1>4. a = [open |-> o, question |-> q, data |-> d, error |-> TRUE, loading |-> l,
           refreshing |-> r, current |-> c]
  BY <1>1, <1>3
<1>5. PICK b : b = [a EXCEPT !.loading = FALSE]
  OBVIOUS
<1>6. b = [open |-> o, question |-> q, data |-> d, error |-> TRUE, loading |-> FALSE,
           refreshing |-> r, current |-> c]
  BY <1>4, <1>5
<1>7. PICK k : k = [b EXCEPT !.refreshing = FALSE]
  OBVIOUS
<1>8. k = [open |-> o, question |-> q, data |-> d, error |-> TRUE, loading |-> FALSE,
           refreshing |-> FALSE, current |-> c]
  BY <1>6, <1>7
<1>9. IsView(k)
  BY <1>8, Zenon DEF IsView
<1>10. /\ k.open = o /\ k.question = q /\ k.data = d
      /\ k.error = TRUE /\ k.refreshing = FALSE /\ k.current = c
  BY <1>8
<1>11. ShowError(s) = k
  BY <1>3, <1>5, <1>7, Zenon DEF ShowError
<1> QED
  BY <1>2, <1>9, <1>10, <1>11, Zenon

\* Data takes the place of what was shown.
LEMMA ShowDataFacts ==
    ASSUME NEW s, IsView(s), NEW x
    PROVE  /\ IsView(ShowData(s, x)) /\ ShowData(s, x).open = s.open
           /\ ShowData(s, x).question = s.question /\ ShowData(s, x).data = x
           /\ ShowData(s, x).current = s.current
<1>1. PICK o, q, d, e, l, r, c :
          s = [open |-> o, question |-> q, data |-> d, error |-> e, loading |-> l,
               refreshing |-> r, current |-> c]
  BY Zenon DEF IsView
<1>2. s.open = o /\ s.question = q /\ s.data = d /\ s.current = c
  BY <1>1
<1>3. PICK a : a = [s EXCEPT !.data = x]
  OBVIOUS
<1>4. a = [open |-> o, question |-> q, data |-> x, error |-> e, loading |-> l,
           refreshing |-> r, current |-> c]
  BY <1>1, <1>3
<1>5. PICK b : b = [a EXCEPT !.error = FALSE]
  OBVIOUS
<1>6. b = [open |-> o, question |-> q, data |-> x, error |-> FALSE, loading |-> l,
           refreshing |-> r, current |-> c]
  BY <1>4, <1>5
<1>7. PICK k : k = [b EXCEPT !.loading = FALSE]
  OBVIOUS
<1>8. k = [open |-> o, question |-> q, data |-> x, error |-> FALSE, loading |-> FALSE,
           refreshing |-> r, current |-> c]
  BY <1>6, <1>7
<1>9. PICK m : m = [k EXCEPT !.refreshing = FALSE]
  OBVIOUS
<1>10. m = [open |-> o, question |-> q, data |-> x, error |-> FALSE, loading |-> FALSE,
            refreshing |-> FALSE, current |-> c]
  BY <1>8, <1>9
<1>11. IsView(m)
  BY <1>10, Zenon DEF IsView
<1>12. /\ m.open = o /\ m.question = q /\ m.data = x
      /\ m.error = FALSE /\ m.refreshing = FALSE /\ m.current = c
  BY <1>10
<1>13. ShowData(s, x) = m
  BY <1>3, <1>5, <1>7, <1>9, Zenon DEF ShowData
<1> QED
  BY <1>2, <1>11, <1>12, <1>13, Zenon

-----------------------------------------------------------------------------
(***************************************************************************)
(* Steps of one request.                                                   *)
(***************************************************************************)

\* Other requests stay as they are, and this one asks what it asked.
Touches(n) ==
    /\ DOMAIN requests' \subseteq DOMAIN requests
    /\ DOMAIN requests \ {n} \subseteq DOMAIN requests'
    /\ \A m \in DOMAIN requests' \ {n} : requests'[m] = requests[m]
    /\ n \in DOMAIN requests' =>
           requests'[n].view = requests[n].view /\ requests'[n].question = requests[n].question

\* A request that is over.
LEMMA WithoutTouches ==
    ASSUME NEW n \in DOMAIN requests, requests' = Without(n)
    PROVE  Touches(n) /\ n \notin DOMAIN requests'
BY DEF Without, Restrict, Touches

\* A request that goes on.
LEMMA ExceptTouches ==
    ASSUME NEW n \in DOMAIN requests, NEW r, requests' = [requests EXCEPT ![n] = r],
           r.view = requests[n].view, r.question = requests[n].question
    PROVE  Touches(n) /\ n \in DOMAIN requests' /\ requests'[n] = r
BY DEF Touches

\* The endpoint returns.
LEMMA AnswerFacts ==
    ASSUME NEW n \in DOMAIN requests, NEW age, Answer(n, age)
    PROVE  /\ Touches(n)
           /\ n \in DOMAIN requests' =>
                  requests'[n].pc = "answered" /\ requests'[n].age = age
<1>1. CASE Aborted(n)
  BY <1>1, WithoutTouches DEF Answer
<1>2. CASE ~Aborted(n)
  <2>1. PICK r : r = [view |-> requests[n].view, question |-> requests[n].question,
                      pc |-> "answered", age |-> age]
    OBVIOUS
  <2>2. requests' = [requests EXCEPT ![n] = r]
    BY <1>2, <2>1, Zenon DEF Answer
  <2>3. /\ r.view = requests[n].view /\ r.question = requests[n].question
        /\ r.pc = "answered" /\ r.age = age
    BY <2>1
  <2>4. Touches(n) /\ requests'[n] = r
    BY <2>2, <2>3, ExceptTouches, Zenon
  <2> QED
    BY <2>3, <2>4
<1> QED
  BY <1>1, <1>2

\* A statement begins with a connection of its own, or the request fails.
LEMMA ExecuteFacts ==
    ASSUME NEW n \in DOMAIN requests, NEW asked, NEW left, Execute(n, asked, left)
    PROVE  /\ Touches(n)
           /\ \/ /\ used < PoolSize /\ used' = used + 1
                 /\ n \in DOMAIN requests' /\ requests'[n].pc = "running"
                 /\ requests'[n].at = asked /\ requests'[n].left = left
                 /\ requests'[n].deadline = now + Timeout
              \/ /\ used' = used
                 /\ n \in DOMAIN requests' =>
                        requests'[n].pc = "answered" /\ requests'[n].age = Failed
<1>1. CASE used < PoolSize
  <2>1. PICK r : r = [view |-> requests[n].view, question |-> requests[n].question,
                      pc |-> "running", at |-> asked, left |-> left,
                      deadline |-> now + Timeout]
    OBVIOUS
  <2>2. requests' = [requests EXCEPT ![n] = r]
    BY <1>1, <2>1, Zenon DEF Execute
  <2>3. /\ r.view = requests[n].view /\ r.question = requests[n].question
        /\ r.pc = "running" /\ r.at = asked /\ r.left = left /\ r.deadline = now + Timeout
    BY <2>1
  <2>4. Touches(n) /\ n \in DOMAIN requests' /\ requests'[n] = r
    BY <2>2, <2>3, ExceptTouches, Zenon
  <2>5. used' = used + 1
    BY <1>1 DEF Execute
  <2> QED
    BY <1>1, <2>3, <2>4, <2>5, Zenon
<1>2. CASE ~(used < PoolSize)
  BY <1>2, AnswerFacts DEF Execute
<1> QED
  BY <1>1, <1>2

\* A statement is over and there are more.
LEMMA StatementDoneFacts ==
    ASSUME NEW n \in DOMAIN requests, StatementDone(n)
    PROVE  /\ Touches(n)
           /\ n \in DOMAIN requests' /\ requests'[n].pc = "next"
           /\ requests'[n].at = requests[n].at
           /\ requests'[n].left = requests[n].left - 1
<1>1. PICK r : r = [view |-> requests[n].view, question |-> requests[n].question,
                    pc |-> "next", at |-> requests[n].at, left |-> requests[n].left - 1]
  OBVIOUS
<1>2. requests' = [requests EXCEPT ![n] = r]
  BY <1>1, Zenon DEF StatementDone
<1>3. /\ r.view = requests[n].view /\ r.question = requests[n].question
      /\ r.pc = "next" /\ r.at = requests[n].at /\ r.left = requests[n].left - 1
  BY <1>1
<1>4. Touches(n) /\ n \in DOMAIN requests' /\ requests'[n] = r
  BY <1>2, <1>3, ExceptTouches, Zenon
<1> QED
  BY <1>3, <1>4, Zenon

\* Every step of a request is about that request only.
LEMMA HandlingTouches ==
    ASSUME NEW n \in DOMAIN requests, Serve(n) \/ Deliver(n)
    PROVE  Touches(n) /\ UNCHANGED <<now, loads>> /\ (Serve(n) => UNCHANGED view)
<1>1. CASE Lookup(n)
  BY <1>1, AnswerFacts DEF Lookup, Serve
<1>2. CASE Compute(n)
  BY <1>2, ExecuteFacts DEF Compute
<1>3. CASE StatementDone(n)
  BY <1>3, StatementDoneFacts DEF StatementDone
<1>4. CASE NextStatement(n)
  BY <1>4, ExecuteFacts DEF NextStatement
<1>5. CASE StatementFails(n)
  BY <1>5, AnswerFacts DEF StatementFails
<1>6. CASE Store(n)
  BY <1>6, AnswerFacts DEF Store
<1>7. CASE Deliver(n)
  <2>1. Touches(n) /\ UNCHANGED <<now, loads>>
    BY <1>7, WithoutTouches DEF Deliver
  <2>2. ~Serve(n)
    BY <1>7 DEF Deliver, Serve, Lookup, Compute, StatementDone, NextStatement,
       StatementFails, Store, At
  <2> QED
    BY <2>1, <2>2
<1> QED
  BY <1>1, <1>2, <1>3, <1>4, <1>5, <1>6, <1>7 DEF Serve

\* A request is answered with data that is not too old.
LEMMA AnsweredOK ==
    ASSUME NEW r, r.view \in Views, r.question \in Questions, r.pc = "answered",
           r.age \in Int, r.age < CacheSeconds + Spent(r.question, 0)
    PROVE  RequestOK(r, now)
BY DEF RequestOK

\* A refused request and one with new data are within any bound.
LEMMA FailedOrNew ==
    ASSUME NEW q \in Questions
    PROVE  0 < CacheSeconds + Spent(q, 0) /\ Failed < CacheSeconds + Spent(q, 0)
<1>1. Statements[q] \in Nat \ {0} /\ CacheSeconds \in Nat \ {0}
  BY Numbers
<1>2. 1 \in 1..Statements[q]
  BY <1>1
<1>3. Spent(q, 0) \in Nat
  BY <1>2, SpentFacts
<1> QED
  BY <1>1, <1>3 DEF Failed

\* A statement that begins has the time of those before it and its own.
LEMMA RunningOK ==
    ASSUME NEW r, r.view \in Views, r.question \in Questions, r.pc = "running",
           now \in Nat, r.at \in 0..now, r.left \in 1..Statements[r.question],
           r.deadline = now + Timeout, now =< r.at + Spent(r.question, r.left)
    PROVE  RequestOK(r, now)
<1>1. /\ Spent(r.question, r.left) \in Nat
      /\ Spent(r.question, r.left - 1) = Spent(r.question, r.left) + Timeout
  BY SpentFacts
<1>2. Timeout \in Nat
  BY Numbers
<1>3. r.at \in Nat
  BY Numbers
<1>4. /\ r.deadline \in Nat /\ now =< r.deadline
      /\ r.deadline =< r.at + Spent(r.question, r.left - 1)
  BY <1>1, <1>2, <1>3
<1> QED
  BY <1>4 DEF RequestOK

\* What becomes of the request of a step.
LEMMA HandledRequest ==
    ASSUME ClockOK, RequestsOK, EntriesOK, NEW n \in DOMAIN requests,
           Serve(n) \/ Deliver(n), n \in DOMAIN requests'
    PROVE  RequestOK(requests'[n], now)
<1>1. PICK r : r = requests[n]
  OBVIOUS
<1>2. PICK s : s = requests'[n]
  OBVIOUS
<1>3. RequestOK(r, now) /\ now \in Nat
  BY <1>1, Numbers DEF RequestsOK, ClockOK
<1>4. r.view \in Views /\ r.question \in Questions
  BY <1>3 DEF RequestOK
<1>5. s.view = r.view /\ s.question = r.question
  BY <1>1, <1>2, HandlingTouches DEF Touches
<1>6. s.view \in Views /\ s.question \in Questions
  BY <1>4, <1>5
<1>7. Statements[s.question] \in Nat \ {0}
  BY <1>6, Numbers
<1>8. 0 < CacheSeconds + Spent(s.question, 0) /\ Failed < CacheSeconds + Spent(s.question, 0)
  BY <1>6, FailedOrNew
<1>9. ASSUME s.pc = "answered", s.age \in {0, Failed} PROVE RequestOK(s, now)
  <2>1. s.age \in Int /\ s.age < CacheSeconds + Spent(s.question, 0)
    BY <1>8, <1>9 DEF Failed
  <2> QED
    BY <1>6, <1>9, <2>1, AnsweredOK
<1>10. CASE Lookup(n)
  <2>1. /\ r.question \in DOMAIN entries
        /\ now - entries[r.question].time < CacheSeconds
    BY <1>1, <1>10 DEF Lookup, Hit, IsFresh
  <2>2. EntryOK(r.question, entries[r.question], now)
    BY <2>1 DEF EntriesOK
  <2>3. s.pc = "answered" /\ s.age = now - entries[r.question].value
    BY <1>1, <1>2, <1>10, AnswerFacts DEF Lookup
  <2>4. 1 \in 1..Statements[s.question]
    BY <1>7
  <2>5. Spent(s.question, 0) \in Nat
    BY <1>6, <2>4, SpentFacts
  <2>6. CacheSeconds \in Nat
    BY Numbers
  <2>7. s.age \in Int /\ s.age < CacheSeconds + Spent(s.question, 0)
    BY <1>3, <1>5, <2>1, <2>2, <2>3, <2>5, <2>6 DEF EntryOK
  <2> QED
    BY <1>2, <1>6, <2>3, <2>7, AnsweredOK
<1>11. CASE Compute(n)
  <2>1. Execute(n, now, Statements[r.question])
    BY <1>1, <1>11 DEF Compute
  <2>2. CASE s.pc = "running" /\ s.at = now /\ s.left = Statements[r.question]
             /\ s.deadline = now + Timeout
    <3>1. s.left \in 1..Statements[s.question] /\ s.at \in 0..now
      BY <1>3, <1>5, <1>7, <2>2
    <3>2. Spent(s.question, s.left) = 0
      BY <1>5, <1>6, <2>2, <3>1, SpentFacts
    <3>3. now =< s.at + Spent(s.question, s.left)
      BY <1>3, <2>2, <3>2
    <3> QED
      BY <1>2, <1>3, <1>6, <2>2, <3>1, <3>3, RunningOK
  <2>3. CASE s.pc = "answered" /\ s.age = Failed
    BY <1>2, <1>9, <2>3
  <2> QED
    BY <1>2, <2>1, <2>2, <2>3, ExecuteFacts
<1>12. CASE StatementDone(n)
  <2>1. s.pc = "next" /\ s.at = r.at /\ s.left = r.left - 1
    BY <1>1, <1>2, <1>12, StatementDoneFacts
  <2>2. r.pc = "running" /\ r.left > 1
    BY <1>1, <1>12 DEF StatementDone, At
  <2>3. /\ r.at \in 0..now /\ r.left \in 1..Statements[r.question]
        /\ r.deadline \in Nat /\ now =< r.deadline
        /\ r.deadline =< r.at + Spent(r.question, r.left - 1)
    BY <1>3, <2>2 DEF RequestOK
  <2>4. Spent(r.question, r.left - 1) \in Nat
    BY <1>4, <2>3, SpentFacts
  <2>5. s.at \in 0..now /\ s.left \in 1..Statements[s.question]
    BY <1>5, <1>7, <2>1, <2>2, <2>3
  <2>6. now =< s.at + Spent(s.question, s.left)
    BY <1>3, <1>5, <2>1, <2>3, <2>4
  <2> QED
    BY <1>2, <1>6, <2>1, <2>5, <2>6 DEF RequestOK
<1>13. CASE NextStatement(n)
  <2>1. Execute(n, r.at, r.left) /\ r.pc = "next"
    BY <1>1, <1>13 DEF NextStatement, At
  <2>2. /\ r.at \in 0..now /\ r.left \in 1..Statements[r.question]
        /\ now =< r.at + Spent(r.question, r.left)
    BY <1>3, <2>1 DEF RequestOK
  <2>3. CASE s.pc = "running" /\ s.at = r.at /\ s.left = r.left
             /\ s.deadline = now + Timeout
    <3>1. /\ s.at \in 0..now /\ s.left \in 1..Statements[s.question]
          /\ now =< s.at + Spent(s.question, s.left)
      BY <1>5, <2>2, <2>3
    <3> QED
      BY <1>2, <1>3, <1>6, <2>3, <3>1, RunningOK
  <2>4. CASE s.pc = "answered" /\ s.age = Failed
    BY <1>2, <1>9, <2>4
  <2> QED
    BY <1>2, <2>1, <2>3, <2>4, ExecuteFacts
<1>14. CASE StatementFails(n)
  BY <1>2, <1>9, <1>14, AnswerFacts DEF StatementFails
<1>15. CASE Store(n)
  BY <1>2, <1>9, <1>15, AnswerFacts DEF Store
<1>16. CASE Deliver(n)
  BY <1>16, WithoutTouches DEF Deliver
<1> QED
  BY <1>10, <1>11, <1>12, <1>13, <1>14, <1>15, <1>16 DEF Serve

\* A step of a request keeps what is said of requests.
LEMMA HandlingRequests ==
    ASSUME ClockOK, RequestsOK, EntriesOK, NEW n \in DOMAIN requests, Serve(n) \/ Deliver(n)
    PROVE  ClockOK' /\ RequestsOK'
<1>1. Touches(n) /\ now' = now /\ loads' = loads
  BY HandlingTouches
<1>2. n \in DOMAIN requests' => RequestOK(requests'[n], now)
  BY HandledRequest
<1>3. \A m \in DOMAIN requests' : RequestOK(requests'[m], now)
  BY <1>1, <1>2 DEF Touches, RequestsOK
<1>4. DOMAIN requests' \subseteq 1..loads
  BY <1>1 DEF Touches, RequestsOK
<1>5. ClockOK'
  BY <1>1 DEF ClockOK
<1>6. RequestsOK'
  BY <1>1, <1>3, <1>4, Zenon DEF RequestsOK
<1> QED
  BY <1>5, <1>6

-----------------------------------------------------------------------------
(***************************************************************************)
(* The cache and the pool.                                                 *)
(***************************************************************************)

\* The oldest entry makes room: no more than MaxEntries stay, each as it was.
LEMMA TrimmedFacts ==
    ASSUME NEW es, NEW fs \in Trimmed(es), IsFiniteSet(DOMAIN es),
           Cardinality(DOMAIN es) =< MaxEntries + 1
    PROVE  /\ DOMAIN fs \subseteq DOMAIN es
           /\ IsFiniteSet(DOMAIN fs) /\ Cardinality(DOMAIN fs) =< MaxEntries
           /\ \A q \in DOMAIN fs : fs[q] = es[q]
<1>1. CASE Cardinality(DOMAIN es) =< MaxEntries
  <2>1. fs = es
    BY <1>1 DEF Trimmed
  <2> QED
    BY <1>1, <2>1
<1>2. CASE ~(Cardinality(DOMAIN es) =< MaxEntries)
  <2>1. PICK q \in DOMAIN es : fs = Restrict(es, DOMAIN es \ {q})
    BY <1>2, Zenon DEF Trimmed
  <2>2. DOMAIN fs = DOMAIN es \ {q} /\ \A x \in DOMAIN fs : fs[x] = es[x]
    BY <2>1 DEF Restrict
  <2>3. IsFiniteSet(DOMAIN es \ {q}) /\ Cardinality(DOMAIN es \ {q}) = Cardinality(DOMAIN es) - 1
    BY FS_RemoveElement
  <2>4. Cardinality(DOMAIN es) \in Nat
    BY FS_CardinalityType
  <2>5. Cardinality(DOMAIN fs) =< MaxEntries
    BY <2>2, <2>3, <2>4, Numbers
  <2> QED
    BY <2>2, <2>3, <2>5
<1> QED
  BY <1>1, <1>2

\* get stores the answer.
LEMMA StoreEntries ==
    ASSUME ClockOK, RequestsOK, EntriesOK, NEW n \in DOMAIN requests, Store(n)
    PROVE  EntriesOK'
<1>1. PICK r : r = requests[n]
  OBVIOUS
<1>2. PICK e : e = [time |-> now, value |-> r.at]
  OBVIOUS
<1>3. PICK es : es = With(entries, r.question, e)
  OBVIOUS
<1>4. now' = now
  BY DEF Store
<1>5. CASE r.question \notin Cached
  <2>1. entries' = entries
    BY <1>1, <1>5 DEF Store
  <2> QED
    BY <1>4, <2>1 DEF EntriesOK
<1>6. CASE r.question \in Cached
  <2>1. entries' \in Trimmed(es)
    BY <1>1, <1>2, <1>3, <1>6, Zenon DEF Store
  <2>2. DOMAIN es = DOMAIN entries \union {r.question}
        /\ \A q \in DOMAIN es : es[q] = IF q = r.question THEN e ELSE entries[q]
    BY <1>3 DEF With
  <2>3. IsFiniteSet(DOMAIN es) /\ Cardinality(DOMAIN es) =< MaxEntries + 1
    <3>1. /\ IsFiniteSet(DOMAIN entries) /\ Cardinality(DOMAIN entries) =< MaxEntries
      BY DEF EntriesOK
    <3>2. Cardinality(DOMAIN entries) \in Nat
      BY <3>1, FS_CardinalityType
    <3>3. /\ IsFiniteSet(DOMAIN entries \cup {r.question})
          /\ Cardinality(DOMAIN entries \cup {r.question}) =
                 IF r.question \in DOMAIN entries THEN Cardinality(DOMAIN entries)
                 ELSE Cardinality(DOMAIN entries) + 1
      BY <3>1, FS_AddElement
    <3> QED
      BY <2>2, <3>1, <3>2, <3>3, Numbers
  <2>4. EntryOK(r.question, e, now)
    <3>1. RequestOK(r, now) /\ r.pc = "running" /\ r.left = 1
      BY <1>1 DEF Store, At, RequestsOK
    <3>2. /\ r.question \in Questions /\ r.at \in 0..now /\ 1 \in 1..Statements[r.question]
          /\ r.deadline \in Nat /\ now =< r.deadline
          /\ r.deadline =< r.at + Spent(r.question, 1 - 1)
      BY <3>1 DEF RequestOK
    <3>3. Spent(r.question, 0) \in Nat /\ 1 - 1 = 0
      BY <3>2, SpentFacts
    <3>4. now \in Nat /\ r.at \in Nat
      BY <3>2, Numbers DEF ClockOK
    <3>5. e.time = now /\ e.value = r.at
      BY <1>2
    <3>6. r.deadline =< r.at + Spent(r.question, 0)
      BY <3>2, <3>3
    <3> QED
      BY <3>2, <3>3, <3>4, <3>5, <3>6 DEF EntryOK
  <2>5. \A q \in DOMAIN es : EntryOK(q, es[q], now)
    BY <2>2, <2>4 DEF EntriesOK
  <2>6. DOMAIN es \subseteq Cached
    BY <1>6, <2>2 DEF EntriesOK
  <2>7. /\ DOMAIN entries' \subseteq DOMAIN es
        /\ IsFiniteSet(DOMAIN entries') /\ Cardinality(DOMAIN entries') =< MaxEntries
        /\ \A q \in DOMAIN entries' : entries'[q] = es[q]
    BY <2>1, <2>3, TrimmedFacts
  <2>8. \A q \in DOMAIN entries' : EntryOK(q, entries'[q], now)
    BY <2>5, <2>7, Zenon
  <2> QED
    BY <1>4, <2>6, <2>7, <2>8, Zenon DEF EntriesOK
<1> QED
  BY <1>5, <1>6

\* The requests that run a statement are finitely many.
LEMMA RunningFinite ==
    ASSUME ClockOK, RequestsOK
    PROVE  IsFiniteSet(Running)
<1>1. loads \in Nat
  BY Numbers DEF ClockOK
<1>2. IsFiniteSet(1..loads)
  BY <1>1, FS_Interval
<1>3. Running \in SUBSET (1..loads)
  BY DEF Running, RequestsOK
<1> QED
  BY <1>2, <1>3, FS_Subset

\* A statement begins: its connection is counted.
LEMMA PoolTaken ==
    ASSUME ClockOK, RequestsOK, PoolOK, NEW n \in DOMAIN requests, Touches(n),
           requests[n].pc # "running", n \in DOMAIN requests', requests'[n].pc = "running",
           used < PoolSize, used' = used + 1
    PROVE  PoolOK'
<1>1. Running' = Running \cup {n} /\ n \notin Running
  BY DEF Running, At, Touches
<1>2. IsFiniteSet(Running)
  BY RunningFinite
<1>3. Cardinality(Running \cup {n}) = Cardinality(Running) + 1 /\ Cardinality(Running) \in Nat
  BY <1>1, <1>2, FS_AddElement, FS_CardinalityType
<1> QED
  BY <1>1, <1>3, Numbers DEF PoolOK

\* A statement ends: its connection is put back.
LEMMA PoolReturned ==
    ASSUME ClockOK, RequestsOK, PoolOK, NEW n \in DOMAIN requests, Touches(n),
           requests[n].pc = "running",
           n \in DOMAIN requests' => requests'[n].pc # "running",
           used' = used - 1
    PROVE  PoolOK'
<1>1. Running' = Running \ {n} /\ n \in Running
  BY DEF Running, At, Touches
<1>2. IsFiniteSet(Running)
  BY RunningFinite
<1>3. Cardinality(Running \ {n}) = Cardinality(Running) - 1 /\ Cardinality(Running) \in Nat
  BY <1>1, <1>2, FS_RemoveElement, FS_CardinalityType
<1> QED
  BY <1>1, <1>3, Numbers DEF PoolOK

\* Steps that neither begin nor end a statement.
LEMMA PoolSame ==
    ASSUME PoolOK, NEW n \in DOMAIN requests, Touches(n), requests[n].pc # "running",
           n \in DOMAIN requests' => requests'[n].pc # "running", used' = used
    PROVE  PoolOK'
<1>1. Running' = Running
  BY DEF Running, At, Touches
<1> QED
  BY <1>1 DEF PoolOK

\* Execute takes a connection, or finds none.
LEMMA ExecutePool ==
    ASSUME ClockOK, RequestsOK, PoolOK, NEW n \in DOMAIN requests, NEW asked, NEW left,
           Execute(n, asked, left), requests[n].pc # "running"
    PROVE  PoolOK'
<1>1. Touches(n)
  BY ExecuteFacts
<1>2. CASE /\ used < PoolSize /\ used' = used + 1
           /\ n \in DOMAIN requests' /\ requests'[n].pc = "running"
  BY <1>1, <1>2, PoolTaken
<1>3. CASE /\ used' = used
           /\ n \in DOMAIN requests' => requests'[n].pc = "answered"
  BY <1>1, <1>3, PoolSame
<1> QED
  BY <1>2, <1>3, ExecuteFacts

\* No step of a request loses a connection, and entries stay true.
LEMMA HandlingPool ==
    ASSUME ClockOK, RequestsOK, EntriesOK, PoolOK,
           NEW n \in DOMAIN requests, Serve(n) \/ Deliver(n)
    PROVE  EntriesOK' /\ PoolOK'
<1>1. Touches(n) /\ now' = now
  BY HandlingTouches
<1>2. ASSUME entries' = entries PROVE EntriesOK'
  BY <1>1, <1>2 DEF EntriesOK
<1>3. CASE Lookup(n)
  <2>1. requests[n].pc # "running" /\ used' = used /\ entries' = entries
    BY <1>3 DEF Lookup, At
  <2>2. n \in DOMAIN requests' => requests'[n].pc # "running"
    BY <1>3, AnswerFacts DEF Lookup
  <2> QED
    BY <1>1, <1>2, <2>1, <2>2, PoolSame
<1>4. CASE Compute(n)
  BY <1>2, <1>4, ExecutePool DEF Compute, At
<1>5. CASE StatementDone(n)
  <2>1. requests[n].pc = "running" /\ used' = used - 1 /\ entries' = entries
    BY <1>5 DEF StatementDone, At
  <2>2. requests'[n].pc # "running"
    BY <1>5, StatementDoneFacts
  <2> QED
    BY <1>1, <1>2, <2>1, <2>2, PoolReturned
<1>6. CASE NextStatement(n)
  BY <1>2, <1>6, ExecutePool DEF NextStatement, At
<1>7. CASE StatementFails(n)
  <2>1. requests[n].pc = "running" /\ used' = used - 1 /\ entries' = entries
    BY <1>7 DEF StatementFails, At, PutBack
  <2>2. n \in DOMAIN requests' => requests'[n].pc # "running"
    BY <1>7, AnswerFacts DEF StatementFails
  <2> QED
    BY <1>1, <1>2, <2>1, <2>2, PoolReturned
<1>8. CASE Store(n)
  <2>1. requests[n].pc = "running" /\ used' = used - 1
    BY <1>8 DEF Store, At
  <2>2. n \in DOMAIN requests' => requests'[n].pc # "running"
    BY <1>8, AnswerFacts DEF Store
  <2> QED
    BY <1>1, <1>8, <2>1, <2>2, PoolReturned, StoreEntries
<1>9. CASE Deliver(n)
  <2>1. requests[n].pc # "running" /\ used' = used /\ entries' = entries
    BY <1>9 DEF Deliver, At
  <2>2. n \notin DOMAIN requests'
    BY <1>9, WithoutTouches DEF Deliver
  <2> QED
    BY <1>1, <1>2, <2>1, <2>2, PoolSame
<1> QED
  BY <1>3, <1>4, <1>5, <1>6, <1>7, <1>8, <1>9 DEF Serve

-----------------------------------------------------------------------------
(***************************************************************************)
(* The views.                                                              *)
(***************************************************************************)

\* What a view's state means for its data, from one state to the next.
Newer(s, t) ==
    s.open /\ t.open /\ s.data # t.data => s.data = NoData \/ s.data.load < t.data.load

\* A step of a request is none of a view that stays as it is.
LEMMA FitsTouched ==
    ASSUME NEW n \in DOMAIN requests, Touches(n), NEW v, NEW s,
           Fits(v, s, requests, loads)
    PROVE  Fits(v, s, requests', loads)
<1>1. /\ IsView(s) /\ (s.open => s.question \in Questions) /\ s.current \in 0..loads
      /\ s.data # NoData => s.data.load \in 0..s.current /\ s.data.load \notin DOMAIN requests
      /\ s.current \in DOMAIN requests /\ requests[s.current].view = v
             => requests[s.current].question = s.question
  BY Zenon DEF Fits
<1>2. DOMAIN requests' \subseteq DOMAIN requests
  BY DEF Touches
<1>3. s.data # NoData => s.data.load \in 0..s.current /\ s.data.load \notin DOMAIN requests'
  BY <1>1, <1>2, Zenon
<1>4. s.current \in DOMAIN requests' =>
          /\ requests'[s.current].view = requests[s.current].view
          /\ requests'[s.current].question = requests[s.current].question
  BY DEF Touches
<1>5. s.current \in DOMAIN requests' /\ requests'[s.current].view = v
          => requests'[s.current].question = s.question
  BY <1>1, <1>2, <1>4, Zenon
<1> QED
  BY <1>1, <1>3, <1>5, Zenon DEF Fits

\* An answer arrives: the view that waits for it shows it, or an error.
LEMMA DeliverView ==
    ASSUME RequestsOK, ViewsOK, OldDataFlagged, NEW n \in DOMAIN requests, Deliver(n),
           NEW v \in Views
    PROVE  /\ Fits(v, view'[v], requests', loads)
           /\ Flagged(view'[v])
           /\ Newer(view[v], view'[v])
<1>1. PICK r : r = requests[n]
  OBVIOUS
<1>2. PICK s : s = view[v]
  OBVIOUS
<1>3. Touches(n) /\ n \notin DOMAIN requests'
  BY WithoutTouches DEF Deliver
<1>4. Fits(v, s, requests, loads)
  BY <1>2 DEF ViewsOK
<1>5. Fits(v, s, requests', loads)
  BY <1>3, <1>4, FitsTouched
<1>6. Flagged(s)
  BY <1>2, Zenon DEF OldDataFlagged, Flagged
<1>7. Newer(s, s)
  BY Zenon DEF Newer
<1>8. ASSUME view'[v] = s
      PROVE  Fits(v, view'[v], requests', loads) /\ Flagged(view'[v]) /\ Newer(view[v], view'[v])
  BY <1>2, <1>5, <1>6, <1>7, <1>8, Zenon
<1>9. PICK d : d = [question |-> r.question, load |-> n]
  OBVIOUS
<1>10. view' = [view EXCEPT ![r.view] = IF Aborted(n) THEN view[r.view]
                                        ELSE IF r.age = Failed THEN ShowError(view[r.view])
                                        ELSE ShowData(view[r.view], d)]
  BY <1>1, <1>9, Zenon DEF Deliver
<1>11. DOMAIN view = Views
  BY DEF ViewsOK
<1>12. CASE r.view # v \/ Aborted(n)
  <2>1. view'[v] = s
    BY <1>2, <1>10, <1>11, <1>12
  <2> QED
    BY <1>8, <2>1
<1>13. CASE r.view = v /\ ~Aborted(n)
  <2>1. s.current = n
    BY <1>1, <1>2, <1>13 DEF Aborted
  <2>2. IsView(s) /\ (s.open => s.question \in Questions) /\ s.current \in 0..loads
    BY <1>4, Zenon DEF Fits
  <2>3. n \in Nat /\ n \in 0..n
    BY DEF RequestsOK
  <2>4. CASE r.age = Failed
    <3>1. view'[v] = ShowError(s)
      BY <1>2, <1>10, <1>11, <1>13, <2>4
    <3>2. PICK t : t = ShowError(s)
      OBVIOUS
    <3>3. /\ IsView(t) /\ t.open = s.open /\ t.question = s.question /\ t.data = s.data
          /\ t.current = s.current /\ t.error = TRUE
      BY <2>2, <3>2, ShowErrorFacts, Zenon
    <3>4. s.data # NoData => s.data.load \in 0..s.current /\ s.data.load \notin DOMAIN requests'
      BY <1>5, Zenon DEF Fits
    <3>5. Fits(v, t, requests', loads)
      BY <1>3, <2>1, <2>2, <3>3, <3>4, Zenon DEF Fits
    <3>6. Flagged(t) /\ Newer(s, t)
      BY <3>3, Zenon DEF Flagged, Newer
    <3> QED
      BY <1>2, <3>1, <3>2, <3>5, <3>6, Zenon
  <2>5. CASE r.age # Failed
    <3>1. view'[v] = ShowData(s, d)
      BY <1>2, <1>10, <1>11, <1>13, <2>5
    <3>2. PICK t : t = ShowData(s, d)
      OBVIOUS
    <3>3. /\ IsView(t) /\ t.open = s.open /\ t.question = s.question /\ t.data = d
          /\ t.current = s.current
      BY <2>2, <3>2, ShowDataFacts, Zenon
    <3>4. d.question = r.question /\ d.load = n
      BY <1>9
    <3>5. Fits(v, t, requests', loads)
      BY <1>3, <2>1, <2>2, <2>3, <3>3, <3>4, Zenon DEF Fits
    <3>6. r.question = s.question
      BY <1>1, <1>4, <1>13, <2>1, Zenon DEF Fits
    <3>7. Flagged(t)
      BY <3>3, <3>4, <3>6, Zenon DEF Flagged
    <3>8. s.data # NoData => s.data.load \in 0..n /\ s.data.load # n
      BY <1>4, <2>1, Zenon DEF Fits
    <3>9. s.data # NoData => s.data.load < n
      BY <2>3, <3>8
    <3>10. Newer(s, t)
      BY <3>3, <3>4, <3>9, Zenon DEF Newer
    <3> QED
      BY <1>2, <3>1, <3>2, <3>5, <3>7, <3>10, Zenon
  <2> QED
    BY <2>4, <2>5
<1> QED
  BY <1>12, <1>13

\* What load does with a view's state s.
LEMMA SendView ==
    ASSUME ClockOK, RequestsOK, ViewsOK, OldDataFlagged, NEW v \in Views, NEW s,
           IsView(s), s.data = view[v].data, s.open => s.question \in Questions, Send(v, s),
           NEW w \in Views
    PROVE  /\ Fits(w, view'[w], requests', loads')
           /\ Flagged(view'[w])
           /\ Newer(view[w], view'[w])
<1>1. PICK n : n = loads + 1
  OBVIOUS
<1>2. PICK r : r = [view |-> v, question |-> s.question, pc |-> "sent"]
  OBVIOUS
<1>3. loads \in Nat /\ n \in Nat /\ loads' = n
  BY <1>1, Numbers DEF ClockOK, Send
<1>4. requests' = With(requests, n, r) /\ view' = [view EXCEPT ![v] = Begun(s, n)]
  BY <1>2, <1>3, Zenon DEF Send
<1>5. /\ DOMAIN requests' = DOMAIN requests \union {n}
      /\ \A m \in DOMAIN requests' : requests'[m] = IF m = n THEN r ELSE requests[m]
  BY <1>4 DEF With
<1>6. r.view = v /\ r.question = s.question
  BY <1>2
<1>7. DOMAIN view = Views
  BY DEF ViewsOK
<1>8. PICK u : u = view[w]
  OBVIOUS
<1>9. Fits(w, u, requests, loads)
  BY <1>8 DEF ViewsOK
<1>10. u.current \in 0..loads /\ u.current \in Nat /\ u.current \in 0..n /\ u.current # n
  <2>1. u.current \in 0..loads
    BY <1>9, Zenon DEF Fits
  <2> QED
    BY <1>1, <1>3, <2>1
<1>11. u.data # NoData => u.data.load \in 0..u.current /\ u.data.load \notin DOMAIN requests
  BY <1>9, Zenon DEF Fits
<1>12. u.data # NoData => u.data.load \in 0..n /\ u.data.load # n
  BY <1>1, <1>3, <1>10, <1>11
<1>13. u.data # NoData => u.data.load \notin DOMAIN requests'
  BY <1>5, <1>11, <1>12
<1>14. CASE w # v
  <2>1. view'[w] = u
    BY <1>4, <1>7, <1>8, <1>14
  <2>2. u.current \in DOMAIN requests' =>
            u.current \in DOMAIN requests /\ requests'[u.current] = requests[u.current]
    BY <1>5, <1>10
  <2>3. /\ IsView(u) /\ (u.open => u.question \in Questions)
        /\ u.current \in DOMAIN requests /\ requests[u.current].view = w
               => requests[u.current].question = u.question
    BY <1>9, Zenon DEF Fits
  <2>4. Fits(w, u, requests', n)
    BY <1>10, <1>11, <1>13, <2>2, <2>3, Zenon DEF Fits
  <2>5. Flagged(u)
    BY <1>8, Zenon DEF OldDataFlagged, Flagged
  <2>6. Newer(u, u)
    BY Zenon DEF Newer
  <2> QED
    BY <1>3, <1>8, <2>1, <2>4, <2>5, <2>6, Zenon
<1>15. CASE w = v
  <2>1. view'[w] = Begun(s, n)
    BY <1>4, <1>7, <1>15
  <2>2. PICK t : t = Begun(s, n)
    OBVIOUS
  <2>3. /\ IsView(t) /\ t.open = s.open /\ t.question = s.question /\ t.data = s.data
        /\ t.current = n /\ t.refreshing = (s.data # NoData)
    <3>1. /\ IsView(Begun(s, n))
          /\ Begun(s, n).open = s.open /\ Begun(s, n).question = s.question
          /\ Begun(s, n).data = s.data /\ Begun(s, n).current = n
          /\ Begun(s, n).refreshing = (s.data # NoData)
      BY BegunFacts
    <3> QED
      BY <2>2, <3>1, Zenon
  <2>4. t.data = u.data
    BY <1>8, <1>15, <2>3, Zenon
  <2>5. n \in 0..n /\ n \in DOMAIN requests' /\ requests'[n] = r
    BY <1>3, <1>5
  <2>6. Fits(w, t, requests', n)
    BY <1>6, <1>12, <1>13, <2>3, <2>4, <2>5, Zenon DEF Fits
  <2>7. Flagged(t)
    BY <2>3, Zenon DEF Flagged
  <2>8. Newer(u, t)
    BY <2>4, Zenon DEF Newer
  <2> QED
    BY <1>3, <1>8, <2>1, <2>2, <2>6, <2>7, <2>8, Zenon
<1> QED
  BY <1>14, <1>15

\* The parts of the invariant that are about views, from the state of each.
LEMMA ViewsNext ==
    ASSUME DOMAIN view' = Views,
           \A v \in Views : /\ Fits(v, view'[v], requests', loads')
                            /\ Flagged(view'[v])
                            /\ Newer(view[v], view'[v])
    PROVE  /\ ViewsOK' /\ OldDataFlagged'
           /\ \A v \in Views : Newer(view[v], view'[v])
<1>1. ViewsOK'
  BY Zenon DEF ViewsOK
<1>2. OldDataFlagged'
  BY Zenon DEF OldDataFlagged, Flagged
<1> QED
  BY <1>1, <1>2, Zenon

\* Steps of a request.
LEMMA HandlingStep ==
    ASSUME DashboardInv, NEW n \in DOMAIN requests, Serve(n) \/ Deliver(n)
    PROVE  DashboardInv' /\ \A v \in Views : Newer(view[v], view'[v])
<1>1. ClockOK' /\ RequestsOK' /\ EntriesOK' /\ PoolOK'
  BY HandlingRequests, HandlingPool DEF DashboardInv
<1>2. Touches(n) /\ loads' = loads
  BY HandlingTouches
<1>3. DOMAIN view' = Views
  <2>1. DOMAIN view = Views
    BY DEF DashboardInv, ViewsOK
  <2>2. CASE Serve(n)
    BY <2>1, <2>2, HandlingTouches
  <2>3. CASE Deliver(n)
    BY <2>1, <2>3 DEF Deliver
  <2> QED
    BY <2>2, <2>3
<1>4. ASSUME NEW v \in Views
      PROVE  /\ Fits(v, view'[v], requests', loads')
             /\ Flagged(view'[v])
             /\ Newer(view[v], view'[v])
  <2>1. CASE Serve(n)
    <3>1. view' = view
      BY <2>1, HandlingTouches
    <3>2. Fits(v, view[v], requests, loads)
      BY DEF DashboardInv, ViewsOK
    <3>3. Fits(v, view[v], requests', loads)
      BY <1>2, <3>2, FitsTouched
    <3>4. Flagged(view[v]) /\ Newer(view[v], view[v])
      BY Zenon DEF DashboardInv, OldDataFlagged, Flagged, Newer
    <3> QED
      BY <1>2, <3>1, <3>3, <3>4, Zenon
  <2>2. CASE Deliver(n)
    <3>1. /\ Fits(v, view'[v], requests', loads)
          /\ Flagged(view'[v])
          /\ Newer(view[v], view'[v])
      BY <2>2, DeliverView DEF DashboardInv
    <3> QED
      BY <1>2, <3>1, Zenon
  <2> QED
    BY <2>1, <2>2
<1>5. ViewsOK' /\ OldDataFlagged' /\ \A v \in Views : Newer(view[v], view'[v])
  BY <1>3, <1>4, ViewsNext
<1> QED
  BY <1>1, <1>5, Zenon DEF DashboardInv

\* A view sends a request.
LEMMA SendStep ==
    ASSUME DashboardInv, NEW v \in Views, NEW s, IsView(s), s.data = view[v].data,
           s.question \in Questions, Send(v, s)
    PROVE  DashboardInv' /\ \A w \in Views : Newer(view[w], view'[w])
<1>1. PICK n : n = loads + 1
  OBVIOUS
<1>2. PICK r : r = [view |-> v, question |-> s.question, pc |-> "sent"]
  OBVIOUS
<1>3. loads \in Nat /\ n \in Nat /\ loads' = n /\ now' = now /\ entries' = entries /\ used' = used
  BY <1>1, Numbers DEF DashboardInv, ClockOK, Send
<1>4. requests' = With(requests, n, r)
  BY <1>2, <1>3, Zenon DEF Send
<1>5. /\ DOMAIN requests' = DOMAIN requests \union {n}
      /\ \A m \in DOMAIN requests' : requests'[m] = IF m = n THEN r ELSE requests[m]
  BY <1>4 DEF With
<1>6. DOMAIN requests \subseteq 1..loads /\ n \notin DOMAIN requests
  BY <1>1, <1>3 DEF DashboardInv, RequestsOK
<1>7. r.view = v /\ r.question = s.question /\ r.pc = "sent"
  BY <1>2
<1>8. RequestOK(r, now)
  BY <1>7 DEF RequestOK
<1>9. RequestsOK'
  <2>1. DOMAIN requests' \subseteq 1..n
    BY <1>1, <1>3, <1>5, <1>6
  <2>2. \A m \in DOMAIN requests' : RequestOK(requests'[m], now)
    BY <1>5, <1>8 DEF DashboardInv, RequestsOK
  <2> QED
    BY <1>3, <2>1, <2>2, Zenon DEF RequestsOK
<1>10. ClockOK'
  BY <1>1, <1>3, Numbers DEF DashboardInv, ClockOK, Send
<1>11. EntriesOK'
  BY <1>3 DEF DashboardInv, EntriesOK
<1>12. PoolOK'
  <2>1. Running' = Running
    BY <1>5, <1>6, <1>7 DEF Running, At
  <2> QED
    BY <1>3, <2>1 DEF DashboardInv, PoolOK
<1>13. DOMAIN view' = Views
  BY DEF DashboardInv, ViewsOK, Send
<1>14. ASSUME NEW w \in Views
       PROVE  /\ Fits(w, view'[w], requests', loads')
              /\ Flagged(view'[w])
              /\ Newer(view[w], view'[w])
  BY SendView DEF DashboardInv
<1>15. ViewsOK' /\ OldDataFlagged' /\ \A w \in Views : Newer(view[w], view'[w])
  BY <1>13, <1>14, ViewsNext
<1> QED
  BY <1>9, <1>10, <1>11, <1>12, <1>15, Zenon DEF DashboardInv

\* A view that is not on the screen.
LEMMA ClosedFits ==
    ASSUME ClockOK, RequestsOK, NEW v
    PROVE  Fits(v, Closed, requests, loads) /\ Flagged(Closed) /\ ~Closed.open
<1>1. /\ Closed.open = FALSE /\ Closed.data = NoData /\ Closed.current = 0
  BY DEF Closed
<1>2. IsView(Closed)
  BY Zenon DEF Closed, IsView
<1>3. 0 \in 0..loads /\ 0 \notin DOMAIN requests
  BY Numbers DEF ClockOK, RequestsOK
<1> QED
  BY <1>1, <1>2, <1>3, Zenon DEF Fits, Flagged

\* A view is left.
LEMMA LeaveStep ==
    ASSUME DashboardInv, NEW v \in Views, Leave(v)
    PROVE  DashboardInv' /\ \A w \in Views : Newer(view[w], view'[w])
<1>1. UNCHANGED <<now, entries, used, requests, loads>>
  BY DEF Leave
<1>2. view' = [view EXCEPT ![v] = Closed] /\ DOMAIN view = Views
  BY DEF Leave, DashboardInv, ViewsOK
<1>3. ClockOK' /\ RequestsOK' /\ EntriesOK'
  BY <1>1 DEF DashboardInv, ClockOK, RequestsOK, EntriesOK
<1>4. PoolOK'
  BY <1>1 DEF DashboardInv, PoolOK, Running, At
<1>5. ASSUME NEW w \in Views
      PROVE  /\ Fits(w, view'[w], requests', loads')
             /\ Flagged(view'[w])
             /\ Newer(view[w], view'[w])
  <2>1. Fits(w, Closed, requests, loads) /\ Flagged(Closed) /\ ~Closed.open
    BY ClosedFits DEF DashboardInv
  <2>2. Fits(w, view[w], requests, loads) /\ Flagged(view[w]) /\ Newer(view[w], view[w])
    BY Zenon DEF DashboardInv, ViewsOK, OldDataFlagged, Flagged, Newer
  <2>3. view'[w] = IF w = v THEN Closed ELSE view[w]
    BY <1>2
  <2>4. Newer(view[w], Closed)
    BY <2>1, Zenon DEF Newer
  <2> QED
    BY <1>1, <2>1, <2>2, <2>3, <2>4, Zenon
<1>6. DOMAIN view' = Views
  BY <1>2
<1>7. ViewsOK' /\ OldDataFlagged' /\ \A w \in Views : Newer(view[w], view'[w])
  BY <1>5, <1>6, ViewsNext
<1> QED
  BY <1>3, <1>4, <1>7, Zenon DEF DashboardInv

\* Time passes.
LEMMA TickStep ==
    ASSUME DashboardInv, Tick
    PROVE  DashboardInv' /\ view' = view
<1>1. UNCHANGED <<entries, used, requests, view, loads>> /\ now' = now + 1
  BY DEF Tick
<1>2. ClockOK' /\ now \in Nat
  BY Numbers DEF DashboardInv, ClockOK, Tick
<1>3. ASSUME NEW n \in DOMAIN requests PROVE RequestOK(requests[n], now + 1)
  <2>1. PICK r : r = requests[n]
    OBVIOUS
  <2>2. RequestOK(r, now)
    BY <2>1 DEF DashboardInv, RequestsOK
  <2>3. CASE r.pc \in {"sent", "answered"}
    BY <2>1, <2>2, <2>3 DEF RequestOK
  <2>4. CASE r.pc = "running" /\ now < r.deadline
    <3>1. /\ r.view \in Views /\ r.question \in Questions
          /\ r.at \in 0..now /\ r.left \in 1..Statements[r.question]
          /\ r.deadline \in Nat /\ r.deadline =< r.at + Spent(r.question, r.left - 1)
      BY <2>2, <2>4 DEF RequestOK
    <3>2. r.at \in 0..(now + 1) /\ now + 1 =< r.deadline
      BY <1>2, <2>4, <3>1
    <3> QED
      BY <2>1, <2>4, <3>1, <3>2 DEF RequestOK
  <2> QED
    BY <2>1, <2>3, <2>4 DEF Tick
<1>4. RequestsOK'
  <2>1. DOMAIN requests \subseteq 1..loads
    BY DEF DashboardInv, RequestsOK
  <2> QED
    BY <1>1, <1>3, <2>1, Zenon DEF RequestsOK
<1>5. \A q \in DOMAIN entries : EntryOK(q, entries[q], now + 1)
  BY <1>2 DEF DashboardInv, EntriesOK, EntryOK
<1>6. EntriesOK'
  BY <1>1, <1>5, Zenon DEF DashboardInv, EntriesOK
<1>7. PoolOK' /\ ViewsOK' /\ OldDataFlagged'
  BY <1>1, Zenon DEF DashboardInv, PoolOK, Running, At, ViewsOK, OldDataFlagged
<1> QED
  BY <1>1, <1>2, <1>4, <1>6, <1>7, Zenon DEF DashboardInv

\* Every step keeps the invariant, and replaces what a view shows only by newer
\* data.
LEMMA DashboardStep ==
    ASSUME DashboardInv, [Next]_vars
    PROVE  DashboardInv' /\ \A v \in Views : Newer(view[v], view'[v])
<1>1. ASSUME view' = view PROVE \A v \in Views : Newer(view[v], view'[v])
  BY <1>1, Zenon DEF Newer
<1>2. ASSUME NEW v \in Views, Reload(v)
      PROVE  DashboardInv' /\ \A w \in Views : Newer(view[w], view'[w])
  <2>1. IsView(view[v]) /\ (view[v].open => view[v].question \in Questions)
    BY Zenon DEF DashboardInv, ViewsOK, Fits
  <2>2. view[v].open /\ Send(v, view[v])
    BY <1>2 DEF Reload
  <2>3. view[v].question \in Questions
    BY <2>1, <2>2, Zenon
  <2> QED
    BY <2>1, <2>2, <2>3, SendStep
<1>3. ASSUME NEW v \in Views, NEW q \in Asks[v], Effect(v, q)
      PROVE  DashboardInv' /\ \A w \in Views : Newer(view[w], view'[w])
  <2>1. IsView(view[v])
    BY Zenon DEF DashboardInv, ViewsOK, Fits
  <2>2. PICK s : s = Opened(view[v], q)
    OBVIOUS
  <2>3. IsView(s) /\ s.question = q /\ s.data = view[v].data
    BY <2>1, <2>2, OpenedFacts, Zenon
  <2>4. Send(v, s)
    BY <1>3, <2>2, Zenon DEF Effect
  <2>5. s.question \in Questions
    BY <2>3 DEF Questions
  <2> QED
    BY <2>3, <2>4, <2>5, SendStep
<1>4. CASE Tick
  BY <1>1, <1>4, TickStep
<1>5. CASE UNCHANGED vars
  <2>1. UNCHANGED <<now, entries, used, requests, view, loads>>
    BY <1>5 DEF vars
  <2>2. DashboardInv'
    BY <2>1, Zenon DEF DashboardInv, ClockOK, RequestsOK, EntriesOK, PoolOK, Running, At,
       ViewsOK, OldDataFlagged
  <2> QED
    BY <1>1, <2>1, <2>2
<1> QED
  BY <1>2, <1>3, <1>4, <1>5, HandlingStep, LeaveStep DEF Next, Handling

\* Initially nothing is on the screen and nothing is under way.
LEMMA DashboardInit == Init => DashboardInv
<1> SUFFICES ASSUME Init PROVE DashboardInv
  OBVIOUS
<1>1. /\ now = 0 /\ used = 0 /\ loads = 0 /\ entries = <<>> /\ requests = <<>>
      /\ view = [v \in Views |-> Closed]
  BY DEF Init
<1>2. DOMAIN entries = {} /\ DOMAIN requests = {}
  BY <1>1
<1>3. ClockOK
  BY <1>1, Numbers DEF ClockOK
<1>4. RequestsOK
  BY <1>2 DEF RequestsOK
<1>5. IsFiniteSet({}) /\ Cardinality({}) = 0
  BY FS_EmptySet
<1>6. EntriesOK
  <2>1. Cardinality(DOMAIN entries) =< MaxEntries
    BY <1>2, <1>5, Numbers
  <2> QED
    BY <1>2, <1>5, <2>1 DEF EntriesOK
<1>7. PoolOK
  <2>1. Running = {}
    BY <1>2 DEF Running
  <2> QED
    BY <1>1, <1>5, <2>1, Numbers DEF PoolOK
<1>8. DOMAIN view = Views /\ \A v \in Views : view[v] = Closed
  BY <1>1
<1>9. ViewsOK /\ OldDataFlagged
  <2>1. \A v \in Views : Fits(v, Closed, requests, loads) /\ Flagged(Closed)
    BY <1>3, <1>4, ClosedFits
  <2> QED
    BY <1>8, <2>1, Zenon DEF ViewsOK, OldDataFlagged, Flagged
<1> QED
  BY <1>3, <1>4, <1>6, <1>7, <1>9, Zenon DEF DashboardInv

\* The inductive invariant.
LEMMA DashboardInvariant == Spec => []DashboardInv
<1>1. DashboardInv /\ [Next]_vars => DashboardInv'
  BY DashboardStep
<1> QED
  BY <1>1, DashboardInit, PTL DEF Spec

-----------------------------------------------------------------------------
\* Type correctness, the bounds of the cache and of the pool among it.
THEOREM TypeCorrect == Spec => []TypeOK
<1>1. DashboardInv => TypeOK
  <2> SUFFICES ASSUME DashboardInv PROVE TypeOK
    OBVIOUS
  <2>1. now \in 0..MaxTime /\ loads \in 0..MaxLoads /\ DOMAIN requests \subseteq 1..loads
    BY DEF DashboardInv, ClockOK, RequestsOK
  <2>2. used \in 0..PoolSize
    <3>1. Cardinality(Running) \in Nat
      BY RunningFinite, FS_CardinalityType DEF DashboardInv
    <3> QED
      BY <3>1, Numbers DEF DashboardInv, PoolOK
  <2>3. /\ DOMAIN entries \subseteq Cached /\ Cardinality(DOMAIN entries) =< MaxEntries
        /\ \A q \in DOMAIN entries : entries[q].value \in 0..now /\ entries[q].time \in 0..now
    BY DEF DashboardInv, EntriesOK, EntryOK
  <2>4. \A v \in Views : view[v].current \in 0..loads
    BY Zenon DEF DashboardInv, ViewsOK, Fits
  <2> QED
    BY <2>1, <2>2, <2>3, <2>4 DEF TypeOK
<1> QED
  BY <1>1, DashboardInvariant, PTL

\* An answer is of data that was current at most CACHE_SECONDS and the time of
\* its statements before the question was asked, however requests that miss the
\* cache together overtake each other.
THEOREM RecentAnswers == Spec => []AnswersRecent
<1>1. DashboardInv => AnswersRecent
  <2> SUFFICES ASSUME DashboardInv, NEW n \in DOMAIN requests, requests[n].pc = "answered"
               PROVE  requests[n].age
                          < CacheSeconds + Timeout * Statements[requests[n].question]
    BY DEF AnswersRecent
  <2>1. PICK q : q = requests[n].question
    OBVIOUS
  <2>2. q \in Questions /\ requests[n].age < CacheSeconds + Spent(q, 0)
    BY <2>1 DEF DashboardInv, RequestsOK, RequestOK
  <2>3. 1 \in 1..Statements[q]
    BY <2>2, Numbers
  <2>4. Spent(q, 0) = Timeout * Statements[q]
    BY <2>2, <2>3, SpentFacts
  <2> QED
    BY <2>1, <2>2, <2>4, Zenon
<1> QED
  BY <1>1, DashboardInvariant, PTL

\* Data that answers another question than the view's is never shown as if it
\* were the answer.
THEOREM OldDataIsFlagged == Spec => []OldDataFlagged
<1>1. DashboardInv => OldDataFlagged
  BY DEF DashboardInv
<1> QED
  BY <1>1, DashboardInvariant, PTL

\* The pool refuses only while PoolSize statements are running: no path through
\* the endpoints keeps a connection.
THEOREM NoConnectionLost == Spec => []RefusedOnlyWhenBusy
<1>1. DashboardInv => RefusedOnlyWhenBusy
  BY DEF DashboardInv, PoolOK, Running, RefusedOnlyWhenBusy
<1> QED
  BY <1>1, DashboardInvariant, PTL

\* "a slow answer can never overwrite a newer one" (api.js): what is on screen is
\* only replaced by the answer to a later request.
THEOREM OnlyNewerShown == Spec => NeverOverwritten
<1>1. DashboardInv /\ [Next]_vars =>
          [\A v \in Views :
               view[v].open /\ view'[v].open /\ view[v].data # view'[v].data
                   => \/ view[v].data = NoData
                      \/ view[v].data.load < view'[v].data.load]_vars
  <2> SUFFICES ASSUME DashboardInv, [Next]_vars, NEW v \in Views
               PROVE  view[v].open /\ view'[v].open /\ view[v].data # view'[v].data
                          => \/ view[v].data = NoData
                             \/ view[v].data.load < view'[v].data.load
    OBVIOUS
  <2>1. Newer(view[v], view'[v])
    BY DashboardStep
  <2> QED
    BY <2>1, Zenon DEF Newer
<1> QED
  BY <1>1, DashboardInvariant, PTL DEF Spec, NeverOverwritten
=============================================================================

------------------------------ MODULE Dashboard -----------------------------
(***************************************************************************)
(* The dashboard from the screen to the database: views that poll the API  *)
(* (usePolling in frontend/src/api.js), its endpoints (web/app.py), the    *)
(* answers they share for a few seconds (web/cache.py), and the connection *)
(* pool under the queries (web/db.py, web/queries.py).                     *)
(*                                                                         *)
(* A cached answer is the time its data is of: every query takes the       *)
(* moment it starts as the end of its window. The answer to a request is   *)
(* how old its data was when the request came. A view that does not want   *)
(* an answer any more closes the connection, but the endpoint's thread     *)
(* goes on.                                                                *)
(***************************************************************************)
EXTENDS Integers, FiniteSets, Functions

CONSTANTS
    Views,         \* calls of usePolling on the screen
    Asks,          \* Asks[v]: the questions (path and params) v may ask
    Cached,        \* questions whose endpoint goes through the cache
    Statements,    \* Statements[q]: how many statements answer q
    CacheSeconds,  \* CACHE_SECONDS
    MaxEntries,    \* how many entries the cache keeps
    PoolSize,      \* MAX_CONNECTIONS
    Timeout,       \* STATEMENT_TIMEOUT_MS, in ticks of the clock
    MaxLoads,      \* bound: how many requests there are
    MaxTime        \* bound: ticks of the clock

Questions == UNION {Asks[v] : v \in Views}

ASSUME DashboardAssumption ==
    /\ \A v \in Views : Asks[v] # {}
    /\ Cached \subseteq Questions
    /\ Statements \in [Questions -> Nat \ {0}]
    /\ {CacheSeconds, MaxEntries, PoolSize, Timeout} \subseteq Nat \ {0}
    /\ {MaxLoads, MaxTime} \subseteq Nat

VARIABLES
    now,       \* time.monotonic()
    entries,   \* cache._entries
    used,      \* connections the pool has given out
    requests,  \* requests under way, by number
    view,      \* the state of each view
    loads      \* how many requests the views have sent

vars == <<now, entries, used, requests, view, loads>>

NoData == [question |-> "none"]
Failed == -1

\* useState in usePolling; current is the number of the request whose
\* controller is not aborted, 0 when there is none.
Closed == [open |-> FALSE, question |-> "none", data |-> NoData, error |-> FALSE,
           loading |-> TRUE, refreshing |-> FALSE, current |-> 0]

Init ==
    /\ now = 0
    /\ entries = <<>>
    /\ used = 0
    /\ requests = <<>>
    /\ view = [v \in Views |-> Closed]
    /\ loads = 0

\* f with value at x.
With(f, x, value) == [z \in DOMAIN f \union {x} |-> IF z = x THEN value ELSE f[z]]

At(n, place) == n \in DOMAIN requests /\ requests[n].pc = place

Without(n) == Restrict(requests, DOMAIN requests \ {n})

-----------------------------------------------------------------------------
(***************************************************************************)
(* The view: usePolling.                                                   *)
(***************************************************************************)

\* load: the request before it is aborted, whatever it was for. Mutant: old
\* data is not flagged.
MutantBegun(s, n) == [s EXCEPT !.current = n]
Begun(s, n) == [s EXCEPT !.current = n, !.refreshing = s.data # NoData]

Send(v, s) ==
    /\ loads < MaxLoads
    /\ loads' = loads + 1
    /\ view' = [view EXCEPT ![v] = Begun(s, loads')]
    /\ requests' = With(requests, loads', [view |-> v, question |-> s.question, pc |-> "sent"])
    /\ UNCHANGED <<now, entries, used>>

\* The timer while the tab is visible, the tab becoming visible, reload().
Reload(v) ==
    /\ view[v].open
    /\ Send(v, view[v])

Opened(s, q) == [s EXCEPT !.open = TRUE, !.question = q, !.loading = s.data = NoData]

\* The effect, when the view is opened, its params change, or it is paused or
\* resumed: it ends what the effect before it started, and loads.
Effect(v, q) == q \in Asks[v] /\ Send(v, Opened(view[v], q))

\* The view is left: the effect's cleanup aborts what is under way.
Leave(v) ==
    /\ view[v].open
    /\ view' = [view EXCEPT ![v] = Closed]
    /\ UNCHANGED <<now, entries, used, requests, loads>>

\* Mutant: the view is handed every answer.
MutantAborted(n) == ~view[requests[n].view].open
Aborted(n) == view[requests[n].view].current # n

\* The catch in load: the data stays. Mutant: so does the flag.
MutantShowError(s) == [s EXCEPT !.error = TRUE, !.loading = FALSE]
ShowError(s) == [s EXCEPT !.error = TRUE, !.loading = FALSE, !.refreshing = FALSE]

ShowData(s, data) ==
    [s EXCEPT !.data = data, !.error = FALSE, !.loading = FALSE, !.refreshing = FALSE]

\* The answer gets to the view, which may not want it any more.
Deliver(n) ==
    /\ At(n, "answered")
    /\ LET r == requests[n]
       IN view' = [view EXCEPT ![r.view] =
                      IF Aborted(n) THEN @
                      ELSE IF r.age = Failed THEN ShowError(@)
                      ELSE ShowData(@, [question |-> r.question, load |-> n])]
    /\ requests' = Without(n)
    /\ UNCHANGED <<now, entries, used, loads>>

-----------------------------------------------------------------------------
(***************************************************************************)
(* The API: TTLCache.get, Database.cursor, the queries.                    *)
(***************************************************************************)

\* Mutant: an entry lasts one tick more.
MutantIsFresh(entry) == now - entry.time =< CacheSeconds
IsFresh(entry) == now - entry.time < CacheSeconds

\* The endpoint returns, with an answer of that age or with an error; when the
\* view has closed the connection, nobody is there to read it.
Answer(n, age) ==
    requests' = IF Aborted(n)
                THEN Without(n)
                ELSE [requests EXCEPT ![n] =
                          [view |-> @.view, question |-> @.question, pc |-> "answered", age |-> age]]

Hit(q) == q \in Cached /\ q \in DOMAIN entries /\ IsFresh(entries[q])

\* get, with a fresh entry
Lookup(n) ==
    /\ At(n, "sent")
    /\ Hit(requests[n].question)
    /\ Answer(n, now - entries[requests[n].question].value)
    /\ UNCHANGED <<now, entries, used, view, loads>>

\* cursor and rows: the next statement starts, with a connection of its own;
\* getconn() raises when every one is out. left counts the statements to run.
Execute(n, asked, left) ==
    IF used < PoolSize
    THEN /\ used' = used + 1
         /\ requests' = [requests EXCEPT ![n] =
                [view |-> @.view, question |-> @.question, pc |-> "running", at |-> asked,
                 left |-> left, deadline |-> now + Timeout]]
    ELSE /\ UNCHANGED used
         /\ Answer(n, Failed)

\* get, without one, or an endpoint that is not cached: compute(), out of the
\* lock.
Compute(n) ==
    /\ At(n, "sent")
    /\ ~Hit(requests[n].question)
    /\ Execute(n, now, Statements[requests[n].question])
    /\ UNCHANGED <<now, entries, view, loads>>

\* A statement has its result and its connection is put back; there are more.
StatementDone(n) ==
    /\ At(n, "running")
    /\ requests[n].left > 1
    /\ used' = used - 1
    /\ requests' = [requests EXCEPT ![n] =
           [view |-> @.view, question |-> @.question, pc |-> "next", at |-> @.at, left |-> @.left - 1]]
    /\ UNCHANGED <<now, entries, view, loads>>

NextStatement(n) ==
    /\ At(n, "next")
    /\ Execute(n, requests[n].at, requests[n].left)
    /\ UNCHANGED <<now, entries, view, loads>>

\* A statement is cancelled at the timeout, or its connection is lost: put back
\* too, to be closed. Mutant: it is not put back.
MutantPutBack == used
PutBack == used - 1

StatementFails(n) ==
    /\ At(n, "running")
    /\ used' = PutBack
    /\ Answer(n, Failed)
    /\ UNCHANGED <<now, entries, view, loads>>

\* The oldest entry goes when there are too many. Mutant: it stays.
MutantTrimmed(es) == {es}
Trimmed(es) ==
    IF Cardinality(DOMAIN es) =< MaxEntries THEN {es}
    ELSE {Restrict(es, DOMAIN es \ {q}) :
             q \in {o \in DOMAIN es : \A k \in DOMAIN es : es[o].time =< es[k].time}}

\* The last statement has its result, so compute() returns and get() stores the
\* answer with the time of this moment.
Store(n) ==
    /\ At(n, "running")
    /\ requests[n].left = 1
    /\ used' = used - 1
    /\ LET r == requests[n]
       IN IF r.question \in Cached
          THEN entries' \in Trimmed(With(entries, r.question, [time |-> now, value |-> r.at]))
          ELSE UNCHANGED entries
    /\ Answer(n, 0)
    /\ UNCHANGED <<now, view, loads>>

\* Time passes while requests wait for the network or the database, for the
\* latter no longer than a statement may run.
Tick ==
    /\ now < MaxTime
    /\ \A n \in DOMAIN requests :
           \/ requests[n].pc \in {"sent", "answered"}
           \/ requests[n].pc = "running" /\ now < requests[n].deadline
    /\ now' = now + 1
    /\ UNCHANGED <<entries, used, requests, view, loads>>

-----------------------------------------------------------------------------
Serve(n) ==
    \/ Lookup(n)
    \/ Compute(n)
    \/ StatementDone(n)
    \/ NextStatement(n)
    \/ StatementFails(n)
    \/ Store(n)

Handling == \E n \in DOMAIN requests : Serve(n) \/ Deliver(n)

Next ==
    \/ Handling
    \/ \E v \in Views : Reload(v) \/ Leave(v)
    \/ \E v \in Views : \E q \in Asks[v] : Effect(v, q)
    \/ Tick

Spec == Init /\ [][Next]_vars

\* Endpoints' threads run and answers arrive.
FairSpec == Spec /\ WF_vars(Handling)

-----------------------------------------------------------------------------
TypeOK ==
    /\ now \in 0..MaxTime
    /\ used \in 0..PoolSize
    /\ DOMAIN entries \subseteq Cached /\ Cardinality(DOMAIN entries) =< MaxEntries
    /\ \A q \in DOMAIN entries : entries[q].value \in 0..now /\ entries[q].time \in 0..now
    /\ loads \in 0..MaxLoads /\ DOMAIN requests \subseteq 1..loads
    /\ \A v \in Views : view[v].current \in 0..loads

\* An answer is of data that was current at most CACHE_SECONDS and the time of
\* its statements before the question was asked, also when a slow request
\* stores its older answer over a newer one.
AnswersRecent ==
    \A n \in DOMAIN requests :
        LET r == requests[n]
        IN r.pc = "answered" => r.age < CacheSeconds + Timeout * Statements[r.question]

\* "a slow answer can never overwrite a newer one" (api.js): what is on screen
\* is only replaced by the answer to a later request.
NeverOverwritten ==
    [][\A v \in Views :
           view[v].open /\ view'[v].open /\ view[v].data # view'[v].data
               => \/ view[v].data = NoData
                  \/ view[v].data.load < view'[v].data.load]_vars

\* "The previous data stays on screen while a refresh is in flight, flagged":
\* data that answers another question than the view's is never shown as if it
\* were the answer.
OldDataFlagged ==
    \A v \in Views :
        view[v].data # NoData /\ view[v].data.question # view[v].question
            => view[v].refreshing \/ view[v].error

\* No connection is lost: a request is refused only while PoolSize
\* statements are running.
RefusedOnlyWhenBusy ==
    used = PoolSize => Cardinality({n \in DOMAIN requests : At(n, "running")}) = PoolSize

\* A refresh ends, with data or with an error: the view does not stay dimmed
\* when its requests are refused, cancelled or superseded.
RefreshEnds == \A v \in Views : view[v].refreshing ~> ~view[v].refreshing
=============================================================================

# Verification of wikistream-kafka

TLA+ specifications of the pipeline that reads Wikimedia's recentchange stream
into Kafka, cleans it, and derives page state, edit war alerts and trending
totals from it, and of the dashboard that shows the result. TLC checks the
specifications on small instances; TLAPS proves the safety properties of the
ingestor, the transactional loop, the cleaner and its dedup cache, edit war
detection, the page topic and its readers, trending, the sinks and the dashboard
for all instances, the refinement of the two abstract specifications among them.

## The system

```
 EventStreams ──> ingestor ──> wiki.raw ──> cleaner ──> wiki.clean ──┬─> page state ──> wiki.page-latest ──> page store
                     │                         │                     ├─> edit war ────> wiki.alerts ──> alerts sink ──┐
                     └──────> wiki.dlq <───────┘                     ├─> trending ──────────────────────────────────> PostgreSQL ──> API ──> frontend
                                                                     └─> edits sink ────────────────────────────────┘
```

| Component | State | Operations | Talks to |
|---|---|---|---|
| Ingestor (`ingestor/`) | checkpoint in memory and on disk, delivery tracker, librdkafka queue, stream position | handle an event, delivery callback, save, reconnect, give up, stop | stream (SSE), `wiki.raw`, `wiki.dlq` |
| Transactional loop (`processors/transactional.py`) | batch, positions, open transaction, `in_transaction` | collect, process, commit, abort, `on_assign`, `on_revoke`, periodic, shutdown | group and transaction coordinators; hooks of its three subclasses |
| Cleaner (`cleaner.py`, `transform.py`) | a dedup cache per partition | handle, warm, drop | `wiki.raw` to `wiki.clean`, `wiki.dlq` |
| Dedup cache (`dedup.py`) | time buckets of ids | `is_new`, expire, enforce size | cleaner, warm-up |
| Warm-up (`warmup.py`) | none of its own | replay a window up to the committed offset | cleaner, edit war |
| Page state (`page_state.py`, `page_latest.py`) | latest applied time per page | handle, rebuild from the output topic | `wiki.clean` to `wiki.page-latest` |
| Edit war (`edit_war.py`, `edit_war_detector.py`) | reverts and alert horizon per page, watermark | observe, evict, expire, warm | `wiki.clean` to `wiki.alerts` |
| Trending (`trending.py`, `windows.py`) | windows, watermark, flushed minutes, partial floor per partition | handle, flush, commit, revoke, shutdown | `wiki.clean`, `trending_minutes` |
| Sinks (`sinks/`) | batch, database connection | collect, write, reconnect, commit | `wiki.clean`, `wiki.alerts`, PostgreSQL |
| Group membership (`common/topics.py`) | strikes of the watchdog | take, release, check, rejoin | coordinator |
| Retention gaps (`common/offsets.py`) | none | compare and report on assignment | sinks, loops |
| Page store (`web/pages.py`) | a table of pages, partitions at their end | follow, start over, apply, get | `wiki.page-latest`, endpoints |
| Dashboard API (`web/`) | answer cache, connection pool | endpoints, cache lookup and store, statements | PostgreSQL, Kafka |
| Frontend (`frontend/src/api.js`) | data, error and flags of each view, its current request | poll, reload, change params, leave | API |
| Admin, scripts, metrics, `common/sandbox.py` | none that outlives a call | commands and reports | Kafka, PostgreSQL |

What is hard here: deliveries confirmed out of order; callbacks that run only
inside `poll`; revocations in the middle of a batch; instances that were
expelled and do not know it; two writes (rows and offsets, output and offsets)
with a crash in between; state that is rebuilt from a limited piece of history;
event time that does not follow arrival order; size bounds, retention and
compaction that drop things; a group that gets stuck;
requests that overtake each other between the screen, the cache and the pool.
`PROJECT.json` lists these as hazards, each at its line, with the properties
that cover it.

What makes each part correct:

* ingestor: the checkpoint never passes an event that is not in Kafka; every
  event lands in the end; a failed delivery ends the process;
* transactional loop: committed output is exactly that of one process that
  never fails, up to the committed offset; one writer per partition; progress;
* cleaner and cache: no event twice in `wiki.clean`; a copy within the window is
  found and nothing else is taken for one; memory is bounded;
* page state: the topic shows the latest edit by event time, late edits and
  compaction notwithstanding;
* page store: once it says that it has caught up it shows nothing older than
  that, and in the end it shows the newest change of every page;
* edit war: one alert for each war, of reverts inside one window;
* trending: an edit below the committed offset is in its total, no edit counts
  twice, partial totals are corrected, offsets never move back;
* sinks: a row below the committed offset is stored or its loss was reported;
  progress;
* group membership: every partition has an owner in the end, for good;
* dashboard: an answer is of recent data; a late answer never replaces a newer
  one; data that answers another question is flagged; no connection is lost;
  every refresh ends.

## Modules

| Module | Models | Notes |
|---|---|---|
| `Ingestor` | `ingestor/` | phases are the places of the one thread where something else can step in |
| `IngestorProofs` | | TLAPS proofs about `Ingestor` |
| `Processor` | the hooks of `TransactionalProcessor` and the sequential run they define | constants `Fresh`, `Absorb`, `Emits`, `Raises`, `Restore` |
| `ExactlyOnce` | the loop's promise | abstract specification over offsets and output only |
| `TransactionalProcessor` | `transactional.py` | several instances, both coordinators, crashes |
| `LoopProofs` | | TLAPS proofs about `TransactionalProcessor` |
| `Warmup`, `SequentialRuns` | what a warm-up is for; values for the constants of `Processor` | |
| `DedupCache`, `PartitionReplayer`, `Cleaner` | `dedup.py`, `warmup.py`, `cleaner.py` with `transform.py` | hooks of the loop |
| `OwnerReplay` | a new owner and its replay, message by message | shared by the two feeds |
| `PageState` | `page_state.py`, `page_latest.py` | hooks of the loop |
| `PageTopic` | page state and `wiki.page-latest` | markers, compaction, a guard that is rebuilt from part of the records |
| `PageStore` | `web/pages.py` | on top of `PageTopic` |
| `PageProofs` | | TLAPS proofs about `PageTopic` and `PageStore` |
| `EditWarDetector`, `EditWar` | `edit_war_detector.py`, `edit_war.py` | handle and warm-up as operators |
| `ConsumerGroup` | `common/topics.py`, `consumer_config` and the coordinator | shared by `Trending` and the sink |
| `RetentionGaps` | `common/offsets.py` and the topic's retention | on top of `ConsumerGroup` |
| `AssignmentWatchdog` | the class of that name in `common/topics.py`, and a group that may be stuck | on top of `ConsumerGroup` |
| `MinuteWindows`, `Trending` | `windows.py`, `trending.py` | |
| `TrendingProofs` | | lemmas about the operators of `MinuteWindows`; TLAPS proofs about `Trending` |
| `AtLeastOnce` | the sinks' promise | abstract specification over offsets and what is dealt with |
| `PostgresSink` | `postgres_sink.py`, `alerts_sink.py`, `db.py` | composes the group, retention and the watchdog; both sinks: only the row's key differs |
| `SinkProofs` | | TLAPS proofs about `PostgresSink` |
| `CleanerFeed`, `DetectorFeed` | `cleaner.py` and `edit_war.py` on one partition, over every short sequence of messages, with a new owner at any point | next to a reference definition |
| `CleanerProofs`, `DetectorProofs` | | TLAPS proofs about `DedupCache` and `CleanerFeed`, about `EditWarDetector` and `DetectorFeed` |
| `Dashboard` | `frontend/src/api.js`, `web/cache.py`, `web/db.py` and the endpoints and queries over them | from the view to the statement and back |
| `DashboardProofs` | | TLAPS proofs about `Dashboard` |
| `MCIngestor`, `MCCleaner`, `MCPageState`, `MCPageStore`, `MCDetector`, `MCTrending`, `MCPostgresSink`, `MCDashboard` | instances for TLC | the logs and questions they use |

`map` in `PROJECT.json` gives the source lines of every definition. Three
conventions run through the modules. Offsets count messages: `committed[p] = o`
means the first `o` messages are committed. A message is a record with what the
properties tell apart (an id, a page, a time, a kind); the field checks of
`common/models.py` are the kinds `edit`, `canary`, `invalid`, `garbage` and `odd`. A
definition `MutantX` next to `X` is a plausible wrong version of `X`, used only
to show that a property depends on it.

### Ingestor

`phase` says where the thread is: `connect`, `stream` (reading), `blocked` (in
`_send`, queue full), `poll` (the `poll(0)` after an event), `backoff` (in
`_sleep`), `draining` (in `shutdown`) and `down`. A message goes from `inflight`
(accepted by `produce`) to `acked` or `failed` when the brokers answer, and its
callback runs only in phases that poll: `ServeAck` is `_on_delivery` with
`DeliveryTracker.confirm`, `Checkpoint.advance` and `_maybe_save`; `ServeFail`
is its error branch. `floor` is history: the live edge of the last connection
that sent no `Last-Event-ID`. `BrokerFail` may leave the message written: the
acknowledgement was lost. The timer in `_maybe_save` may or may not have run out.

### The transactional loop

`collect_batch` is `Poll` repeated, `process_batch` is `Begin`, `Handle` for
each message, `SendOffsets`, `Commit`; `Fenced` and `AbortableError` are its
except branch, and `HandleRaises` is an exception it does not catch. `Assign`,
`Revoke` and `Lost` are the rebalance callbacks, which only run inside `poll`.
What the loop relies on from Kafka is modelled by what it uses: an owner per
partition; outputs and offsets of a transaction visible together; a
`read_committed` consumer that waits until no open transaction holds offsets of
the partition it is given (`OffsetStable`); a group that refuses the offsets of
an expelled member, since the loop passes `consumer_group_metadata`
(`GroupAccepts`); `init_transactions` and `transaction.timeout.ms`, which end
what a dead process left open. Positions are those of the whole assignment, as
in the code, not of the batch.

Two steps the code allows are behind two findings: an abortable error in a live
transaction (`AbortableError`, a step of `AbortingSpec` only) and a revocation
while messages are already collected (`CallbacksMidBatch`). Runs that show
exactly-once output leave them out, and so speak of the remaining behaviours;
the two violation runs show what does not hold with them.

The cleaner's log ends with a message of kind `odd`: one that makes
`clean_event` raise something else than `ParseError`. It ends every process that
handles it, as often as one is started, with what its batch put into the
transaction before it. `ExactlyOnceOutput` and `OneWriter` hold through that;
the partition stays where it is, and so do the messages of other partitions as
long as they share a batch with it.

`periodic` does nothing in the cleaner and in page state, so the loop has no
action for it; the edit war processor's is `DetectorFeed!Housekeeping`.

### One partition in full: the feeds

The runs of the loop use one log each, chosen for its awkward cases.
`CleanerFeed` and `DetectorFeed` take the opposite cut: one partition and one
owner at a time, which commits what it handles (what the loop guarantees), but
every sequence of messages up to a length, with the partition given to a new
owner at any point. Their properties compare the cache and the detector with a
definition over the whole history.

Warm-up is a step for each message, as the loop in `replay` is (`OwnerReplay`):
`BeginReplay` is `start_offset`, `ReplayNext` one turn of the loop, `EndReplay` its
end before the committed offset, and `ReadOn` is the owner's first message after
it. A replay may begin late (the anchor record cannot be read and the window ends
now, the log starts later, `MAX_RECORDS` is less than the window) or end early (a
poll times out), and its owner may be gone before it is through, when the next one
begins again. `missed` is history: the offsets inside the window that a replay left
out. `CopiesFound` excepts copies of exactly those, and `NoWarMissed` histories in
which there are any.

A message of `DetectorFeed` has two times. The detector goes by the event's. The
message's timestamp, which the replay's window is measured in, is the time at which
the ingestor sent the message to `wiki.raw`, since the cleaner copies it
(`processors/cleaner.py:106`); it is later by one of the `Lags`, and timestamps of a
partition of `wiki.clean`, which collects from all partitions of `wiki.raw`, need not
be in order. `NoneHeldUp` says that events at most a window apart have timestamps at
most a window apart. `NoWarMissed` needs it (see the limits under Findings). Messages may also be out of the order of event times, by up to
`MaxLateMs`: the agreement with the rule is about messages in time order, and the
bound on an alert's span is about all of them.

### The page topic and the page store

`PageTopic` takes from the loop what `ExactlyOnce` promises: one owner of a
partition, and output and offsets that commit together. What that leaves open
are the readers. A transaction's marker gets to each partition on its own, so a
new owner may have its offsets before the output partition is stable
(`WriteMarker`); `load_applied` reads up to the last stable offset, or until a
poll times out (`until` in `NewOwner`); and compaction has taken any set of
records that it may take (`Compactions`): superseded ones, and tombstones that are
older than `TombstoneMs` once the records before them are gone. Event time stands
for the broker's clock there. `blind` is history: some guard of the partition was
rebuilt from less than everything that had been written. `LatenessAssumption`
says that no event is later than tombstones are kept (a day by default).

`PageStore` adds the thread in `web/pages.py`: `Follow` is `_follow` up to its loop,
`Read`, `Skip` (a record that compaction took) and `Eof` are turns of the loop,
`Break` is anything that ends it. The endpoints' `get` and `stats` are the
operators `Got` and `CaughtUp`, read at any time: every access is under the lock.
A tombstone is not taken from under a store that holds its page, since the
cleaner keeps it for a day and reading the topic takes seconds.

### Trending and the sinks

A flush and a batch write are two steps, rows and then offsets, so that a crash,
an expulsion or a lost connection can come between them. `Trending!BeginRelease`
and `Release` are `on_revoke` and `shutdown`, with the final flush over every
partition in memory, as in the code. `Upsert` is `GREATEST` in the SQL;
`WriteRows` is a set union, as `ON CONFLICT DO NOTHING` makes it. `commit()`
without arguments commits the consumer's positions, and raises when there is
nothing to commit (`PostgresSink!Committable`).

`Database.write` tries again after connection errors only. PostgreSQL may also
refuse a row for what is in it: a `length` or `namespace` that does not fit an
`INTEGER` column of `db/schema.sql`, a NUL in a text; `clean_event` lets both
through. Which rows these are (`refused`) is chosen in `Init` from `Refusable`, none
of them included, and never changes. The rows of a batch or a flush are one
transaction, so a refused row takes those beside it along; the exception ends the process
(`PostgresSink!WriteRefused`, `Trending!WriteRefused`), as
`tests/test_db.py:210-218` says it should, and whoever gets the partition next meets
the row again. `CommittedStored` holds through that: no offset passes a row that
is not stored. `AllCommitted`, `GroupSettles` and `TotalsCorrected` say what is left
of progress: everything comes to its end, or a refusal recurs for ever; where
no row is refused, or retention has deleted the refused one, that is the first.

The cap on windows is small enough to be reached in `trending`; `dropped` is
history, the minutes it forced out, which are excepted by name.

The sink is composed with two parts all loops have. `RetentionGaps` deletes
records of partitions that nobody owns; on assignment the member reports what is
gone between the committed offset and the log start, and reads on from there.
`AssignmentWatchdog` starts from a group whose assignment does not cover the
topic, as when members joined before the topic was known: joining computes the
assignment again, with or without the topic, and only a rejoin makes sure of it.
A check judges stable groups; the group also looks stable between the two rounds
of a cooperative rebalance, and a check that falls into that moment counts a
strike, as one of the faults. Checks happen between batches and in any order with
the other members' checks.

`AtLeastOnce` says what this comes to: an offset moves only past messages that
have been dealt with, and what is dealt with stays so. `PostgresSink!Guarantee` is
the mapping: a message is dealt with when its row is in the table, when it does not decode, or
when its loss was reported. `ImplementsGuarantee` states the refinement.

### Dashboard

Requests are numbered as views send them. A view's `current` is the request
whose `AbortController` is not aborted; an answer to any other one is dropped
(`Deliver`), but its endpoint's thread goes on, keeps its connection and stores
its answer. A cache entry has the time it was stored, which its freshness is
judged by, and the time its data is of, which is when the query started: `since`
and `now` are computed there. The two differ by the time the statements took, and
that is what `AnswersRecent` bounds, also for two requests that miss together.
Every statement takes a connection of its own and puts it back; `getconn` raises
when all are out. Between the last statement and the store no time passes, so
they are one step (`Store`); a connection that cannot be opened is
`StatementFails` right after the statement began.

## Runs

| Run | Shows | Bounds |
|---|---|---|
| `ingestor` | the checkpoint is covered, in memory and on disk; a saved checkpoint fixes the starting point; every event lands; a failure ends the process | 4 blocks, one without an id; queue of 2, so that it fills; 3 faults |
| `cleaner_exactly_once` | output equals the sequential run; one writer; no copy in `wiki.clean`; no output without offsets; refinement of `ExactlyOnce` | 2 instances, 2 partitions, a copy, a rejected message and one that raises; batches of 2, 2 faults |
| `cleaner_feed` | copies are found unless a short replay left their original out, nothing else is taken for one, the cache is bounded but for its last bucket | every log of 5 messages over the configured ids and timestamps; window of 4, at most 2 ids, 2 new owners, replays of up to 3 messages |
| `page_state` | the latest edit is shown; every message is committed in the end | late, simultaneous, deleted and undecodable messages; 3 faults |
| `page_view` | the newest change of every page is kept; a store that has caught up shows recent states; it shows the newest in the end | a page edited, deleted and edited late, another that moves time past the tombstone, edited late too; a second partition; 2 new owners, 1 break |
| `edit_war` | the detector agrees with the rule over the whole history; no war is missed by a new owner; an alert's span is bounded with late messages | every sequence of 4 messages of two people, a bot and an unreadable one over 3 times and 2 lags, late by up to 1; window of 2, wars of 3 reverts by 2 users, 2 new owners, replays of up to 3 messages |
| `trending` | counted before committed; never overcounted; offsets never regress; partial totals are corrected, unless refusals go on for ever | 1 partition, 2 instances, out of order and late edits, a page that is refused or not, a cap of 3 windows, 3 faults |
| `sink` | refinement of `AtLeastOnce`; rows, or the report of their loss, before offsets; everything is committed and the group settles, unless refusals go on for ever | 2 instances, 2 partitions, an undecodable record, a row that is refused or not, retention, a group that starts stuck; 2 strikes, 2 faults |
| `dashboard` | answers are recent; no overwriting by late answers; old data is flagged; no lost connection; every refresh ends | 2 views, 3 questions (one not cached, one of two statements), 3 requests, 4 ticks; pool of 1 and cache of 1 entry, so that both are full; entries last 2 ticks, a statement 1 |
| `cleaner_abort_loss` | **violation**: an aborted batch is skipped | 1 fault |
| `cleaner_revoke_mid_batch` | **violation**: output committed after its partition moved | 1 fault |
| `trending_partial_revoke` | **violation**: totals are not corrected when one of two partitions is revoked | 2 partitions, 1 fault |

The bounds are chosen by what has to happen for a property to be in danger. Two
instances and two partitions are the least for a partition to move while
another stays. Two faults allow an expulsion and then a crash of the new owner,
or a reconnect and then a failure; the ingestor, page state and trending take
three. Logs are long enough for a batch boundary inside them and for times on
both sides of a window. A behaviour ends when its finite log or stream is used
up, so the configurations say `CHECK_DEADLOCK FALSE`; that the end is the right
one is what the liveness properties (`EventuallyLanded`, `FailureStops`,
`AllProcessed`, `EventuallyNewest`, `TotalsCorrected`, `AllCommitted`, `GroupSettles`,
`RefreshEnds`) say. Symmetry under
permutations of instances, or of users, is used only in runs without a liveness
property.

A behaviour has finitely many faults (`MaxFaults`), which is also the condition
of the liveness properties. The ends of processes at a refused row are not
counted among them and may recur for ever. `AllProcessed` is a property of the loop and is
checked with page state's hooks, without abortable errors: with one, the last
batch may be dropped and nothing follows that would commit its offsets.

### Fairness

* Ingestor: the thread goes on (`WF(Loop)`), brokers answer what they were sent,
  and a supervisor restarts the process: the exit status is "Non zero so a
  supervisor restarts it from the checkpoint" (`ingestor/main.py:237`). No
  fairness for faults, stops or the stream itself.
* Loop and sinks: each instance keeps taking turns (`WF(Turn)`), one that has
  ended is started again ("whatever restarts it resumes", `sinks/db.py:160-162`),
  dead members are expelled and their transactions time out, as the brokers' timers do.
  A watchdog's check is one of the steps of a turn.
* Page topic and store: page state goes on and coordinators write their markers
  (`WF(TopicStep)`); the store's thread polls, and follows again after a failure
  (`WF(StoreStep)`, the loop of `_run`). No fairness for compaction, new owners and
  breaks.
* Trending: its loop polls and flushes on a timer in the same thread, so a flush
  is weakly fair and the steps `poll` takes, which a flush interrupts again and
  again, are strongly fair.
* Dashboard: the threads of the endpoints run and answers arrive
  (`WF(Handling)`); a statement ends at the latest at its timeout. Views, users
  and the clock owe nothing.

### Findings

Three runs show where the code and what it says of itself part. Each is listed
with its quotation under `findings`.

1. `processors/transactional.py:133`: after an abortable error the consumer is
   not moved back, so the next commit covers input whose output was aborted.
2. `processors/transactional.py:87`: `on_revoke` runs while messages are being
   collected, when no transaction is open; the messages of the revoked partition
   stay in the batch and their output is committed without their offsets.
3. `processors/trending.py:67`: the final flush on a cooperative revocation closes
   the open minutes of partitions that stay; they are never corrected.

More places are limits of what is claimed above, by reading and by the way the
properties had to be stated:

* `ingestor/checkpoint.py:76`: without a saved id the next start joins at the live
  edge, so a delivery that fails before the first save is skipped, although
  `ingestor/main.py:12-14` says the next start re-reads it. `CheckpointCovered`
  and `EventuallyLanded` speak of events after `floor` for this reason.
* `processors/windows.py:116`: minutes dropped by the cap are not written, and the
  commit moves past their edits, although the comment at `processors/windows.py:103-105`
  counts a forced-out minute among those already written. `CommittedCounted` and
  `TotalsCorrected` except these minutes. The default cap is 200,000 windows for
  each partition.
* `processors/edit_war_detector.py:130`: eviction stops at the first recent revert,
  so reverts out of time order can be counted together though they are further
  apart than the window, by as much as they are late: `InsideWindow` states that
  bound.
* `processors/page_state.py:114`: a guard that was loaded before the output
  partition was stable, or until a poll timed out, does not know the newest
  records: a late edit may then replace a newer one or bring a deleted page back,
  and nothing corrects it until the page changes again. `NewestKept` and
  `EventuallyNewest` except such partitions.
* `processors/warmup.py:126`: a replay that is cut short lets copies of what it left
  out through; the loop goes on as if it were complete.
* `common/offsets.py:33`: gaps are looked for on assignment only. What retention
  deletes under a member that is running but far behind, or between the report and
  the first fetch, is skipped by `auto.offset.reset` unreported, although "the loss
  must not be silent" (`common/offsets.py:9`).
* `common/models.py:129`: exceptions other than `ParseError` leave `clean_event` (an
  `OverflowError` or `ValueError` of `fromtimestamp`, an `AttributeError` when
  `revision` or `length` is not an object) and end the cleaner instead of sending
  the message to `wiki.dlq`; after a restart the same message does it again.
* `sinks/db.py:182`: a row that PostgreSQL refuses ends the sink, or trending, and does
  so again after every restart. Its partition is not committed past it, rows that
  share its batches are not stored, and the partitions of a member move on to the
  next member with it; retention ends that, by deleting the record, with a report.
* `processors/edit_war.py:80`: a new owner replays one window. Of a war that has
  lasted longer this may hold fewer than `min_reverts` reverts, so its next
  reverts raise a second alert, under another id, although
  `processors/edit_war.py:4-6` says a crash cannot emit an alert twice.
  `OneAlertPerWar` speaks of wars while their partition stays with its owner;
  `NoWarMissed` holds through moves, but for the next limit.
* `processors/warmup.py:97`: the window that is replayed is one of message times, and
  the rule's is one of event times. When the last committed message got to Kafka
  long after its event, as after an outage of the ingestor, which resumes where it
  stopped, reverts that still count are not replayed. Two reverts before a restart
  and one after then raise no alert, which is the case that
  `processors/edit_war.py:12-15` gives for the replay. `NoWarMissed` has `NoneHeldUp` as a
  premise for this reason; without it TLC finds the missed war within six steps.
* `web/cache.py:26`: the answer is computed outside the lock, so requests that miss
  together each query the database; "one query per interval however many people
  are watching" (`web/cache.py:4-5`) holds only once an answer is stored.
* `frontend/src/api.js:49`: every tick of the timer aborts the request before it, so
  a view whose answers take longer than its interval never updates. `RefreshEnds`
  is about finitely many requests.
* `processors/dedup.py:55`: the last bucket is never dropped, so `max_ids` does not
  bound a burst inside one bucket. `BoundedByBuckets` states the bound there is.

## Proofs

Every theorem is about the same `Spec` that the runs check, without fairness, and
holds for every value of the constants that meets the named assumptions of the
modules: TLC evaluates those for the values of each run. Most of them say that a
size is a number. The ones that say more are named below.

| Theorem | States | Module |
|---|---|---|
| `TypeCorrect`, `CheckpointSafe`, `StartNeverMoves` | `[]TypeOK`, `[]CheckpointCovered`, `StartFixed` | `IngestorProofs` |
| `TypeCorrect`, `SingleWriter` | `[]TypeOK`, `[]OneWriter` | `LoopProofs` |
| `ExactlyOnceHolds`, `OutputMovesOffsets`, `KeepsPromise` | `[]ExactlyOnceOutput`, `OutputWithOffsets`, `ImplementsPromise` when `CallbacksMidBatch = FALSE` | `LoopProofs` |
| `TypeCorrect`, `RowsBeforeOffsets`, `Implementation` | `[]TypeOK`, `[]CommittedStored`, `ImplementsGuarantee` | `SinkProofs` |
| `TypeCorrect`, `OffsetsForward`, `TotalsNotTooLarge`, `NothingSkipped` | `[]TypeOK`, `OffsetsNeverRegress`, `[]NeverOvercounted`, `[]CommittedCounted` | `TrendingProofs` |
| `DedupBounded`, `EveryEventEmitted`, `CopiesAreFound` | `[]BoundedByBuckets`, `[]NothingSwallowed`, `[]CopiesFound` | `CleanerProofs` |
| `AlertsInsideWindow`, `NoWarIsMissed`, `OneAlertForEachWar` | `[]InsideWindow`, `[]NoWarMissed`, `[]OneAlertPerWar` | `DetectorProofs` |
| `TypeCorrect`, `TopicKeepsNewest`, `CaughtUpShowsRecent` | `[]TypeOK`, `[]NewestKept`, `[]ShowsRecent` | `PageProofs` |
| `TypeCorrect`, `RecentAnswers`, `OldDataIsFlagged`, `NoConnectionLost`, `OnlyNewerShown` | `[]TypeOK`, `[]AnswersRecent`, `[]OldDataFlagged`, `[]RefusedOnlyWhenBusy`, `NeverOverwritten` | `DashboardProofs` |

Type invariants are stated as they are read: what a variable is where it is used.
The proofs need a little more, that variables are functions and that updates
therefore take effect; that is what the definitions called `Typed` add.

### Ingestor

`CheckpointCovered` speaks of events up to the checkpoint and is not inductive:
whether the next confirmation may move the checkpoint depends on what lies
between it and the events in the tracker. `IInv` adds:

* `SeqUnique`: a sequence number names one message, among pending, queued and answered;
* `DownQueueEmpty`: a process that has ended has nothing queued, so no callback of it comes later;
* `ConfirmedLanded`: what is confirmed, or about to be, is in Kafka;
* `IdsPublished`: no id is ahead of the live edge;
* `TrackedCovered`: every event up to a pending message's id is in Kafka or is itself
  pending at or before that message. This is the heart of the argument: when the
  longest confirmed prefix is released, nothing before it is left over;
* `ReceivedCovered`: every event received on the open connection is in Kafka or
  tracked;
* `FileBehind`: a process that has no checkpoint in memory has none on disk.

One lemma per kind of step (`FrameStep` for those that move no event,
`AnswerStep`, `SendAcceptedStep`, `ServeAckStep`) and `InvStep` collects them.

`CheckpointCovered` alone does not say how much the checkpoint may skip at its
lower end; `StartFixed` does, and its proof needs `FileBehind`.

### The transactional loop

The proofs are about any subclass. What they assume of it is `SequentialRun`
(`SeqState` and `SeqOut` are what one process that never fails has after each
message) and `WarmupSuffices`: there are sets `Agreeing[p][k]` of states that emit
what the sequential run emits for message `k + 1` and move to states that agree
again, and the state a new owner rebuilds is one of them. `SequentialRuns` gives the
constants their values for the cleaner and for page state, and TLC checks both
assumptions for the logs of the runs; that they hold for every log would be
induction over data.

`SingleWriter` rests on `TxnOwned`: offsets in an open transaction belong to the
owner of the partition, or to an instance that was expelled and has no successor
yet, since a successor waits until the offsets are stable. No condition on
callbacks is needed.

For exactly-once output `LoopInv` adds, of every instance:

* `OwnsInStep`: of each partition it owns, and of those in a transaction it is about
  to commit even if it was expelled since, its state, its batch, the output in its
  transaction and the committed output together are those of the sequential run
  after the messages it has handled;
* `ExpelledFromAll`: an expulsion takes all partitions of an instance. Without
  it a transaction could be half acceptable;
* `NothingLeft`: of other partitions it keeps neither batch nor state nor output, so
  that an assignment starts from `Fresh`;
* `InPhase`: what is in the transaction at each place of the loop.

`CallbacksMidBatch = FALSE` is a hypothesis of these three theorems because they
are false without it: `cleaner_revoke_mid_batch` is the counterexample. The steps of
`AbortingSpec` are not part of `Spec`, for the same reason (`cleaner_abort_loss`).

`KeepsPromise` maps every step to `ExactlyOnce!Advance` or to a stutter
(`CommittedStep`): only `Commit` changes what a reader of committed data sees, and
then `LoopInv` says what it changes to.

### The sink

`CommittedStored` is about committed offsets; a commit moves them to the positions
of a member. `SinkInv` adds what ties these to the batch:

* `ReadAccounted`: what the owner of a partition has read past the committed offset
  is dealt with (its row stored, not decodable, or its loss reported) or in its batch;
* `WrittenBeforeCommit`: when a member gets to its commit its batch is in the table;
* `BegunAtLogStart`: what lies before the start of a new group is gone from the log.

An expelled member is not in `ReadAccounted`: it may write its rows again, which the
union makes harmless, and its commit is refused. `Implementation` follows: every
step keeps what is dealt with and moves an offset, if at all, past such messages
only.

### Trending

`LogAssumption` says that event times are naturals and that all edits of a page are in
one partition: the cleaner keys its messages by page (`processors/cleaner.py:104`).
Without the second part the totals of two partitions for one key would meet in
`GREATEST`: `NeverOvercounted` would be false, and a total would be too small although
each partition's edits are below it.

* `OffsetsForward`: `OwnersAhead` says that everything an owner would commit from (its
  position, the first edits of its windows, its floor) is at or past the committed
  offset.
* `TotalsNotTooLarge`: `CountsRead` says that a window counts no more than the edits
  of its key that were read since the partition was taken over. Written with
  `GREATEST` it cannot add up with an earlier total.
* `NothingSkipped`: the invariant is `CountedInv`. A key is `Final` when its total holds
  every edit in time, or the cap forced its minute out. `Settled`: below the committed
  offset only final keys have edits in time. `Tracked`: of the others an owner has all
  edits in time in the key's window, whose first edit holds the commit back, or its
  floor does, or it has read none. `SeenInv` says that the watermark is the largest time
  that was read, so that once a minute is closed the edits of it that follow are
  late, and that a minute counts as flushed early only with a floor, or when
  the cap did it. Closing a window on time then makes its key final; closing it
  early sets the floor at or before its first edit.

The lemmas about `add`, the cap, `pop` and `commit_offsets` (`AddFacts`, `CapFacts`,
`PopFacts`, `CommitFacts`) come first and do not mention the group.

### The cleaner and its cache

The lemmas are about one `is_new`. `CacheOK` says what a cache is: no id is in two
buckets, none in a bucket before that of its event's time, and buckets have
different places in the order. `Recorded` says that `is_new` keeps this, that it
adds the id it is asked for and no other, and that the cache is within its bound
afterwards; `RecordedKeeps` which ids stay. The one loop in it, `_enforce_size`, needs
that the buckets from some place on are few enough or only the last
(`Enforced`), and that such a place has a first: the smallest of a set of numbers.

* `DedupBounded` follows: expiry makes a cache smaller and insertion ends with the size
  bound. It is not enough to look at the cache before: one over its bound in a single
  bucket stays there only as long as it has one bucket.
* `EveryEventEmitted` needs `Ids(cache) \subseteq HandledIds`: the cache knows no id that was not
  handled, a replayed one included, because a replay stops at the committed offset.
* `CopiesAreFound` needs `FeedInv`. `KnowsHandled`: every valid message that was handled, or
  that the current replay has come past, is in the cache or excused, where the
  excuses are those of `CopiesFound` at this moment; they are monotone, so an id that
  is excused stays so. `ReplayOK` is about the two clocks: warm-up files an id under
  its message's time, which is no earlier than the event's, so while a replay lasts
  nothing in the cache is before the window's first bucket, and no message of the
  replay expires another. After it, expiry goes by event time, and an id that
  it takes has its event more than a window back.

### Edit war detection

The rule (`InWar`, `StartsWar`) is defined over the whole history, by reverts at any
distance; the detector keeps a list for each page. `DetectorInv` ties the two, for
the part of the history that the owner has come past (`next`):

* `Lists`: a page's list holds reverts of the page, in the order of the partition, and
  no two of them are further apart than the window and the lateness; `AlertsInsideWindow`
  follows, for any order of messages;
* `UntilOK`: in time order, a page's `until` is a window after some revert that is in
  a war by the rule, whoever observed it. So no alert is outside a war;
* `Complete`: in time order, every revert of the last window is in its page's list, but
  for what replays missed. `_evict` takes what is out of the window and a new owner
  begins with all of its window, which `NoneHeldUp` makes a window of event times. So
  a revert with enough others before it raises an alert or extends a war;
* `Known`: with one owner, every war's `until` is there or over. Only this excludes a
  second alert for a war, and it is what a new owner does not have.

`expire` keeps all of them because the watermark is no later than the last message in
time order (`ExpireKeeps`). That the rule's verdict on a message does not change with
the messages after it is `RuleKept`; that a war goes on with a revert a window after
another one in it is `WarGoesOn`, and neither needs induction: a war names its first
revert.

### The page topic and the page store

`TopicAssumption` says that event times are naturals and that the partitions have no
page in common: `wiki.clean` is keyed by page, as for trending. `LatenessAssumption` is
needed for one case only, named below.

* `TopicKeepsNewest`: `TopicInv` says of a page that the topic's last record of it is
  its newest change and no record of it has a later time (`ShowsNewest`), and that
  the guard has that change's time, or does not have the page (`Knows`). In the
  second case there are no changes yet, or a message that was handled is more than
  `TombstoneMs` ahead of all of them: the tombstone is gone and a new owner did not
  find it. `handle` then takes any change, and `LatenessAssumption` makes it the newest.
  A new owner that read everything finds the time of the page's last record among
  what compaction left, since only that case takes the last record (`RestoreKnows`).
  Records are added at the end only, so `ShowsNewest` needs no induction over them.
* `CaughtUpShowsRecent`: `StoreInv` says that the table holds what the records read so far
  show of a page, or that a later record of the page is stable and still to come
  (`ReadUpTo`): a superseded record may be missing. At the end of a partition nothing is to come, so
  what the table holds is then recent (`RecentSince`), and each record applied later
  is a later state. The steps of the topic matter to the store only in that records
  and stable ends are never taken back (`Grows`). That every partition is at its end
  follows from counting: the code compares the size of `_at_end` with the number of
  partitions.

### Dashboard

`DashboardInv` has a part for each piece of the system. `RequestsOK` is the budget of time
behind `AnswersRecent`: a statement that runs ends by its deadline, and the deadline is
at most `Timeout` times the number of statements begun after the time the data is of; an
entry's data is therefore at most the time of all statements older than the entry.
`PoolOK` counts: connections given out are as many as statements that run. `Fits` is
about a view: the request it waits for asks what the view asks now, and what it
shows answered a request that is over and was sent no later than the one it waits
for. The last part is what excludes a second answer to the same request, and with it
overwriting.

### Only model-checked

* Liveness: fairness and `ENABLED` are out of the prover's reach. `EventuallyLanded`,
  `FailureStops`, `AllProcessed`, `EventuallyNewest`, `TotalsCorrected`, `AllCommitted`,
  `GroupSettles`, `RefreshEnds`.
* `CleanUnique` and `LatestShown`, which are about the whole output of the loop with the
  hooks of the cleaner and of page state: what a recursive function over a log
  computes for every log needs induction over data. What they come to is proved
  where the state is that of a step: `CopiesAreFound` and `TopicKeepsNewest`.
* That the cleaner and page state meet `WarmupSuffices` for every log, for the same reason.

## Not modelled

* Eager rebalancing (the `COOPERATIVE` switch off): the default is cooperative.
* Retention under a member that owns the partition (see the limits above), and
  retention for the transactional loops and trending, whose assignment reports it
  with the same call.
* Rejoins by the watchdogs of the transactional loops and of trending: they are
  revocations at any time there; the strikes are modelled with the sink.
* Brokers themselves: replication, leader election. Compaction is modelled by what
  a reader may find.
* Field validation in `common/models.py` beyond the kind of message it decides.
* The SQL of the dashboard, its view of the cluster (`web/cluster.py`), its health
  check and `PageStore.search`; rendering and formatting in the frontend.
* Admin commands, scripts, metrics and `common/sandbox.py`: they keep no state between calls.

## Plan

All parts of the pipeline that keep state are modelled, and every safety property of
the passing runs but two has a theorem. What would add most from here:

1. `WarmupSuffices` for page state and for the cleaner within its window, for every log:
   then `ExactlyOnceHolds` has no assumption about them left;
2. the health check and the cluster view of the dashboard, and retention and rejoins
   under the transactional loops;
3. a corrected `on_revoke` and `_abort`, so that `ExactlyOnceHolds` loses its hypothesis on
   callbacks and covers `AbortingSpec`.

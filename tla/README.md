# Verification of the PostgreSQL performance dashboard

TLA+ models of the stateful parts of the dashboard, the TLC configurations that
check them on small instances, and theorems about them that TLAPS checks for all
values of the constants.  Paths are relative to the repository's root.

## 1. The system

A *source* database runs the monitored workload with `pg_stat_statements`,
`pg_qualstats` and friends.  The PoWA collector copies their counters into a
*repository* database.  JOIN predicates are aggregated away by PoWA, so a second
pipeline exports them: every PoWA snapshot moves the raw rows into a transactional
outbox on the source, and the *join-snapshotter* daemon carries the outbox's batches
to the repository.  A *snapshot worker* refreshes materialized views over the
repository, and the *API* serves read-only queries, through caches, to the web
frontend.  Two evaluators run what-if experiments: one with hypothetical indexes on the
source, one with real indexes on disposable copies of a clone database.

| Component | State it keeps | Operations | Talks to |
|---|---|---|---|
| Source JOIN outbox (`sql/003`) | `outbox_batches`, `outbox_rows`, the `batch_id` identity; pg_qualstats' shared memory | `capture_and_reset`, `assert_outbox_within_limits`, `list_batch_headers`, `fetch_batch_chunk`, `fetch_batches`, `ack_batch` | called by the PoWA collector and the daemon |
| Repository JOIN ingest (`sql/001`, `012`, `013`) | `join_batch_staging`, `join_chunk_receipts`, `join_predicate_staging`, `join_snapshot_batches`, `join_predicate_samples`, `index_candidates`, `index_candidate_evidence`, `join_source_status` | `ingest_join_chunk`, `finalize_join_batch`, `ingest_join_batch`, `record_join_error`, `purge_join_source_history` | called by the daemon; read by the API |
| join-snapshotter (`deployment/join-snapshotter`) | its place in `run_cycle`, the header list, the chunk cursor, `next_purge_at`, the health marker file | one cycle: list, fetch, ingest, finalize, acknowledge; purge; report | both databases |
| Snapshot worker (`backend/app/snapshot_worker.py`, `sql/017`, `018`) | two state tables of refresh status per window, an advisory lock per family | refresh one due window, mark it failed, back off | repository |
| API caches (`backend/app/repositories/powa.py`) | twice (metrics, trends): LRU entries with their refresh time, back-off records, a generation, the refresh tasks | `_query_metrics_snapshot`, `_global_trend_snapshot`, the two refresh tasks, `annotate`, `invalidate_query_rows_cache`, `close_query_rows_cache` | API routes, lifespan (`main.py`), repository |
| Evaluation routes (`backend/app/api/router.py`, `services/`) | a thread for each request, with a time-out | resolve a query, ask one evaluator, then perhaps the other, answer | both evaluators |
| Source evaluator (`backend/app/evaluator.py`) | one admission slot, no queue; a session | HypoPG plan or EXPLAIN ANALYZE in a read-only, rolled-back transaction | API, source |
| Clone evaluator (`backend/app/clone_evaluator.py`) | one admission slot with a queue, job databases | create, replay, index, measure, destroy, recount | API, clone cluster |
| Workload generator (`deployment/workload/workload.py`) | metrics shared by its threads, stop event, database rows and jobs | supervise workers; each draws and runs one transaction after another | source |
| Benchmark (`scripts/erp_stack_benchmark.py`, `scripts/run-realistic-workload.sh`) | snapshots, monitoring threads, marker files | baseline, release, sample, join, final snapshot, report | the generator, every container |
| Reset coverage and roll-ups (`sql/007`, `009`-`011`, `014`, `015`) | none | deltas of counters that may reset | repository |
| Migration runner (`deployment/repository/run-migrations.sh`) | `schema_migrations` with checksums, a lock | apply missing files in order | repository |
| Provisioning, roles, frontend, PoWA itself | configuration or nothing | | |

### Where it is hard

* *Two databases, no distributed transaction.*  A batch is durable in the repository
  before it is deleted at the source; the daemon may die, or a reply may be lost,
  between any two of its calls.  Each call must be repeatable.
* *Several daemons.*  Replicas, and daemons of two releases during an upgrade, handle
  one batch at a time in turns.  READ COMMITTED lets them commit between two
  statements of one function.
* *A non-transactional reset.*  `pg_qualstats_reset()` throws away shared memory in the
  middle of a transaction.
* *Bounded queues.*  A circuit breaker stops captures when the backlog is large or old;
  it must not lock itself shut.
* *Poison batches.*  A batch that can never be carried must not stop the rest.
* *Ids that start over* when the source volume is recreated while the repository stays.
* *Out-of-order finalization* of old batches, against status and `last_supported_at`.
* *Retention* that runs in the middle of a transfer.
* *Caches* whose refresh tasks outlive the requests, the entries and the generations that
  started them, and shutdown, which must find all of them.
* *Admission slots* and *job databases* that must be given back on every path, while the
  caller may have given up long ago and has been told something that must stay true.
* *Two processes with marker files* that each may time out, fail or be killed while the
  other waits.
* *Measurement by difference*: anything that restarts, resets or still runs at a boundary
  falsifies it.

### What makes each part correct

* Outbox: no row is exported twice; the backlog is bounded in rows and age; the
  breaker closes again once everything is acknowledged.
* Repository: public evidence is exactly what finalized batches captured, however they
  were cut and repeated; candidates exist exactly while there is evidence to support
  them; the status row is about one batch.
* Transport: a captured batch is at the source or durable at the repository; a cycle
  reports clean only if everything it handled is durable; transferable batches drain.
* Snapshot worker: one refresh per family at a time, `ready` only after a refresh, every
  due window eventually tried although others fail.
* Caches: a request sees every annotation answered before it; one query per generation
  and key; a disconnect harms nobody else; bounded size; no key refused for ever; nothing
  left running after shutdown.
* Evaluators: nothing runs that locks or writes, one job at a time, true answers, and a
  job database that is left behind is reported.
* Workload: bounded tables and no lost job whatever fails, and a verdict that was earned.
* Benchmark: the counters of a passing report hold all of the generator's run, the probes and
  the refreshes they cause, nothing of preparation or postlude, and all samples but as many as
  it tolerates errors; both processes end.

## 2. Modules

| Module | Contents |
|---|---|
| `JoinBatch` | batches, headers, chunks; the carving of a batch into chunks (`fetch_batch_chunk`), pure |
| `SourceOutbox` | the outbox; `OutboxSpec` runs it alone with an arbitrary acknowledger |
| `JoinRepository` | the repository's functions as actions over its tables, for any caller |
| `JoinIngest` | these functions alone, called in any order with any valid carving of the captures `Sent` |
| `JoinTransport` | composes both (EXTENDS) with the daemons of this release (`Worker`) and of the older one (`LegacyWorker`), faults and crashes |
| `JoinDelivery` | abstract: a queue from which a message is taken only after it has arrived |
| `SnapshotCache` | one stale-while-revalidate cache of the API, with the process around it |
| `DashboardCache` | the API process: two instances of `SnapshotCache` that share annotation, invalidation, shutdown and clock |
| `SnapshotWorker` | the workers that refresh the materialized views, the repository's locks, rows, views and running REFRESH statements |
| `EvaluationRequests` | the API thread of an evaluation: routes, posts, time-outs, what is answered without a result |
| `SourceEvaluator`, `CloneEvaluator` | the evaluators (each EXTENDS `EvaluationRequests`) |
| `Evaluation` | composes both evaluators with the requests |
| `Workload` | the workload generator: supervisor, worker threads, shared metrics, transactions |
| `Benchmark` | the benchmark driver and its threads, the shell wrapper, the generator as a process, the containers' counters |
| `MC...` | instances of the modules for TLC |
| `JoinRepositoryProofs` | theorems about chunks and carvings, one lemma per repository function, and the theorems of `JoinIngest` |
| `JoinTransportProofs` | theorems of the outbox and of the pipeline, which cite the lemmas of the functions |
| `SnapshotCacheProofs`, `DashboardCacheProofs`, `SnapshotWorkerProofs`, `EvaluationProofs`, `WorkloadProofs`, `BenchmarkProofs` | theorems of the other models |

### State and actions against the code

`SourceOutbox`.  `live` is what `pg_qualstats()` returns; an item is one raw row, so
that conservation can be told.  `capture_and_reset` is cut in three where it is not
atomic: `CaptureRead` (breaker, batch row, the materialized read), `CaptureReset`,
`CaptureCommit` or `CaptureAbort`.  `storage` counts dead rows too and never shrinks, as
`pg_total_relation_size` does between vacuums.  `captured` and `epoch` are history: which
batches were ever committed, and on which incarnation of the volume.  The fetch and
acknowledge functions are single statements and so single steps.

`JoinRepository`.  Tables are sets of records with only the columns that decide
something; a receipt carries its staged rows.  A function that raises rolls back, so it
has a `...Raises` or `...Conflict` predicate for the caller instead of an action.
`Aggregated` sums one per raw row and natural key: the counters themselves are left
out, the number of times each row is counted is kept.  `delivered` is history.
`JoinIngest` calls the functions without a daemon: `ValidChunk` is the argument validation of
`ingest_join_chunk`, and nothing else restrains the caller.

`JoinTransport`.  `pc` is the place in `run_cycle`.  `todo` are the headers left, the
smallest id in process; `xfer` the chunk number, offset and chunk in hand.
`ingest_join_chunk` and `finalize_join_batch` look for a final batch in a first
statement and act in later ones; another worker may commit in between, so each is two
steps (`IngestKnown`/`IngestUnknown` then `Stage`; `FinalizeKnown`/`FinalizeUnknown` then
`FinalizeCommit`).  `RefuseBatch` is an exception the databases or the worker's checks
raise, `LoseCall` and `LoseAckReply` a call that fails before or after it took effect,
both isolated by the per-batch handler; `RefuseCycle`/`LoseCycle` are exceptions outside it.
`Crash` forgets the worker's memory.  A source connection belongs to one incarnation of
the volume (`session`).

`SnapshotCache`.  The API process is one asyncio loop, and no block under a cache lock
awaits anything: the lock is never contended, and a coroutine runs without interruption
from one `await` to the next.  The steps are cut there.  A `Request` ends in a fresh hit,
a stale hit that may start a refresh, a refusal during back-off, or a wait for the shared
task; `Load` is the moment the database takes the snapshot the task will return; `Succeed`,
`Fail` and `Warming` are its ends, with the `finally` that forgets it and the replies to
all handlers that await it; `Abandon` is a client that goes away.  `annotate` is two steps,
the commit (`Annotate`) and the invalidation with the reply (`Announce`).

| Variable | Code |
|---|---|
| `generation`, `cache`, `retry`, `refreshTasks` | the attributes of `PowaRepository`, once for each cache |
| `recent`, `retryOrder` | order of the `OrderedDict`s (the metrics back-off is a plain `dict`, its order is unused) |
| `tasks` | the asyncio tasks themselves, tracked or not, with the handlers that await them |
| `handler[c]` | what was acknowledged when the request came (history), and its answer |
| `annotation`, `unannounced`, `acknowledged` | commits in the repository, those whose handler has not invalidated yet, the newest one answered |

Abstractions.  Rows are the version of the annotations they were read with.  Instead of a
clock, an entry has its age and a back-off its time left, which is all the code compares;
ages stop at `StaleSeconds + 1` and failures at `MaxExponent + 1`, after which nothing
depends on them.  `Warming` may happen at any read: whether the view was populated is the
business of the snapshot worker.  `DashboardCache` instantiates the module twice, and its run asks what
only the two together can show; trend rows carry no annotations, so read-your-writes concerns the metrics cache.

`SnapshotWorker`.  The connection is in autocommit mode, so every statement of
`_refresh_snapshot` is a transaction and a step: `TryLock` or `Refused`, `SetRefreshing`,
`CheckPopulated`, `StartRefresh` and `FinishRefresh` (snapshot and commit of one REFRESH, which
waits for another one of the same view), `SetReady`, `SetFailed`, `Unlock`.  `pc` names the
next one.  `run_worker` is `Open`, `PlanMetrics`, `PlanTrends`, the loop over `todo`, and
`Reopen` when a plan cannot be read; `waiting` is `retry_not_before`, which outlives
connections and not the process.

| Variable | Code |
|---|---|
| `lock` | which session holds a family's advisory lock |
| `row` | `status` of the state tables, and whether `refreshed_at` is an interval old or missing (`due`) |
| `view` | unpopulated, or whether its data was read after the last `refresh_started_at` written for it |
| `scans` | REFRESH statements that run, with the session they belong to |
| `conn` | the worker's session; a session can live on without it |

A lost connection or a crash does not end the session at once: the server may finish the
REFRESH (`FinishAbandoned`) and keeps the lock until it notices (`EndSession`).  The worker
learns of the loss at its next statement, so the except and finally blocks raise too
(`LoseJob`); `LoseReadyReply` is a row written whose reply is lost.  `Poison` are the windows whose
REFRESH always runs into `statement_timeout`.  `Crash` also stands for a stop, which ends
a worker between two jobs, where a crash may happen as well.  Left out: durations and row counts, the pauses
of `stop.wait`, and an unlock that fails over a connection that stays up.

`Evaluation`.  A request is an API thread: `Resolve` posts it, `Receive` takes an answer,
`Unreachable` is `urlopen`'s time-out or a broken connection.  The post may still arrive and
the job go on, so `post` and `reply` are separate from `call`.  A runtime request asks the
source first and the clone then.  The source evaluator turns a second operation away
(`AdmitSource`); the clone evaluator queues it (`line`).  Both run a job to its end when
the caller is gone.

| Variable | Code |
|---|---|
| `free` | the permit of the source's `_evaluation_slots`; it and `OneSourceOperation` count worker threads of the service: a transaction that a restart orphans may stay open on the server until its time-out, uncounted |
| `line` | the waiters and the holder of the clone's `_evaluation_slots`, in order |
| `source[r]`, `clone[r]` | place and locals of the worker thread of a job |
| `open`, `ran` | transactions open on the source; statements ever executed there (history) |
| `database` | the clone cluster's catalog of job databases; `creating` and `late` are a CREATE DATABASE that outlives its connection |
| `indexed`, `replayed` | databases with the candidate index; queries ever executed on a clone (history) |

The steps follow the functions: gate, connection guard, plan preflight, EXPLAIN ANALYZE
or HypoPG, rollback (`SourceEvaluator`); gate, `CREATE DATABASE`, baseline preflight, index,
measured runs, drops, recount (`CloneEvaluator`).  `SourceFails`, `CloneFails`,
`CreateDatabaseLost` and the failing branches of `DropDatabase` and `Recount` are statements or
connections that fail; the restarts forget slot, threads and tracked names.  A query is
`plain`, `locking` (its text passes for one SELECT, its plan writes or locks) or `refused`;
how text and plan are scanned is left out, and so are costs and timings: whether an
index helped is a choice.  Kind `query` has a function but no route at this commit.

`Workload`.  `at` is the statement a worker is before.  Advisory and row locks are
held from the statement that takes them to the end of the transaction, so `Holds` reads them off
the workers' places.  `Durable` is what a commit does; a connection lost during a commit may or may not
have done it.  `Supervise` is one turn of the loop over futures that finds something to do,
`Finish` shutdown of the executor with the closing statistics.  `nextOrdinal` and `visited` are the sweep's
reservations and completions, `recorded` what `pg_stat_statements` has counted.  Left out: bind values, weights
and intervals.

`Benchmark`.  `driver.at` is the place in `run_benchmark`, `wrapper.at` that of the shell script,
`marker` the files of the sync directory.  Counters are abstract: `spent` and `called` say what each
activity, the generator, the samples, the probes and the rest, has cost so far.  A snapshot reads the cgroup counters
(`Containers`) and the statement entries (`Statements`).  The driver sees one sum of the counters (`Total`), and its guardrails
read no more; the model keeps the counter apart by activity, so that a property can say what is in the
sum.  `server` says which start the containers are of.  A container snapshot is one step.
A batch of a thread, a sample's psql and cgroup reads in both containers included, is charged when it ends, so one that is in
flight at a snapshot lies behind it.  `left` counts the commands of a thread that timed out: `subprocess.run` kills the docker
client only, and what it started in the container runs on until `LeftoverEnds`.
`Raise` is an exception anywhere in the driver, `Abort` and `StopProcess` its handler, `Die`
a killed driver, whose wrapper lives on in its own session.  `Guardrails` are those that decide
whether the difference can be trusted.

## 3. Runs

| Run | Asks | Result |
|---|---|---|
| `outbox` | Is the backlog bounded, does the breaker recover, is no row exported twice, although captures abort anywhere? | holds |
| `outbox_conservation` | Is capture and reset one atomic step, as `docs/ITERATIONS_2_5_TO_2_7.md:30` says? | violated: rows recorded between the read and the reset are in no batch |
| `join_repository` | With any order of legal calls and any carving, are samples exact, candidates supported, and is the status row about one batch? | holds |
| `join_namesakes` | A worker of each release while the volume is recreated: are rows of namesake batches ever mixed? | holds |
| `join_delivery` | One worker, two batches of which one is poison, a fault or crash at any step: does the transport implement the queue, is nothing lost, do transferable batches drain? `TransportInv` is the inductive invariant of the proofs | holds |
| `snapshot_cache` | Do answers carry acknowledged writes, does a generation load a key once, do overtaken refreshes and disconnects leave others alone, are entries and back-offs bounded, does nothing outlive shutdown, is a stale answer always being revalidated, and does every back-off run out? `CacheInv` is the inductive invariant of the proofs | holds |
| `refreshes_serialised` | Does one lock keep any two refreshes apart, as `README.md:322` and `docs/INSTALLATION.md:900` say? | violated: nothing acquires the lock |
| `snapshot_worker` | Both families, one window that always times out, sessions that outlive the worker: one scan per family, honest `ready` rows, no populated view locked against readers, locks given back, every row that is not `ready` due, every other due window refreshed? | holds |
| `workload` | A reader and two writers through failing statements, lost connections, a dying thread, a signal: bounded tables, no lost job, honest coverage and verdict, and does a run end? | holds |
| `evaluation` | A runtime validation against an EXPLAIN ANALYZE, another validation, a clone replay or a probe, callers that give up, a failure or restart: is only read-only work executed, by one worker thread at a time on the source, every answer true, each left database explained, and does every evaluation end? | holds |
| `benchmark` | Restarts, evicted entries, failing probes, a killed driver or wrapper: did a passing report measure all of the run and of what the probes set off, nothing of what is around it, and all but the tolerated samples; and do both processes end? | holds |
| `join_reused_id` | Is a batch acknowledged only after its own finalization, when ids start over? | violated: `finalize_join_batch` answers for a namesake |

### Findings

1. *Capture is not atomic* (`sql/003:271`): `EvidenceConserved` fails in four steps.
2. *Acknowledged without finalization* (`sql/013:66`): the "already final" branch does not
   compare capture time and row count, as the neighbouring branches do, so a batch whose id
   was used before the volume was recreated can be deleted at the source unseen.
3. *Refreshes are not serialised* (`powa.py:602`): `_repository_refresh_lock` is created and
   given an alias, and never acquired.

Two more disagreements were met while modelling and are not among the runs above:

* A runtime validation whose clone call times out is answered `cloneDestroyed = true` and
  `cloneDdlExecuted = false` (`services/clone_evaluator.py:18-29,60-65`) although the job may still
  run with its databases.  The sibling for EXPLAIN ANALYZE says `clone_destroyed = false`, and the source
  path answers null.  `AnswersTrue` therefore speaks of the two EXPLAIN ANALYZE paths only.
* The comment at `erp_stack_benchmark.py:4230` says that all in-flight probes finish before the cgroup
  boundaries.  Of the API probes and the acceptance that holds of every report that passes: one that outlives
  its join is an error, and none is tolerated.  It does not hold of the samples.  One sample is two psql
  calls of up to 20 s and two cgroup reads of up to 10 s, the join waits 45 s
  (`erp_stack_benchmark.py:4121-4143`), and the error it then counts is within `maxSamplingErrors`.
  `MCBenchmarkBoundary.cfg` states the comment as the invariant `ProbesFinish`, for
  `tlc -config MCBenchmarkBoundary.cfg MCBenchmark`.  TLC answers with a trace of 31 states: the join passes over
  a busy sampler, the driver finds the repository idle, reads the containers, the wrapper finishes, the report says
  `PASSED`, and only then the sample ends and is charged.  `MeasuredExactly` is what does hold: the samples
  missing from a report that passes are at most the sampling errors it tolerates.

### Bounds, and why they are enough

`MaxBatch`, `MaxTime`, `MaxFaults`, `MaxRebuilds` bound captures, clock, faults and
recreations; they stand in the guards of the actions they bound.  `outbox` has three
items and batches enough to overshoot each limit, to be refused by it and to recover.
`join_repository` has a batch of four rows, its namesake and a later batch,
with rows that share a key, chunks of one or two rows and three chunk numbers, so that
gaps, overlaps, repeats and mixtures all occur, and time for retention to expire part
of the tables.  An empty batch is covered by the proof alone.  The
transport's runs are cut by question: one worker of each release and one recreation
for namesakes, which is also where two workers race; one worker and two batches, one poison, for refinement, isolation
and liveness (with as many poison batches as `JOIN_BATCH_LIMIT` nothing behind them is ever listed,
so the run has a limit of two).  Several workers of one release rest on the proofs.  Chunks hold one row,
so two rows make two chunks, the least in which cursor, repeat and contiguity matter.

The cache runs scale times down: fresh at age 0, stale at 1, too old at 2; back-offs of 1
and 2, so a first and a longest one exist.
`snapshot_cache` has two windows for
one entry, so every second fill evicts, two handlers and two tasks, so that a straggler of the
old generation and a task of the new one run together, and an annotation that
separates them; several annotations that are answered in another order than they
commit are covered by the proof of `ReadYourWrites`.
`Task` bounds the tasks alive at once: a request that would start one more waits to
arrive.

`snapshot_worker` has one worker, as `compose.yaml:141` runs it, two windows of one family with the
first one timing out, a window of the other family behind them, and two sessions: the worker's
and one left behind by a lost
connection, which is the second actor that wants the same view.  Two faults allow a loss followed by a second
failure in the recovery.  Several workers rest on the proofs.  With two workers
`WindowsRefreshed` is not claimed: they can refuse each other in turns.

`workload`: one reader that sweeps two fingerprints, two writers that share both tables, a job
and the hotspot; one row kept per table, so that every insert must clean up; three
operations, which is one more than writers, so that one of them sees what another left.
`evaluation`: two requests, the least for the slot, the queue and a late job behind
a caller that gave up; two measured runs; one fault, anywhere; no planner request of its own, which is the first half of a runtime
validation.  More requests and faults rest on
the proofs.
`benchmark`: one statement, one call, two samples, one API batch, an acceptance
check, one fault and one tolerated sampling error, so that an error is tolerated, is not, or comes of the
join that gave up.

Symmetry of workers and sessions is used in runs of safety properties only.  Deadlock is not checked
where the bounds let the model stop: when batches, time and faults are spent.

### Fairness

`FairSpec` assumes weak fairness of each daemon's own steps and of a capture that has
begun.  `run` is an endless loop whose every exception is caught and followed by a retry,
and connect and statement timeouts end every call; a capture is one transaction of the
collector with no wait of its own.  `FairCacheSpec`
assumes only that the clock runs (`Tick`): refreshes may hang, requests may never come.
The snapshot worker's `FairSpec` assumes that the worker runs (every exception is caught, `statement_timeout` is set on
each connection, so a REFRESH ends), that a retry time comes, and that the server ends a session
whose client is gone; nothing of `BecomeDue`, faults or `FinishAbandoned`.
The evaluators' fairness is that an accepted request is admitted and its thread goes on
(`statement_timeout` and `transaction_timeout` end each statement on the source, the clone's are
assumed to end); nothing of callers, faults or restarts.  The generator's: threads are scheduled, `statement_timeout`
and `lock_timeout` bound each statement, and the clock runs; nothing of choosing an
operation.  The benchmark's: driver and wrapper go on, since every wait of theirs has a time-out or a poll of the
other (`process.wait()` has none, and waits for a wrapper whose own commands are assumed to
end), and the workload ends after its duration.
Nothing is assumed of new rows, new captures, the outbox's
clock, faults, crashes or recreations.  Faults are bounded, that is, eventually stop;
without that no batch need ever get through.

## 4. Proofs

For all numbers of workers, items, batches, faults and all limits:

* `JoinRepositoryProofs!ChunkIsPiece`: a chunk is well formed, is the piece of the batch at its
  offset, makes progress, and is last exactly at the end.
* `JoinRepositoryProofs!IngestInvariant`, `EvidenceExact`, `CandidatesAgree`, `StatusOfOneBatch`: every property of
  `join_repository`, for any captures, any carving and any order of calls.
* `JoinTransportProofs!OutboxType`, `TransportType`: type correctness,
  of the outbox alone and of the pipeline.  The latter cites one lemma per repository
  function (`JoinRepositoryProofs`).
* `JoinTransportProofs!RowsExportedOnce`, `NothingBehindOverdue`, `BacklogLimited`: no row in two batches, no capture
  behind an overdue batch, and a backlog that overshoots its limit by its newest batch at most.
* `JoinTransportProofs!PublishInvariant`, `PublicIsCaptured`: public samples are exactly those of the captured
  batches that are final, for any number of workers of both releases and *any number of
  recreations* of the source volume.
* `JoinTransportProofs!TransportInvariant`, and from it `NothingLost` and `CleanCycles`
  (a cycle that reports clean has delivered all it handled),
  under `MaxRebuilds = 0`: with a recreated volume `join_reused_id` refutes them.
* `JoinTransportProofs!OnlyNamesakesLost`: what remains with recreated volumes.  A batch of the current volume
  is in the outbox, delivered, or has the id of a delivered batch of a former volume: finding 2
  loses namesakes and nothing else is lost.
* `JoinTransportProofs!TransportDelivers`: the pipeline implements `JoinDelivery`, under the
  same assumption.
* `SnapshotCacheProofs!CacheCorrect`, `CacheReadsWrites`, `CacheTasks`, `CacheShields`, `CacheCloses`,
  `CacheStragglers`, `CacheBounded`, `CacheRevalidates`: the invariant `CacheInv` and every safety property of
  `snapshot_cache`.
* `DashboardCacheProofs!TwoCaches`: the API process implements `SnapshotCache` twice, so what is proved of one
  cache (for constants as in `CacheAssumption`) holds of both.
* `SnapshotWorkerProofs!WorkerType`, `ScansExclusive`, `RowsHonest`, `ReadersServed`, `LocksGivenBack`:
  type correctness and four safety properties of `snapshot_worker`, for any number of workers; and
  `UnfinishedRetried` for one worker, the assumption `OneWorker`.
* `EvaluationProofs!EvaluationType`, `OneCloneJob`, `SourceSlot`, `ReplayIsReadOnly`, `ToldTheTruth`,
  `NoSilentLeftovers`, `ValidatedMeansMeasured`: type correctness, exclusion on the clone,
  and every safety property of `evaluation`, for any number of requests and faults.
* `WorkloadProofs!WorkloadInvariant`, `RetentionHolds`, `NoJobLost`, `CoverageIsHonest`, `VerdictIsHonest`: every
  safety property of `workload`, for any number of workers, jobs, tables and variants.
* `BenchmarkProofs!BenchmarkInvariant`, `ReportIsExact`: the safety property of `benchmark`, for any statements,
  calls, samples and faults and any number of tolerated sampling errors.

So every invariant and every action property of a passing run is also a theorem.

*The inductive invariant of the outbox.*  Committed batches being disjoint says nothing of the capture that is
open.  `ExportInv` adds it: before the reset its rows are still live, after it they are nowhere
else, and committed rows are neither live nor fresh.  `OrderInv` adds that the open capture is newer
than every pending batch and was opened while none was overdue; acknowledgements only take batches away.
`BacklogInv` says of every batch, pending or open, that the rows in front of it are
fewer than the limit: that is what the breaker saw, and later batches come in behind.  Its sum is a fold over
a set.  `RowSumUnfolds` to `RowSumMonotone` compute the fold one element at a time; where induction on
the size of the set would be used, a smallest set that fails is led to a contradiction.

*The inductive invariant of ingestion.*  `SamplesExact` speaks of final batches, but what is published
comes from staging.  `PublishedFrom(Q)` says of a set `Q` of captures: a header staged or final is the header
of one of them (`StagedFrom`, `FinalFrom`), at most one header is staged, and one final, for an id; every receipt is a
piece of the capture whose header is staged (`Piece`); and the samples are `Deserved`.  That a complete set of
receipts then has every row once is `CarvingExact`: contiguous receipts from offset 0 to the end are a carving, the
chunks follow each other in the order of their numbers (`ChunksInOrder`), so each place of the batch lies in exactly one of them
(`PlaceCovered`), and summing over receipts or over places is the same (`SumsByPlace`).  It needs captures with
different headers, `SentAssumption`: two captures of one id, moment and size cannot be told
apart by any of the functions.

*The inductive invariant of publication.*  In the pipeline `Q` is what was captured so far, and different
headers are a theorem: `CaptureOrder` says that captures have different moments, since a capture
begins later than every earlier one, recreated volumes included.  So
`PublishInv` needs no `MaxRebuilds = 0`, although acknowledgements do: a namesake may be deleted unseen, but its
rows are never mixed.  `Holds` adds what a worker has in hand: headers of captures, and a
chunk that is a piece of the batch in process, for the older daemon all of it.  The repository's share
is the same lemmas, one per function (`StageChunkFrom`, `FinalizeNewFrom`, `LegacyIngestFrom`,
`PurgeHistoryFrom`), that serve `IngestInv`.

*The inductive invariant of the transport.*  "A batch that left the outbox is final" is not inductive: an
acknowledgement is an action of a worker that remembers an id.  `TransportInv` adds what
makes its memory trustworthy.  `IdsUnique`: an id names one capture, also the
uncommitted one, and is below the identity's next value.  `HeadersKnown`: headers in the
outbox, in staging, in the final table and in every worker's list are headers of
captures; with unique ids, two equal ids are the same batch.  `AckProven`: a worker at its
acknowledgement has the batch in process delivered.  `FinalizeKnown` is the step
that needs all of it: the repository says "some batch of this id is final".  For the
refinement `Bounded` adds that captures stay within the abstract queue's messages.
`NamesakeInv` is what survives a recreated volume: an id is unique among the captures of one volume
(`IdsOfEpoch`), and an acknowledgement is backed by *some* delivered batch of the id (`Known`).

*The inductive invariant of the cache.*  Read-your-writes speaks of answered
requests, but an answer comes from an entry or from a task read earlier.
`RowsOK` says that neither an entry nor a loaded task *of the current generation* lacks an
acknowledged annotation: `Announce` acknowledges and, in the same step, empties the cache and
leaves every loaded task behind in an old generation.  That is where the generation
guard of `StoreEntry` is needed: without it the task of an old generation makes an entry.
Its own waiters arrived before the invalidation, which is `TasksOK`'s share: a waiter's
`since` is covered by the rows its task has read, or the read is still to come.  `TasksOK`
also says that running and tracked tasks are the same, which shutdown relies on.
Waiting handlers await one task, so its end answers each of them once.  `OrderInv` says of each dictionary
that its order lists its keys without repetition and that it is within its limit; lists
without repetition are as long as their set of elements is large (`OrderedSize`).

*The inductive invariant of the snapshot worker.*  `Sessions`: two workers share no session, and
a worker at a job has one in hand.  `Locks`: a connected worker at a job holds the lock of
its family; every running REFRESH belongs to the session that holds the lock of its family, and if a
worker is connected to that session it is at that REFRESH.  `Knows` makes the worker's
memory trustworthy: between its check and its REFRESH the view is as it was read, and before
`ready` it is current.  It is the lock that carries `Knows` through the steps of others, and the lock
stays with an abandoned session until its REFRESH is over; that is why a worker with a new
connection cannot overtake itself.  `DueInv` says that what a worker has planned or in hand is due: with
one worker, nobody else makes it fresh in between.

*The inductive invariant of the evaluations.*  An answer is given once, by a thread that may have
given up, and its subject goes on changing.  So truth is defined for the future as well:
`True(r, told)` says that what is told of request `r` holds and that nothing can make it
false, because its transaction is over or its job has ended (`SourceQuiet`).  `TruthInv` asks it of
the answer given and of each result on its way; `Unreached`, the answer to a time-out, satisfies it since
it claims nothing about the source.  `SlotInv` and `LineInv`
relate slot and queue to the threads.  `SourceInv` and `CloneInv` tie the place of a thread to
what it has executed and to the gates it has passed: a job at `analyze` has a plain query.  `TrackedInv` says that
a job database in the catalog is tracked by its job until the job ends, so that
`Remaining` counts all of them; this is where a CREATE DATABASE has to be tracked before it is sent.
`ValidInv` adds, for `ValidatedOnClone`, what a job that will say `RUNTIME_VALIDATED` has measured so
far and that a result of it on its way has left no database.

*The inductive invariant of the generator.*  `RetentionInv`: one transaction at a time is between the insert and the commit of
a table, since both hold the advisory lock, and the rows it found to delete are still
those to delete when it commits.  `CoverageInv`: reserved ordinals are within the sweep, and one at its
commit has been executed.  `VerdictInv`: without a fatal error, a worker that the supervisor no longer waits for has
returned, and a status is there only when the run is over.

*The inductive invariant of the benchmark.*  As long as no exception was raised and no report failed, `Handshake`: the marker files keep
preparation, generator and postlude on their sides of the two snapshots.  `Quiet`: before the
threads start nothing that counts was spent.  `Stopped`: what a thread still has to spend (`Pending`, a batch in flight or a
command given up) is backed by an error it has counted, in the join at the latest; with no API error and an acceptance in time nothing of theirs is left.
`Counting` is the accounting: since the baseline the counters have gone on with nothing that is to be left out (`Excluded`),
and what is to be measured (`Measured`, and the samples) was all spent since, unless the container or the entry is not the one it was, which the report
notices.  `Judged` keeps the difference once the second snapshot is read.  Its part
`SamplesJudged` is needed because samples may still be paid for then, even after the report: the late ones and the pending ones
together never exceed the errors counted before, and the report compares those with the limit.

*Assumptions.*  Those named `...Assumption` in the modules: items are finite, widths and
limits are natural numbers, chunk and list limits positive, keys and pairs well
typed, the two kinds of workers disjoint.  `PowerAssumption` says that powers of two are naturals, which
none of the provers derives from the definition of `^`.  TLC evaluates them in every run.

*Only model-checked:* liveness, that is `TransferableDrains`, `BreakerRecovers`, `NeverLockedOut`, `WindowsRefreshed`,
`EvaluationsEnd`, `RunEnds` and `BenchmarkEnds`: fairness and ENABLED are out of the provers' reach.  The induction theorems
of the library are too, since they take an operator as a parameter; where a sum or a carving needs
induction, the proofs argue by a least counterexample.  The three violations rest on TLC's traces.

## 5. Plan

In this order; each line is a module, its run, what it should show and what is worth
proving.

1. `CounterDelta`: reset-aware deltas and roll-up boundaries as recursive functions against a
   reference over bounded series.
2. `Migrations`: the migration runner; two of them under one lock, and a plan that was built from files with
   other checksums than the recorded ones.  A failure in the middle needs no model: one transaction holds all files
   (`docs/REPOSITORY_MIGRATIONS.md:29-32`).
3. Proofs: what a clean cycle has delivered when volumes are recreated; uniqueness of samples' keys.

## 6. Not modelled, and why

* SQL views and read-only API queries: no state of their own.
* Index advice (`refresh_candidates`'s scoring): only which candidates a batch supports is
  kept; the selection rules are one big query without history.
* Roles, grants, provisioning, deployment checks: configuration, applied by hand.
* Logging, metrics, back-off lengths, statement time-outs as durations.
* The PoWA collector, PostgreSQL and its extensions: external; `Record`, `CaptureAbort`,
  `Tick` and `Rebuild` are how they show.
* Of the evaluators: the scanning of SQL text and plans, cost and timing comparisons, health
  of the source evaluator (read-only), the script that loads the clone's template.
* Of the benchmark: `calculate_powa_maintenance`, ceilings on measured values, derived metrics and
  the writing of reports: pure arithmetic over the two snapshots.  The cost of the observer and of the collector
  is in the totals too, by design (`measurementScope`), and nothing is claimed of it.  The reads of the cgroup files
  by a boundary itself are charged to nothing: they lie on both sides of it.
* The frontend.

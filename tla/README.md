# postvec: TLA+ models, model checking and proofs

postvec keeps an embedding vector next to the text columns of PostgreSQL tables:
triggers queue what changed, a worker process or a server embeds it, an inference
engine or a hosted provider computes the vectors, and a command line manages the
models on disk. This directory holds TLA+ modules of the parts of it that are hard
to test, TLC runs that check them on small instances, and TLAPS proofs that hold
for instances of every size. `PROJECT.json` maps every definition to the source
lines it models.

## The system

| part | source (under `src/`) | shared state | module |
|---|---|---|---|
| job queue, enqueue triggers, registry lifecycle | `postvec/src/jobs.rs`, `postvec/src/api/registry.rs`, `postvec/sql/managed/triggers.sql` | `postvec.jobs`, `postvec.jobs_dead`, `postvec.registry`, the table | `JobTable`, `EmbedQueue` |
| migration | `postvec/src/api/migrate.rs`, `postvec/src/worker/migrate.rs` | `postvec.migrations`, a second vector column | `LiveMigration` |
| chunked entries | `postvec/src/worker/chunk.rs`, triggers | chunk table, refresh and embed jobs | `ChunkRefresh` |
| adopted and observed entries, cursor backfill | `postvec/src/api/registry.rs`, `postvec/src/worker/backfill.rs` | watermark and mode in the registry | `AdoptedEntry` |
| worker process | `postvec/src/worker/mod.rs` | latch, heartbeat, schema lock | `WorkerWake` |
| managed mode | `postvec-server/src/managed/` | leader lock, the same tables | `ManagedQueue` |
| model store and model commands | `registry/client/src/root.rs`, `postvec-cli/src/commands/` | model directories, `.swap/txn.json`, the engine | `ModelStore`, `ModelSwap` |
| inference engine | `engine/src/lib.rs` | model, executor and path tables, semaphores | `EngineLoad`, `EngineAdmission` |
| embedded server and provider gateway | `postvec/src/client/embedded/server.rs`, `providers/src/gateway.rs`, `retry.rs` | semaphores, provider snapshots | `InferenceServer` |

How they meet. A statement and its trigger share a transaction, so a job becomes
visible with its row. The worker claims jobs and reads texts in a first
transaction, calls inference in no transaction, writes vectors and deletes jobs in
a second one. Management calls change registry, triggers and columns while this
goes on. Inference is a request to the embedded server (`InferenceServer`), which
predicts in the engine (`EngineAdmission`) or calls a provider; the engine's tables
change when models are loaded and unloaded (`EngineLoad`), which the model commands
ask for around their renames (`ModelSwap`). Each module takes its neighbours by
what they can answer: `EmbedQueue` lets inference succeed, fail for a row, fail for
the batch or never return; `ModelSwap` lets the engine load, refuse, lose an answer
or restart.

## Modules

Every module has its state as variables and one action per transaction, handler or
step between two awaits. Files `MC*.tla` and `*.cfg` instantiate it for TLC,
`*Proofs.tla` and `EmbedQueueTracking.tla` prove theorems about it. Definitions
marked `Faulty:` are plausible bugs, each defined before the definition it would
replace; no specification uses them.

### JobTable and EmbedQueue

`JobTable` is `postvec.jobs`: a queue maps identities to `[st, row, att]`, and each
SQL statement is an operator on queues. `open` is inserted and not committed,
`pending` has `claimed_at IS NULL`, `claimed` and `stale` have it set, before and
after the visibility timeout. `NotPending` is `ON CONFLICT DO NOTHING` on
`jobs_pending_dedup`, `WaitsForWriter` its wait for an uncommitted row, `Survivors`
the `DISTINCT ON` of a release. `not_before` is left out: a pending job may be taken
at any later moment.

`EmbedQueue` adds sessions that insert, update, delete and re-key rows in open
transactions (`tx`), TRUNCATE, `enable`, `disable`, `set_format`, `retry_dead`, the
dropped vector column with the quarantine it causes, and the worker: claim with
reclaim and deferral, outcomes of the network phase, the batch write-back, the
row-by-row retry, the release, aborts of each and a crash anywhere. A text is the
number of the statement that wrote it, so "the vector is of this text" is an
equality of numbers. A write-back is two steps, because it reads the entry and then
waits for the relation lock.

### LiveMigration

One column-mode entry that migrates to another model: `migrate()` in two steps
around its lock, batches of either strategy behind a watermark, routing of fresh
writes to the scratch column, finalize, abort, failure, quarantine, `disable()`, and
columns dropped by hand. Statements are atomic here and attempts are left out.

### ChunkRefresh

A chunked entry: the triggers that delete chunks and queue a refresh, the refresh
transaction that locks the row, splits and replaces, child jobs keyed by chunk, their
write-back, TRUNCATE, `set_format`, `retry_dead`. Client transactions are open between
statement and commit and wait for each other and for the worker's row locks where
PostgreSQL makes them.

### AdoptedEntry

`adopt()` with each backfill mode, observed entries, promotion (two steps),
`set_format`, the cursor pass (two steps) and the worker. `owed` is a history
variable: the keys whose vector postvec has undertaken to write. A key leaves it when its
vector, or a dead letter of the text it is owed for, is written; dead letters survive
TRUNCATE.

### WorkerWake

The worker process from latch to transactions: `worker_kick` and the commit callback
that sets the latch, the version gate, pause and inference gates, the drain loop, the
schema guard in every transaction, heartbeat, crashes, respawns, package and
extension upgrades, prepared transactions, lock timeouts, a catalog that cannot be read, and the wait of a release for
a writer's uncommitted job of the same row. `owed` holds the committed
jobs whose kick was for the running process.

### ManagedQueue

Servers compete for a leader lock, and the leader runs claim, read with `xmin`,
inference, guarded write-back with its two retries, release. Lost locks, crashes and
rejected batches may happen at any step. `attempts >= 5` of the code is `JobTable`'s
limit with `MaxRetries` = 4.

### ModelStore and ModelSwap

`ModelStore` is what the commands promise: the installed revisions change by whole
batches. `ModelSwap` is how they do it: the record in `.swap`, one rename at a time,
the engine's verified unload and load, confirmation, rollback, recovery by the next
command, `rm`, `activate`, `deactivate`, with a command that dies at any step, lost
answers, models that do not load, failed renames, engine restarts, and `.swap`
directories that cannot be removed, which leaves a superseded copy parked. A root may
also begin with such a copy. `StoreSpec` is the abstract specification under the
refinement mapping: a pending batch counts as the revisions from before it. It says what
becomes of a leftover: a batch that would replace its model is given up, that model gets
the leftover copy, and every other model keeps its revision.

### EngineLoad and EngineAdmission

`EngineLoad`: the startup scan and concurrent `load_model()` calls as stacks of frames
(a load first loads its dependencies), the commit gate, publication step by step with
its rollback, dropped futures, native loads left behind, and synchronous unloads in
between. `orphaned` is a history variable: the models that the startup built before
their dependency was dropped. `EngineAdmission`: the admission semaphore, pool leases,
closures on blocking threads, nested predictions of a bridge and its own failures between
them, deadlines, cancellations, unloads, and loads that publish a new pool (`gen`) beside
the one that earlier calls still hold (`pool`).

### InferenceServer

A request from its wait for the ingress to its written body: admission, dispatch,
the response slots of the engine path, the response bytes, provider permits,
sub-batches and retries of the gateway path, deadlines and resets; and `providers
reload`, run by several reloaders at once, each in steps: build the snapshot, swap it in,
count its budget, raise the granted budget (`fetch_max`), add the permits. A snapshot gives
a provider its cap and its model's dimension.

## Runs

| run | instance | what it checks |
|---|---|---|
| `queue` | 2 keys, 1 session, 2 job ids, 2 texts, batches of 2, 1 retry, 1 re-enable | the partial unique index, the retry limit, the batch owns its jobs, the whole inductive invariant, no key loses track of its text, dead letters stay |
| `ready_stale` | 1 key | the documented readiness test does not imply current vectors (a violation, below) |
| `migration` | 2 keys, 2 models, 1 migration, 2 statements, batches of 1 | registry and migrations agree, models do not mix in a column, no row is lost |
| `chunks` | 2 documents, 2 clients, 2 chunk ids, 2 texts | chunks and their vectors are of the committed text, no document is lost |
| `adopted` | 2 keys, feeds and batches of 1, 2 operations, every mode and call | owed vectors stay tracked, get written, the cursor ends |
| `swap` | 2 models, 3 revisions, 4 roots (one with a copy left parked), 2 commands, 3 faults of every kind | recoverable, the engine serves only what is installed, refines `ModelStore`, settles |
| `swap_leftover` | the same models, pulls only, 2 removals of `.swap` that fail | a leftover is not harmless (a violation, below) |
| `managed` | 2 servers, 2 keys (one stored), 1 statement, 1 fault | types, no row lost, only current vectors written, everything settles |
| `wake` | 1 key, 2 job ids, 2 versions, 1 crash | version guard, no kick lost, jobs served |
| `engine_load` | a bridge over a converter over an embedding model, 2 callers after a scan | nothing half registered, one native load at a time, the startup and the resolver, success means ready, loads return |
| `admission` | a bridge request and one for the model it embeds with, limit 1, 2 threads, one instance per pool, that model loaded again once | roots and instances within limits, no leak, completion |
| `server` | 2 requests, an ingress of 1 to begin with, engine and a provider, 2 reloaders that add, widen or remove it, 1 retry, 2 sub-batches | budgets, caps, ingress, every call answered |

Each bound is the smallest at which the cases in question occur: two keys for
re-keying and for batches that partly fail; two job ids for a claimed job next to its
pending twin; two texts for a stale vector; a retry for an attempt that is not the
last; two callers, requests, servers or clients for a race. Every property has been
seen to fail when a definition is replaced by its `Faulty:` variant
(`PROJECT.json`, `mutants`), so each run reaches the states it is about. The theorems
below remove the bounds for the safety properties they state.

Deadlock is checked only in the two `ModelSwap` runs, whose commands always go on; the
other systems really come to rest when the bound on statements, crashes or requests
is used up.

### What the properties except

`StaysTracked`, `ModelsKept`, `RowsKept` and `DocsStayCovered` say "no step loses ...
except", and the exceptions are behaviours of the code:

- `Overtaken` (`EmbedQueue`): a trigger relies on a pending job which is claimed and
  read before the writer commits; or a row is re-inserted with a NULL source, which
  queues nothing, while its old text is in the batch. `ready_stale` is the first of
  these, against `web/docs/concepts/consistency.md`.
- `Resurrected`: a re-enable while a write-back of the disabled entry waits for a lock.
- `Replaced`, `Doubled` (`LiveMigration`): a write-back or a batch whose migration was
  replaced between its read and its lock; two migrations at once after the scratch
  column was dropped by hand.
- `Orphaned` (`ChunkRefresh`): an insert relies on the refresh job of a deleted
  document, which the worker finishes before the insert commits.

- `orphaned` (`EngineLoad`): a model the startup built before its dependency was dropped
  for a failure of its own (below, under disagreements).

Constants exclude behaviours in which a property fails:

- `Overlap` = FALSE: a promotion that overlaps `set_format()` loses vectors.
- `ReuseKeys` = FALSE: a key deleted and inserted again in managed mode can lose its row.
- `Unfit` = {}: a batch entirely above the byte ceiling ends the drain and leaves other
  kicked jobs to the poll interval, so `NoLostKick` fails (below, under disagreements).
- `Faults` without `restart_rm`: an engine that restarts between `rm`'s verified unload and
  its last rename serves removed models until its next restart, so `EngineServesDisk` fails.
  The other restarts are in.

### Fairness

Liveness assumes what the scheduler and PostgreSQL give. `adopted`: the worker's loop
takes jobs oldest first, so a job that stays pending is taken (strong fairness of the
claim that contains it), and the cursor gets its pass every turn. `swap`: commands run
on and operators run more of them; the engine's lifecycle mutex is fair. `managed`:
transactions end, the visibility timeout passes, a server's loop goes on. `wake`: the
process runs, poll interval, backoff and timeout pass, the launcher respawns; clients
owe nothing. `engine_load`: tasks are polled, native loads end, Tokio's mutex is first
come, first served (strong fairness of `TakeGate`). `admission`: tasks are polled and
native work ends; no deadline need pass. `server`: Tokio's semaphore is first come,
first served (strong fairness of `Admit`), time passes; nothing is assumed of the
engine's, the provider's or the client's answer.

## Proofs

The theorems below hold for every value of the constants that satisfies the named
`ASSUME` of the module (numbers that are numbers, model values that differ). Each is
proved from an inductive invariant: it holds initially, every action keeps it (one
lemma per action), and it implies the property. Each theorem module extends the module it is about, and
the properties it states are the ones the runs check. The `USE` at its head
names the provers a leaf tries in turn; a leaf that names one of its own needs it.

**`EmbedQueueProofs`, `EmbedQueueTracking`** (`EmbedQueue`). `Invariance`,
`TypeCorrect`, `PendingUnique`, `RetriesBounded`, `BatchOwnership`,
`DeadLettersStay`, `FullInvariance`, `NothingLosesTrack`. `OneUnclaimedPerRow` is not
inductive alone: that a claim, a release or a re-enable does not produce a second
pending job for a row needs to know which jobs the batch owns, that the batch's jobs are
claimed or reclaimed ones of its own registry id, and which rows an open transaction has
locked. `Inv` says these three things. `NothingLosesTrack` needs more, `FullInv`: versions
name texts, so an item with the version of its row was read from the row's text, and no
open transaction brings a version an item already has. The first half of
`EmbedQueueProofs` is lemmas about `JobTable`'s statements: what each insert, claim,
reclaim, deletion and release keeps.

**`ChunkRefreshProofs`** (`ChunkRefresh`). `NeverStale` and `NothingLosesDocs`. The
invariant adds to `ChunksCurrent` that chunk identities are given out once, that an open
transaction which has deleted its document's chunks has deleted all of them (a refresh
cannot slip new ones in, because it waits for the row), that no two open transactions
share a key, and that an item of the batch was rendered from the version its chunk is of
as long as the chunk lives.

**`AdoptedEntryProofs`** (`AdoptedEntry`). `OwedStaysTracked`, assuming `~Overlap`. The
invariant adds that triggers and registry agree on the format, that a pass of the cursor
works from the watermark stored, and that a promotion holds the format it read. That a
bounded feed takes a prefix of the rows past the watermark is a lemma that
rests on the well-foundedness of the naturals.

**`ModelSwapProofs`, `ModelStoreProofs`** (`ModelSwap`). `AlwaysRecoverable` and
`Implements` (the refinement of `ModelStore`, initial states, every step and stuttering)
hold for every set of faults, removals of `.swap` that fail included, and for every root to
begin with. What a leftover can do is in the statements: an undecided batch can be rolled
back to what was installed before it, but for the models it replaces over a copy left
parked, which get that copy. The invariant ties record, parked and installed directories
to the state before the batch at each step of a command, and says of a command that waits
for the engine what must hold when the reply comes. `AlwaysServesDisk` assumes only
`NoRestartInRm` (see above) and has an invariant of its own, `EngineInv`: outside a
batch every resident model is the installed one; inside, only what the batch replaces may
be stale; between `rm`'s unload and its last rename nothing that goes is resident. A
directory moves only when no deactivated replacement is resident, and a batch
is confirmed or cleared only when the load it asked for found each of its enabled models
not resident and loaded it. The awaited request is the last in the engine's queue, so a
load whose client gave up cannot come between an unload and the renames it allowed.

**`EngineAdmissionProofs`** (`EngineAdmission`). `AdmissionHolds`, `PoolHolds`,
`CapacityReturns`. The invariant determines who holds a permit and an instance from the
states of futures and closures, for each pool a model has had; capacity cannot leak because whatever holds it is still
running.

**`InferenceServerProofs`** (`InferenceServer`). `IngressKeepsUp`, `EngineResponsesFit`,
`CapsHold`. The first needs that, at any time, the current snapshot's budget has been
granted, or some reload that will grant it has not counted yet, or has counted this very
snapshot. The others need what a request holds at each place of its handler, also after
the snapshot it resolved was replaced.

### Only model-checked

- Every liveness property (`OwedSettles`, `CursorEnds`, `RecoverySettles`, `Settles`,
  `JobsServed`, `LoadReturns`, `Completes`,
  `EveryCallAnswered`): the proof system has no rules for fairness and `ENABLED`.
- `ProviderResponsesBounded` bounds a sum over the requests. What a fold over a set adds up
  to is an induction over data, which is out of the installed provers' reach.
- The safety properties of `LiveMigration`, `ManagedQueue`, `WorkerWake` and `EngineLoad`
  have no proofs yet. `ManagedQueue`'s invariant would be that of `EmbedQueueProofs` with a
  second server; `LiveMigration`'s relates three vector columns through every call.

## Findings

Two runs are refuted by TLC.

`ready_stale`: `web/docs/concepts/consistency.md` line 35 says "Ready means
`pending_jobs = 0`, `dead_jobs = 0` and `filled = total`". An UPDATE whose trigger meets a
committed pending job queues nothing (`ON CONFLICT DO NOTHING`) and does not lock that job.
If the worker claims and reads it before the update commits, it embeds the previous text;
the update then commits without a job. The entry is ready by the documented test, with a
stale vector, until the row changes again.

`swap_leftover`: `registry/client/src/root.rs` lines 799-800 say of the parked predecessors
of a confirmed batch "so a leftover directory is disk usage, never a correctness question".
`discard_swap` and `pending_swap` ignore a `remove_dir_all` that fails. When it has removed
`txn.json` and left a parked directory, the next upgrade of that model cannot rename over
it (line 639), and `restore_swapped`, which asks only whether a parked directory exists
(line 671), puts the leftover over the installed, newer revision.

### Other disagreements met while modelling

The models follow the code in these, and the properties are stated for what the code does.

- `build_executors` (`engine/src/lib.rs:764-790`) drops a model whose build fails and does
  not look again at the models above it. With a chain of dependencies and the order of a
  hash table, a model stays resident over a dropped dependency. The test at line 1231 says
  of its two-model case "Parent cannot be built, so it is dropped rather than left resident
  and unusable". `StartedWhole` excepts the `orphaned`.
- `server.rs:551-552` calls the size of a provider's response "exact, not best-effort". The
  gateway takes its snapshot after the sizing, so a reload in between that widens the model
  makes the response larger than what was reserved. `ProviderResponsesBounded` does
  not count such responses (`Widened`).
- `server.rs:984-989` says that the time a request waits behind the cap is charged to its
  deadline. `ResponsePermitService` (line 846) stamps the deadline in `call`, after
  `poll_ready` has waited. `Admit` gives the full budget; `EveryCallAnswered` starts at the
  queue and assumes that Tokio's semaphore is first come, first served.
- A reload makes new semaphores (`gateway.rs:346`), and calls in flight keep permits of the
  old ones. `web/docs/limits.md:43` and `web/docs/models/providers-file.md:386` say
  "`max_concurrent` bounds calls in flight"; the calls of two snapshots together can exceed
  it. `ProviderCap` is one of each snapshot.
- `run_one_cycle` "Returns whether any jobs were claimed (i.e. whether the queue may still
  hold work)" (`postvec/src/worker/mod.rs:1223-1224`). It returns false when every job of the
  claimed batch was above the ceiling, and the drain ends with jobs due (`Unfit` above).

## Abstractions

- Texts, vectors and models are version numbers or model values; tokenizers, tensors,
  prices and wording do not appear. Time is a choice: a timeout may pass whenever it is
  running.
- `EmbedQueue`: one entry, one worker. The round-robin over entries and keys that do not
  cast back to their type are left out. `LiveMigration`: the run converts; re-embedding
  differs only in which rows a batch takes.
- `ManagedQueue`: no migrations, chunked entries or maintenance passes.
- `WorkerWake`: one enqueue per client transaction; process ids are not reused; DROP and
  CREATE EXTENSION are left out.
- `ModelSwap`: renames reach the disk in the order they are made; there is no power loss
  that reorders them. A parked directory is there or not: one that is partly removed, or
  empty, counts as there with its revision. Dependencies between models, `--path` targets without an engine and
  package-owned models are left out.
- `EngineLoad`: dependencies form no cycle. Names a failed startup load leaves in the resolver stay until the next rebuild,
  as in the code.
- `EngineAdmission`: each request is predicted once; a model loaded again has the pool size
  it had, and its load and unload are one step each (`EngineLoad` has theirs); instances are created lazily within
  the lease; `Limit < Threads` (the embedded server clamps the limit to 16, and its pool
  has 32 threads). A deadline ends the waiting and not the native work, so closures of
  nested calls can outlive the request that made them.
- `InferenceServer`: one row per request, one model per provider file, embedding and
  conversion share their actions. Native work that goes on after its caller timed out holds
  no response and is not counted; `EngineAdmission` has it. Tower and Tokio are external and modelled from how they are used.

## Not modelled

Search and lexical ranking (read-only queries over scores), index builds (one at a time
under the worker's lock), the model cache, the managed proxy and installer, the inference
node's gossip (a library), provider request formats, registry schema and archive parsing,
packaging. `PROJECT.json` lists each with its reason.

## Running

    tlc -workers 2 -config EmbedQueue.cfg MCEmbedQueue
    tlapm EmbedQueueProofs.tla

`PROJECT.json` names module and configuration of every run. The runs take from a few
seconds to about four minutes each, the proofs of a module from one to about ten.

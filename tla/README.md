# A verification of QueQiao-Router

QueQiao-Router is an HTTP gateway in front of LLM upstreams. It routes a request
to one of several configured clients, fails over between them and between
models, streams the answer back, and keeps an audit record of every request in a
monthly rotated database that its analysis pages read. This directory holds TLA+
models of its stateful parts, TLC configurations that check them on small
instances, and TLAPS proofs of the most important results for every value of the
constants. `PROJECT.json` is the machine-readable index: components, runs,
mutants, the map from definitions to source lines, findings, hazards, theorems.

Paths below are relative to the repository's `src/` directory.

## 1. Inventory

| Component | State it keeps | Operations | What makes it hard |
|---|---|---|---|
| Circuit breaker (`services/circuit_breaker.rs`) | a mutex-guarded map client -> failures, opened_at, backoff_level, probe_in_flight; the health configuration | configure, allow, record_success, record_failure | the result of a call is recorded after an await, by whichever request got it |
| Dispatcher (`services/dispatcher.rs`) | per request: the current model, its clients, what was tried, the last response | execute, the client chain, fallback | interleaved requests, a dropped future, a reload in the middle, a loop over models |
| Audit writer (`db/writer.rs`) | bounded queue, batch, timer, store, next id, statistics | enqueue, flush, seal, resume, reset, shutdown, the select loop | two channels, retries, failed commits, one command while another is served |
| Models cache (`services/models_cache.rs`, `handlers/model_handler.rs`) | two concurrent maps: entries and refreshes under way | lookup, previous_value, insert, begin_refresh, complete_refresh, wait_for_leader, list_models | check-then-act on concurrent maps, missed notifications, leaders that disconnect or panic |
| Configuration manager (`config/config_manager.rs`) | current configuration, its generation, last fingerprint | watch, poll, reload_if_changed | a file that changes while it is read, two reloaders |
| Rotation (`db/rotation.rs`, `db/records.rs`, `main.rs`) | active month, next boundary, rotation lock, the files | check_and_rotate, rotate_if_needed, rotate_locked | races at the month boundary, a step of several failing, a crash between two |
| Archive registry (`db/archive.rs`) | registered shards, failed names | ensure_scanned, register_shard, candidates, quarantine | a query across a rotation |
| Rollup (`db/aggregate.rs`, `handlers/analysis_api/rollup.rs`) | per-day aggregates, a cursor into the active file | ensure_active, apply_deltas, active_caught_up, read_slice, analyse | a cursor that races the writer and the rotation, reused inodes |
| Request handling (`handlers/common_handler.rs`, `client/proxy.rs`) | per request: attempts, the last answer | validation, sends with retries, whole answers | which trace each way out leaves |
| Streaming (`handlers/stream_handler.rs` and its two siblings) | outcome, terminal flags, the logger's channel | poll_next of nested streams, the logger tasks | end, error and disconnect race for the audited status |
| Thinking transformer (`handlers/thinking_transformer.rs`) | inside a tag or not, text held back | transform_message, transform_delta, finalize | tags torn between chunks |
| Record extraction (`db/extract.rs`, `db/session_fingerprint.rs`) | a cache of fingerprints | extract_request, extract_response, header_meta, conversation_fingerprint | byte limits in multi-byte text, blank headers |
| Record queries (`db/records_query.rs`, `handlers/records_api.rs`, `handlers/session_timeline_api.rs`) | the client's cursor | list, detail, timelines | pages over files that are written and renamed |
| Migration (`db/migrate.rs`, `db/legacy.rs`, `db/migrate_verify.rs`) | lock file, stage, target, backup | snapshot, convert, copy, verify, replace | kills and power losses, an older program that writes |
| Client selection (`client/routing.rs`) | none | select_clients | weights, keys, least connections: a pure order |
| Metrics (`metrics/`) | gauges, sliding windows, a lossy channel | middleware, worker | loss is by design |
| The rest: SQL text, log files, routes, the web front end | | | conversions and I/O |

**Interactions.** A handler calls the dispatcher with a callback that performs
the upstream call; the dispatcher reads the configuration manager's current
configuration and the breaker registry. Handlers and stream loggers call
`log_request`, which first lets the rotation look at the record's month and then
enqueues it with the audit writer. The rotation seals the writer, renames the
database file, opens a new one and resumes the writer with it. The analysis API
reads the active store, the archive registry and the rollups. `/v1/models` uses
the models cache, keyed by the configuration's generation. `main` shuts the
writer down after the server has stopped.

**Correctness, component by component.** Breaker: probes are not lost, no backend
is locked out. Dispatcher: every request is answered, no call is made twice, a
reload takes effect. Writer: no record vanishes uncounted, ids are dense, flush
and seal are barriers, nothing is written while sealed, nothing stays in memory.
Models cache: one refresh per key, no foreign and no older list, waiters are
released. Rotation: only past months are archived, no archive is replaced, the
writer writes to `record.db` and is not left sealed, a query reads every row
once. Rollup: equal to the aggregate of the raw rows. Request: counted once,
audited with a truthful status and the text that was served, converted the same
whole or in pieces, ended by an error. Migration: no record is lost, what is
served is complete, a retry succeeds. Records: pages are exact, timelines follow
conversations, summaries are those of their exchanges.

The hazards, each with the line where it bites and the properties that cover
it, are in `PROJECT.json`.

## 2. Modules

| Module | Models | Extends |
|---|---|---|
| `CircuitBreaker` | the registry: state and operators for its four operations and the cooldown | |
| `Dispatcher` | `execute` for several requests over the registry, reloads, disconnects | `CircuitBreaker` |
| `AuditLog` | abstract: what the audit writer promises | |
| `AuditWriter` | the writer task, the log tasks, the callers of its control channel | instantiates `AuditLog` |
| `ModelsCache` | `list_models`, the refresh tasks and the two maps | |
| `Rotation` | the files: log tasks, rotation, restarts, registry, a query | |
| `Rollup` | the builds of rollups and an analysis, beside writer and rotation | |
| `Thinking` | the transformer of thoughts, as operators | |
| `Request` | one request through handler, stream, client and logger | `Thinking` |
| `Extract` | what is extracted from an exchange, as operators | |
| `Records` | lists, details and timelines over files that change | `Extract` |
| `Migration` | the upgrade of a database to the v8 schema | `Extract` |
| `MCDispatcher`, `MCAuditWriter`, `MCModelsCache`, `MCRotation`, `MCRollup`, `MCRequest`, `MCRecords`, `MCMigration` | instances for TLC | |
| `DispatcherProofs`, `AuditWriterProofs`, `ModelsCacheProofs`, `RequestProofs`, `RotationProofs`, `RollupProofs`, `MigrationProofs`, `RecordsProofs` | theorems | the module named |

Definitions named `FailedKeepsProbe`, `LeadAlways` and the like, introduced by a
comment "A bug:", are mutated forms of the definition that follows them. They
are used by no specification; `PROJECT.json` lists which property notices each.

### CircuitBreaker and Dispatcher

Every operation of the registry locks one mutex, hence is one step. An entry's
`opened_at` and the clock become `"closed"`, `"cooling"` or `"cooled"`;
`CooldownElapses` is the passage of time. A backend without an entry behaves as
one whose entry is `New(url)`, so the map is total. The cooldown depends on the
configuration of the moment it is compared, not of the moment the backend
opened: `Configure` may turn cooled backends back to cooling, if the new
configuration is more patient. The registry starts with
`HealthCheckConfig::default()` and not with the file's settings, as the code's
does.

A request walks through `configure` (it holds a snapshot of the configuration,
which may already be old), `resolve`, `chain` and `calling`. Each is separated
from the next by an await of the code. Between two awaits the chain skips any
number of backends; each skip locks the registry anew while other threads run
other requests, and is a step of its own. The order of
the candidates is any order: `select_clients` returns a permutation in each of
its strategies. `Answer` takes an outcome; note that the callback returns an
upstream 5xx as `Ok`, that it is then classified `RequestRejected`, is recorded
as a success and is kept for passing through (`"fault"`). `Disconnect` is the
web server dropping the handler's future at an await, which runs no code of
`execute`.

### AuditWriter and AuditLog

Actions follow the writer task from await to await. `pc` says where it is,
`job` which command it serves; `Continue` and `Drained` are what the code does
after a flush, depending on both. `try_recv` is one step per record because the
log tasks push concurrently. Transactions fail in two ways: leaving the
connection clean, or inside an open transaction (a failed COMMIT is not rolled
back; a failed ROLLBACK is ignored), after which every BEGIN fails. The callers
are the ones that exist: a rotation (one at a time, under its lock), one user of
the test API, and `main`.

`AuditLog` knows none of that: records are accepted, leave from the front in
groups of at most `BatchSize` that become the next rows of the current store or
are lost as a whole, and nothing is written while no store is current.
`AuditWriter` implements it (`ImplementsLog`) with pending mapped to batch and
queue together, except that during a reset everything that is still in, or
arrives in, the queue counts as thrown away at once.

### ModelsCache

The handlers and refresh tasks run on several threads, so every access to a
concurrent map, to the `done` flag and to the `Notify` is a step. A model list is
identified with the number of the refresh that fetched it; a larger number is a
newer list. `insert` is three steps (size check with the choice of the victim,
removal, insertion). `RefreshGuard`'s drop is three more (flag, notification,
removal). A follower is at `wait`, `subscribe`, `recheck` and `parked` in
`wait_for_leader`; a notification reaches it from the moment it has created its
`Notified` future.

### Rotation

A file is a number and a path maps to one, so that a store that is open follows
its file when it is renamed, as a file descriptor does. The clock has a month and,
for the suffix of a second archive of a month, a second. `log` is where each
log task is in `log_request`: the record has its time (`Build`), one atomic load
decides between fast path and lock (`Check`), the second look and `rotate_locked`
happen under the lock (`Lock`), and the record is enqueued afterwards, in whatever
file is then active (`Enqueue`). `rotate_locked` is cut where it can fail or be
seen: seal and rename, `init_db`, resume. Each failing variant is an action:
`SealFails`, `RenameFails`, `InitDbFails` (before or after the file was created),
`ResumeFails`. `Restart` kills the process anywhere and starts it again. The
writer is seen through what `AuditLog` promises. A query is the four steps of
`collect_shards` and the reading of the files it collected.

What the model shows about the code beyond its properties: after a failed
`init_db` or `resume` the writer stays sealed until a later record or check, finding
the month still past, rotates once more; if `init_db` left no `record.db`,
`rotate_locked` returns at once and only a restart helps; with two
faults in a row the writer can be resumed onto a file that has become an archive
(`WriterInActiveFile` holds for one fault); a query that overlaps a rotation may
miss the file just archived or count it twice; two rotations of the same month in
the same second replace the suffixed archive; a quarantined archive's name stays in
`failed`, so that a later archive with that name is not read until a restart.

### Rollup

Everything in a rollup is a sum over rows, so `agg` says how often it counts each
row, per file and id; exact means once each. A build is the steps of
`ensure_active`: `ReadMaxId`, `CheckCursor` (which may clear), `ScanAfter`,
`ApplyDeltas`. Commits and rotations fall between them. `Inodes` may be handed out
again. An analysis splits its range into whole days and two windows, asks
`active_caught_up`, reads the slice or scans, then goes through the archives.
The rollup of an archive may be built at any time (`BuildArchive`): the registration
of a shard, the metrics and a scanning analysis all start that task, which leaves
nothing behind if it fails.
`settled` is a history variable: the last build was not disturbed and nothing
happened since. Rows committed between `ReadMaxId` and `ScanAfter` are aggregated
under a cursor that does not cover them. The next build would count them again; it
does not, because the time kept with the cursor is that of the last row scanned,
differs from the time of the row at the cursor, and makes the build clear the
rollup and start over. Two rows with the same millisecond defeat that comparison,
within a file and across a reused inode; the invariants leave them out (`SameTime`).
A request may come with the store of a file that a rotation has since retired
(`AskElsewhere`). Its build finds the cursor to be another file's, clears the rollup
and, if it fails then or its own file is empty, leaves the cursor: the next build of
the active file goes on from it, and the rows before it stay out of the rollup until
something makes a build clear again. `torn` is the history variable that marks this,
and the invariants have its negation as a hypothesis. It takes two requests:
with `MaxAnalyses = 2` TLC refutes `QuietBuildExact` without the hypothesis, with the
run's one request it does not.

### Thinking and Request

Texts are sequences of `Characters`, a constant that contains those of the tags;
the two tags are shortened to two characters that begin alike, which can still be
torn and mistaken for each other. The loops over a text are the recursive functions
`Blocks` (whole messages) and `Parsed` (a stream's piece with what was held back).
`Request` follows one request
from the middleware to its last trace. The states of `handler` are the awaits of
`handle_request_logic` and `dispatch_request`. A send fails in four ways, which
differ in who retries: `build_and_send_request` sends twice unless it timed out,
the two callers `..._with_retry` call it twice for a connection failure or a
premature close, hence up to four sends to one backend. A stream is driven by the
client, who may leave at any time; the upstream yields one event per step. The
logger task reads the channel concurrently, looks at the outcome, and looks again
when it writes. Before there is an answer the client may leave at every await
(`Disconnect`): the web server drops the future of the handler and of the middleware
around it, so that nothing after `next.run` runs (`access_log.rs:77`). The flush of a
`[DONE]` and the `[DONE]` itself are two items of the stream: what is `pending` is
given by the next poll (`QueuedDone`), and dropped if the client leaves before it.

Met on the way: the Anthropic logger reads the outcome twice after
`message_stop`, so that a metric of success and a record of 502 can go together;
a chat whose `[DONE]` is followed by an error is audited as 200 and measured as a
failure; a stream that ends without `[DONE]` never calls `finalize`, and what the
transformer held back is dropped; the Responses and Anthropic streams have no
`TerminateOnError`; a Responses stream left before `response.completed` leaves no
record; a whole answer with token counts sends two metric events and a refused
stream none; reasoning that follows content falls outside the tags; a request
that is abandoned before its answer is in no log at all; a chat left between the
flush and the queued `[DONE]` is audited as 200, since the outcome was settled when
the `[DONE]` was read; whole messages have a newline between the thoughts of two
blocks (`thinking_transformer.rs:30-32`), streams have none; and a whole message gets
the prefix before an empty content, too (`request_body.rs:259-262`), a stream before
a text only (`stream_handler.rs:836`). The properties name these limits, as
hypotheses or as the cases they allow; a stream without any content is compared
with a whole message whose content is null.

### Extract, Records and Migration

`Extract` has the extraction of an exchange as operators over texts of code points
whose width in bytes is that of UTF-8: prompt, tail and answer with their limits,
counts, session ids from headers and body, the fingerprint of a conversation. The
input of a Responses request is a list of items or one text; the text is extracted by
its own rule and gives no fingerprint. `Records` stores such records in files and
reads them: a page of a list is one step, since each query runs against one snapshot,
and between pages records are committed and files rotated. The first file may begin
with migrated rows, whose `TimeMs` is NULL where the old text could not be read
(`Untimed`). Three gaps of the code are named in `PagesExact`: a list without a range
reads the active file only and loses the rest at a rotation; records of two files with
the same time and id are told apart by the name of their shard, which a rotation
changes; and of the records without a time, which come last, a list shows only those
that its first page has room for: a cursor's comparison is not true of them
(`records_query.rs:331`), a page whose last record has no time has no next cursor
(510-514), and a range leaves them out altogether. The timeline of fingerprints reads
page by page up to a cap (`SCAN_CAP`) and likewise reaches the untimed rows of its
first page (`PAGE_MAX`) only. Migrated rows whose body cannot be parsed are left out.
`TimelineExact` is about one file: the cache is keyed by the id alone
(`session_fingerprint.rs` says it needs no invalidation) and ids restart with every
file. A session's timeline reads the newest 500 records of the active file, although
the comment at `session_timeline_api.rs:5` describes a query by session.

`Migration` has a directory of names, inodes with contents, and what survives a power
loss: contents that were synced, and any directory since the last sync. A process
walks through lock, detection, snapshot, conversion, copy, verification, sync, backup
(a hard link or a copy), rename, sync of the directory and clean-up; each step may
fail, and the process may be killed at each; either way it is started again, and goes
by what it finds on the disk. The older program opens and closes the database, puts it
in WAL mode if it likes (`wal`), begins, commits and rolls back transactions. The
snapshot takes the database out of WAL mode first (`migrate.rs:512`), which fails
while another connection has it open in that mode, be it idle (`WalBusy`). Then `BEGIN
IMMEDIATE` (phase `"reserve"`) fails during a transaction (`SnapshotBusy`) and keeps
the older program out until the rename; a database that went back to WAL mode between
the two fails at the replacement, which refuses one with sidecars (`NotDrained`).
Every row that the older program adds is about another member of `Exchanges`, a
sequence, which may name the same contents twice. What `NoRecordLost` does not
promise: records the older program writes after the cut-over go to the inode that is
then the backup; a backup made by copying is not synced; a failure after the rename is
reported as a failed migration although the new database is in place. A new file has
any inode that no name, no directory that may come back and no connection refers to;
which of the free ones is immaterial, hence CHOOSE. `--resume` and `--limit` of the
command line skip the verification and are not modelled. Migrated rows have uncapped
search texts, native ones are capped (`legacy.rs:5` calls them the same).

## 3. Runs

| Run | Instance | Distinct states | Shows |
|---|---|---|---|
| `dispatcher_failover` | 2 requests, 2 models, 2 backends, a fallback | 171,496 | types, no call repeated, every request answered |
| `dispatcher_reload` | 2 requests, 1 backend, 4 configurations, 2 reloads | 114,854 | probes lost in two ways only, a reload takes effect, recovery |
| `audit_writer` | 3 records, 2 stores, queue 2, batch 2, 1 retry | 884,562 | accounts, ids, seal, barrier, refinement, memory empties |
| `models_cache` | 2 requests, 1 credential, 2 generations, 3 refreshes, capacity 1 | 265,483 | singleflight, own and no older list, requests end |
| `rotation` | 2 log tasks and the check, 2 months, 2 seconds, 3 records, 1 fault, 1 crash, 1 query | 799,748 | past months only, archives kept, writer in `record.db` and a query exact with one fault, seals end |
| `rollup` | 2 files of 2 rows, 4 ms in days of 2 ms, 2 inodes, 1 fault, 1 analysis | 4,723,784 | unless torn and with distinct times, a quiet build is exact, an analysis over a settled rollup is a scan |
| `request` | 5 APIs, 3 targets, prefixes, 2 backends, 4 upstream events, 7 texts | 1,591,018 | counted once, truthful status and text, pieces as a whole, errors end streams |
| `migration` | 2 processes, an older program, 2 rows, batches of 1, 7 inodes, 3 backups, 2 faults | 772,586 | no record lost, complete when served, served in the end |
| `records` | 2 conversations of 2 and 3 turns, 4 records, up to 2 of them migrated, 3 files, pages of 1, timelines of 3 records in pages of 2, cache of 2 | 464,308 | pages, timelines and summaries |

Refuted claims, each from a sentence or a test of the repository:

| Run | Claim | Counterexample |
|---|---|---|
| `dispatcher_cycle` | `DEVELOPER.md:35`: retried until success or until alternatives are exhausted | two models fall back to each other and all calls fail |
| `audit_shutdown` | `docs/WRITE_BATCHING.md:11`: shutdown flushes the queue first | a batch fails and the drain stops; or the writer is sealed |
| `rollup_rotation` | `docs/DATABASE_SCHEMA.md:197` and `rollup.rs:5`: the same results as the scan | after a rotation and before the next build, the old file's rollup is read as the new file's |

Divergences that were met and have no run of their own:

- When all clients of a model are cooling down, the chain answers 503 before the
  fallback model is looked up; `DEVELOPER.md:35` has it tried
  (`AllCooling` of `Dispatcher`).
- A caller who leaves during a half-open call leaves `probe_in_flight` set, and the
  backend blocked, although `dispatcher.rs:414` says it recovers by itself
  (`ProbeLostOnlyByDropOrDisable` names the case, and `RecoversUnlessProbeLost`
  excludes it).
- A late failure of an earlier request clears the flag of a probe that still runs,
  so that a second one starts; the test `only_one_request_enters_half_open_state`
  covers the sequential case only.
- Two refreshes of different keys exceed the "hard cap" of `models_cache.rs:14`, and a
  full cache evicts whichever entry its iterator yields first, not "the
  least-recently-written entry".
- `AUDIT_MAX_ATTEMPTS` is read but `flush_with_retry` uses a constant 3.
- An upstream's 5xx is recorded as a success of the backend.
- `docs/API_ANALYSIS.md:97` adds up the requests of a period from the records and
  the error log; those that their client abandoned before an answer are in neither
  (`CountedOnce` names them).
- `docs/DATABASE_SCHEMA.md:44` has the migration merge the WAL of the old database and
  hold the write lock until the cut-over; it does so only while no other connection
  has the database open in WAL mode. An older program that keeps one open, idle, makes
  every attempt fail (`EventuallyServed` excludes that case).
- Those named with the modules above.

**Bounds.** Two requests suffice for every race between a request and another one, and
slots are reused, so that a late result of an old request meets any number of new ones.
Two backends and two models give a failover within a model, a fallback between models,
and a client shared by both. `MaxBackoff` 1 is enough to tell the first failure from
later ones; the level only scales a capped duration. `MaxReloads` 2 allows a change and
its revocation. In the writer, three records with batches of two and a queue of two make
a batch full, leave one over, fill the queue, make a sender wait, and let a drain need
two batches (with a queue of one it never does, and a drain that stops early goes
unnoticed); two stores make one rotation, and rotations to the same file when the rename
fails; one retry tells a retry from giving up. In the cache, three refreshes are a
refresh, its overlap with a second of the same key, and one of the other generation.
Bounds appear in guards only (`MaxReloads`, `MaxRecords`, `MaxRefreshes`); `Arrive` of
the cache keeps a refresh for every request under way, so that the bound stops no
request halfway.

In the rotation, two log tasks race for the lock at one boundary, three records leave
one behind for the second month, and six files cover a rotation, its repetition after a
fault and a restart; with a second month after that no new kind of step appears. Months
do not go back: a clock that does is left out. In the rollup, days of two milliseconds
have whole days and windows of every kind (empty, one at either end, both) within four.
Four upstream events let a tag be torn with text before and behind it, and an end follow
an error and an error an end; one of the texts is a whole block, so that a stream may
have two of them. Two rows and batches of one make a copy need two batches;
two faults are a failure and another one during its repair. At every backup one of three
names is still free, and seven inodes are never all in use, so neither bound stops a
step. In the records, four records over three files with two times give ties within a
file and between files; `Limit` 1 puts a page break between any two records; a scan of
three is exceeded, needs a second page of two, and has room for untimed rows on the
first page and beyond it; a cache of two is emptied.

**Deadlock** is checked for the dispatcher. It is not for the writer, which ends
at its shutdown, nor for the cache, where the bound on refreshes ends arrivals; the other
modules end with their bounds, or with their one request.

**Fairness.** Dispatcher: weak fairness of each request's progress (the runtime
polls it, and the HTTP client's connect and total timeouts end every call) and
of cooldowns (time passes). Arrivals, reloads and disconnects have none. Writer:
weak fairness of the writer task; nothing is assumed of log tasks or callers.
Cache: weak fairness of each handler and refresh task (a fetch has a timeout of
30 s); none of a follower's own 35-second timeout, so that `EveryRequestEnds`
shows the notification itself to be reliable. Rotation: weak fairness of the
interval's check (`main` ticks for ever), of the steps of a rotation, and of each log
task; none of records, queries, faults and the clock. Request: weak fairness of the
client's next poll of a stream that has terminated (it reads on, or its leaving
drops the stream) and of the logger tasks; none of the upstream. Migration: weak
fairness of each process, which is restarted when it fails, and of the older program
ending a transaction it has begun; none of faults. Rollup and Records have safety
properties only. Properties with an assumption on
traffic (`RecoversUnlessProbeLost`, `ConfigTakesEffect`) carry it as their
hypothesis.

## 4. Proofs

All theorems hold for arbitrary constants that satisfy the assumptions named in
the modules: configurations are well formed, the "none" values are not members,
the sizes are positive naturals, there is a credential, bounds are naturals.

**DispatcherProofs.** `TypeCorrect` and `BreakerShaped` are inductive with the
type invariant alone, once each operation of the registry has its type lemma and
its shape lemma; one step per action. `ProbeKept` is an action property: assuming
types, it goes through the actions and shows that an entry's `probe` is set only
together with a request marked as its probe, and that such a request stops being
one only by recording (which clears the flag), by being dropped, or while the
breaker is disabled. `NoCallIsRepeated` has a hypothesis, `Acyclic`: there is a rank
of the models that falls along every fallback of every configuration. It speaks of
all configurations together because a reload may come between two rounds of a
request, and the fallback of the second is looked up in the new one. Under it
`Onward` is inductive: the calls a request has made belong to models of a higher
rank, which it left, or to candidates of this round that it has turned to already.
The code does not enforce the hypothesis; `dispatcher_cycle` shows a configuration
without it.

**AuditWriterProofs.** None of the invariants is inductive alone. `IInv` adds:
the stores handed to the writer were opened (`StoreOpened`, needed since a resumed
store has to be one whose ids are known); each caller has at most one command in
the channel or being served (`OneCommandEach`); the command fits the place
(`JobFitsPc`), for instance that only a seal reaches the checkpoint; the batch
fits it (`BatchFitsPc`), which is why nothing is left in it when the writer seals
or leaves; a rotation between seal and resume has no other command under way and
the writer is sealed (`RotationSealed`); waiting records were offered and are not
queued (`WaitingOffered`). From it follow `RecordsConserved`,
`IdsStayContiguous`, `SealIsKept` and `BatchStaysTimed`.

`WriterImplementsLog` is the refinement, one lemma for each group of actions. A log
task's `try_send` or delivery is `Accept`; `Commit` is `Persist`, which needs
`IdsContiguous` (the batch's ids are the next of the store, so that a map from ids
to records becomes a longer sequence); a batch given up is `Lose`; the commands of
`main` and of a rotation are those of the log; moving a record from queue to batch,
timers, retries and the rounds of a drain are stutters. While a reset discards the
queue the mapping already counts it as gone (`Unsettled`), so that records arriving
meanwhile change nothing in the log.

`FlushesAreBarriers` needs two more invariants. `OfferedOnce`: what is pending, or
owed to a caller, has entered the channel and does not enter it again. `Barred`:
once the drain of a command has met the end of the queue (it flushes a batch
that is not full, or it has gone on to the checkpoint), nothing still in the queue
was owed when the command was sent. An answer without a lost batch then finds
the batch written and the queue free of what was owed.

**ModelsCacheProofs.** `IInv` says that a refresh that is not over holds its
key's slot and is the latest of that key (`Slots`, `Latest`), that lists are
stored under the key they were fetched for (`EntriesOwn`, `ListsOwn`), that a
refresh about to store has a list no older than the entry (`Newer`), and, for each
active request, that nothing it can still be given is older than what the cache
held when it arrived (`Owed`). `Slots` yields `RefreshIsSingleflight`. `Newer`
needs singleflight: with two refreshes of one key the failed one would put an
older list back. `ServedFrom` then classifies the steps in which a request ends
with a list, from which `OwnListServed` and `NoOlderListServed` follow.

**RotationProofs.** `RotationFits` ties the lock's holder to the disk: before the
seal there is a `record.db`, the month of the archive is over and its plain name
is free; after it the writer has no store; before the resume the handle that a new
writer gets is `record.db`. Without a fault, `db` is `record.db` except between
rename and `init_db`. A file has one name (`FilesDistinct`), a row is in one task,
in the queue or in one file (`RowsDistinct`), the registry has one shard for a name
and for a file and never the active one (`ShardsDistinct`). These make
`WriterInActiveFile`, `SealsPastMonths` and `PlainNamesKept` inductive. For
`QuietQueriesExact` the registry's ranges have to cover their files
(`ShardsCurrent`), which holds because nothing is written to an archive; and, at each
of its steps, a query that no rotation disturbed has every archive found, pending,
skipped or known to have failed (`QueryFits`).

**RollupProofs.** The crux is `StateFits`: the time in the cursor is that of the row the
last build *scanned* last, at or behind the row whose id is the cursor. So long as times
differ, the comparison in `CheckCursor` therefore succeeds only if the rollup counts
exactly the rows up to the cursor's id in this file. From it `BuildFits` follows (what
is counted when a build scans, and that what it adds continues it without gap or
overlap), and from that `QuietBuildsExact`, for any earlier sequence of builds,
failures, rotations and reused inodes. `AnalysisFits` follows an analysis: the files it
still has to read, and what the slice of whole days and the windows at both ends add up
to, for any range and any length of a day (`SliceExact`). Proving it brought the case of
`torn` to light, in which both invariants fail; once the next build has gone on, nothing
in the program's own state tells that case apart.

**RequestProofs.** `RequestsCountedOnce` rests on `CountFits`: an answer of 200 goes
with a logger task and any other with a line of the error log, at each await of the
handler, and 0 with neither, which can only stay so when the client has left.
`VerdictsTruthful` rests on `EndsFit`, which ties the
shared outcome to the ends the client was given or, while a `[DONE]` is queued behind
its flush, is about to be given, and on `LoggerFits`: the logger judges
when it has seen a final event or the end of a channel that the stream has
closed. For `RecordsAsServed`, `TextChain` says that the logger's text followed
by what is still in the channel is the client's text. What the transformer makes of a
chunk is left open in these three: they hold for any conversion.

`StreamsAsWhole` is about the conversion, for texts of any characters and length and
any cuts. First the recursive functions have to exist: `SizeRecursion` makes a
function by recursion on the length of its argument, as the union of its finite
approximations, from the fact that a set of naturals has a least member
(`LeastNatural`); `BlocksAre` and `ParsedIs` then allow one to unfold them. The heart
is `Composition`: parsing a text in two pieces, the second together with what was
held back of the first, is parsing it whole, wherever it is cut, inside a tag
included. `BlocksAgree` says that the parser of streams and `extract_think_blocks` of
whole messages, which are separate code, take a text with closed blocks apart alike.
The invariant is `StreamFits`: while no end has been given, the client has what a
whole answer with the text received so far begins with (`GivenPlain`, `GivenTagged`,
`GivenParsed`, one for each target), and the transformer remembers what is
missing, such as the beginning of a torn tag or a block that is not yet closed.
`PrefixOnce` has the configured prefix before the first text that is not empty, and
only there. The text a stream is compared with has the thoughts of several blocks
joined without the newline of a whole message (`Unbroken`, the `joined` of `Blocks`);
everything else is as `transform_message` makes it.

**MigrationProofs.** `Safe` says of *every directory that a power loss may bring
back* that its database is on the disk and tells every committed record; the
current one is among them (`DirFits`). `Told` says what it is to tell a record, in each
of the three schemas. `Phase` follows the one migrating process: from the reservation
on, the stage equals
the database, which is reserved and has no open transaction; the target has the
rows of the stage up to some id; before the backup the target is complete and
synced. Nothing is taken from the verification step, whose success the proof does
not use: it guards against faults of the copy that the model does not have. `AgeFits`
and `OldFits` keep the older program's connection away from stage and target and
say that only a database that has been migrated may fall back to another file.
What `Extract` computes is left open here: the column values of a row are a
function of its exchange.

**RecordsProofs.** `ListsAreExact` takes conversations, times and sizes of pages as they
come. A list in order is told by the rank of its members (`InOrderLists`), so that
nothing has to be proved by induction over a sort; a page merged from the pages of
several shards is the page of all of them together (`Merged`). The invariant is
`PagerFits`: nothing that was seen comes after the cursor in the list, and what is owed
and was not seen does, unless it is excused by one of the three gaps of the code. Rows
without a time rank below all others, so that a page with a next cursor has timed
records only, and behind such a cursor no untimed one is found. It holds
for both forms of cursor, time and id for one shard and time, id and shard for several,
and the proof of a rotation shows why the second gap is one: the active file's name
changes, so that records tied with the cursor change sides (`BeforeKept`).

`TimelinesAreExact` and `SummariesAreFaithful` are about conversations, and what the
code can tell of those depends on its clients. The hypotheses are stated
at the end of `Records` and evaluated by TLC for the instance of the run:

- `ExchangesProper`: an exchange ends with a message in words that is not of the system,
  the user's last message is in words, a plain prompt is one message, and no header or
  field has the value that stands for absence. Other exchanges, such as a chat whose
  last message has an image only, are not spoken of.
- `HistoriesResent`: a client that names no session sends its history again.
- `BeginningsDiffer`: two conversations of such clients differ in the system text or the
  first message, within what is kept of them. The fingerprint has nothing else to tell
  them apart by: without the hypothesis two users who begin alike share a timeline.

In `TimelineInv` every key that is cached or was told is the one of its record, and a
session's timeline is ordered and complete (`SessionFits`). It is inductive because the
key of a turn depends on the part of the history only that every later turn repeats
(`KeyOfHistory`). The theorem needs one file: ids restart with every file, and the cache
is keyed by the id alone. For `SummariesAreFaithful`, which needs only the first
hypothesis, `HeadFits` and `TailFits` show that the cuts at character boundaries stay
within the limit and `EndsArePreview` that the bytes kept and the bytes omitted add up
to the text; `SessionNamed` that a blank header hides no other name of the session.

**Only model-checked.** Liveness (`EveryRequestAnswered`,
`RecoversUnlessProbeLost`, `ConfigTakesEffect`, `MemoryEmpties`,
`EveryRequestEnds`, `SealEnds`, `PastMonthSealed`, `ErrorEndsStream`,
`EventuallyServed`): fairness and ENABLED are outside the prover. Every other
property of a passing run, invariant, action property or refinement, is the
statement of a theorem. The provers cannot instantiate the library's induction
theorems, which take an operator; where data of any length matters, the
proofs reason about the least counterexample, a member of a set.

`BreakerShape` (only an open backend has a probe or a backoff) and `BatchIsTimed`
(no batch waits without its timer) are proved and in no run: they support the
other results.

## 5. Not modelled

- SQL text, filters, full-text search, facets, percentiles, wording and log output:
  read-only, or conversions no property tells apart.
- Compression of payloads, rewriting of request bodies, audio uploads, routes,
  the dashboard, benchmarks: I/O or data.
- The metrics worker, its lossy channel and sliding windows: counters that nothing
  reads back.
- The fingerprint protocol of `reload_if_changed` and `validate_config`: a reload is
  one step. The orders of `select_clients`: any permutation.
- Crashes inside the audit writer's model (a crash loses what is in memory);
  `Rotation` and `Migration` have them. A COMMIT that reports an error although it
  is durable.
- FIFO order among senders waiting for the queue: any may be next. Records are
  numbered in the order in which their tasks offer them. The control channel's
  capacity of 32 is never reached by three callers.
- The two send attempts inside the dispatcher's callback are one call in
  `Dispatcher`; `Request` has them.
- The 10-second wait for the writer task's handle after a shutdown.
- The wrap-around of the 64-bit generation. `len`, `contains_key` and the
  iterator's first element in `insert` are one step.
- `--resume`, `--limit` and `--verify-only` of the migration's command line.
- History fields: `half` and `owed` in the dispatcher and the cache, `settled` in the
  rollup, `sent` and parts of `client` in the request, `owed` of the pager. None
  guards a step.

Assumed of libraries: a web server drops the handler's future when the client
disconnects; `Notify::notify_waiters` wakes futures created before it; tokio's
channels hand freed places to waiting senders; a write connection may stay inside
a transaction after a failed COMMIT or ROLLBACK; `rename` and `link` are atomic, and
what was synced survives a power loss.

## 6. Plan

Done: the dispatcher with its breaker, the audit writer, the models cache, rotation
and registry, rollups, requests and streams with the transformer of thoughts, migration,
extraction and queries, each with theorems for all of its safety properties. Left,
in this order:

1. `ConfigReload`: fingerprint, load and apply by two reloaders against a file
   that changes.
2. The orders of `select_clients` and the sliding windows as pure operators.

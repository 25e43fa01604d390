# agent-lens in TLA+

agent-lens is a local daemon that watches the session files and Hooks of coding
agents (Codex, Claude, Pi, Hermes, ...), keeps a small SQLite database of what
it may derive from them, serves a web interface, and runs Pi sessions of its
own. This directory holds TLA+ models of the parts where order, failure and
concurrency decide whether it is correct, the TLC configurations that check
them on small instances, and proofs of the central invariants for instances of
any size.

Paths below are relative to the repository (`src/`).

## 1. The system

### Components

| component | state | operations | talks to |
|---|---|---|---|
| Data Runtime client, `apps/daemon/src/data-runtime/client.ts` | pending map, timed-out marks, state (starting, ready, degraded, stopped), heartbeat | start, request, timeout, heartbeat, worker exit, shutdown | its Worker, by two FIFO ports |
| Data Runtime Worker, `worker.ts`, `storage-sqlite/src/executor.ts` | active transaction, connection, database file | call, begin, commit, rollback, ping, shutdown | SQLite |
| Slim Data Runtime, `slim-runtime.ts` | reads in flight | read, write, start, stop | one reader and one writer Worker |
| Pi Live service, `runtime-cordis/src/pi-live/service.ts` | runtimes (status, generation, handle, suspension, path), hydrations, timers | start, restore, subscribe, prompt, suspend, hydrate, restart, retry, DELETE, dispose | Worker processes, recovery store, pages (SSE) |
| Recovery store, `recovery-store.ts` | list of at most N recovery records, one chain of writes | put, remove, load | storage checkpoints |
| Pi Worker host and process, `worker-host.ts`, `worker-entry.mjs`, `adapter.ts` | process, handshake, prewarm slot | create, terminate, request, exit | the Pi SDK |
| Hooks, `apps/hook-codex/src/inbox.mjs` and others | inbox directory | write temporary file, rename | the Source's poll loop |
| Hook poll loop, `source-codex/src/runtime.ts`; Claude and Hermes alike | retry gate, current file | scan, read, archive, emit, acknowledge | archive, Source writer |
| Hook archive, `source-support/src/runtime-hook-archive.ts` | archived files and their digests | prepare (link, seal), acknowledge (unlink), read pages | file system |
| Native catalog and capture, `core-services/src/native-session-catalog-tracker.ts`, `native-only-runtime-capture.ts`, `native-only-source-indexer.ts` | throttle, catalog rows | observe, upsert, invalidate, scan | storage |
| Native metrics, `surface-http/src/native-session-metrics-http.ts`, `native-metrics-auto-refresh.ts`, `storage-sqlite/src/native-session-metrics.ts` | totals, error index generations, keyset cursor, cooldowns, unfinished scans | rebuild, replace, stage, publish, schedule | reader, storage |
| Native reader, `native-session-reader.ts`, `native-reader-worker-client.ts` | requests in flight | read page, cancel, time out | its Worker, session files |
| Source coordinator, `apps/daemon/src/slim-source-coordinator.ts` | rescan queue, captures | start, rescan, stop | indexer, watchers |
| Slim cutover, `scripts/slim-migrate-once.ts`, `slim-cutover-activation.ts`, `apps/daemon/src/default-slim-db.ts` | old database and its write lock, backup, staging, linked file, pointer | probe, backup, stage, freeze, audit, link, publish, roll back, resolve, create | old and new daemons, SQLite, file system |
| Integration packages, `integration-packages/src/service.ts` | install root, `current.json`, cached state, queue and history of operations | start, install, update, remove, verify, clean up | file system |
| Local backup, `backup-local/src/service.ts` | inventory in memory and on disk, content store, snapshots | load, rebuild, refresh, snapshot | agents' files |
| Live page, `web/src/features/use-live-task-runtime.ts` | settled and running items, cursor, requests in flight, believed state | connect, event, recover, look, send | event stream and snapshots of one live task |
| Live attachments, `live-codex`, `live-hermes` | connection, recovery cursors | attach, resume, send | other agents' servers |
| Sources, projections, protocol, replication, capture policy | none or configuration | parse, normalise, project, merge | - |
| Command line, desktop, other pages | - | user interface | the daemon's HTTP surface |

### What is hard, and what correct means

* **Data Runtime.** A synchronous SQLite call cannot be interrupted, so a caller may
  time out, retry or exit while its statement still runs. Correct means: a call
  settles, exactly once; what was acknowledged is on disk and nothing of a rolled
  back transaction is, though COMMIT and ROLLBACK may throw and SQLite may end a
  transaction itself; nothing starts for a caller that gave up; the bound on pending
  entries bounds the Worker's backlog; a slot comes back; a dead Worker is replaced,
  and a busy writer is not mistaken for a dead one.
* **Pi Live.** Ten kinds of handler run on one event loop and interleave at each
  `await`: idle suspension, restart on an external change, hydration, retry,
  exits, DELETE, dispose, checkpoints. Correct means: a handle is that of a live
  Worker; a ready runtime has a Worker or can get one back; initializations end;
  the recovery store has what was saved; DELETE is final; an orderly stop loses
  no task; a session file has one writer.
* **Hooks.** Files in a directory are the queue; the process may die between any
  two of link, seal, emit and unlink, and Hooks may write the same name again.
  Correct means at-least-once delivery, an archive of exactly the bytes emitted,
  no starvation by a file the archive always refuses.
* **Native metrics.** Files grow and are replaced while they are counted, by
  requests that fail in the middle, beside other rebuilds. Correct means: totals
  belong to the revision they name and count each record once; a session that is
  no longer a candidate is complete; failing sessions do not starve the others.
* **Live page.** The event stream replays nothing and its items have no identifier
  a snapshot knows; snapshots, recoveries, looks at the state and the user's own
  prompts overlap. Correct means: a page at rest shows every stored message once,
  whole, in order; what is shown does not vanish.
* **Cutover.** Migrations, a rollback and daemons share paths and a port, may die
  between any two steps, and an old daemon may still write. Correct means: what is
  activated has every row; the pointer names the one linked file; nobody serves
  half a database; a failure leaves the way free.
* **Packages.** A daemon may die between two renames while files are damaged and
  another daemon empties the transient directories. Correct means: the active
  version is whole, the cache agrees with it, a switch is atomic, work settles.
* **Backup.** Agents write while files are indexed and copied, by calls that share
  one mutable index. Correct means: a snapshot holds what a file really contained
  at some moment of it, and can be restored.
* **Source coordinator.** A start-up run, queued rescans and dispose share captures,
  and find in the database what they and others have written. Correct means: one
  capture per file, none after dispose, no installation forgotten, every call
  answered.

## 2. Modules

| module | about | lines |
|---|---|---|
| `DataRuntime` | client, ports, Worker and transactions of one Data Runtime | 506 |
| `DataRuntimeProofs` | types, late starts, promises, backlog, transactions, acknowledgements, clean-ups | 1800 |
| `PiLive` | the service: runtimes, Workers, recovery store, subscribers | 585 |
| `PiLiveInvariant` | its inductive invariant and the vocabulary of its proof | 276 |
| `PiLiveProofs` | types, readiness, recovery records, Workers and their runtimes, dispose | 2801 |
| `LiveTranscript` | the page of a live task, with the session and stream it reads | 469 |
| `LiveTranscriptProofs` | types, what the page at rest shows, what it never loses | 5774 |
| `HookDelivery` | abstract: each event is delivered before it is settled | 32 |
| `HookInbox` | Hooks, poll loop, archive, page reader | 299 |
| `HookInboxProofs` | types, sealing, refinement of `HookDelivery`, paging | 844 |
| `NativeMetrics` | catalog writers, rebuild jobs, lazy refresh | 459 |
| `NativeMetricsProofs` | types, exact counts, the catalog, settled sessions | 2388 |
| `SlimCutover` | migrations, rollback, and daemons that find their database | 303 |
| `SlimCutoverProofs` | completeness, one activation, whole databases, retries | 567 |
| `AtomicInstall` | abstract: the usable version is switched at once | 30 |
| `PackageInstall` | one official integration package over crashes and releases | 302 |
| `LocalBackup` | inventory, snapshots, content store | 269 |
| `LocalBackupProofs` | types, what a snapshot says, what it can restore | 1108 |
| `SlimReads` | writes, and the coordinator's read with its entry in flight | 50 |
| `SourceCoordinator` | start-up run, rescans, captures, dispose; extends `SlimReads` | 246 |
| `HostWorkProofs` | packages: active version, cache, refinement of `AtomicInstall`; coordinator: types, captures, dispose, what a run examines | 982 |
| `MCDataRuntime` | workloads of the Data Runtime runs | 22 |
| `MCLiveTask` | `PiLive` and `LiveTranscript` for TLC | 31 |
| `MCHostFiles` | `SlimCutover`, `HookInbox`, `LocalBackup` for TLC | 39 |
| `MCHostWork` | `PackageInstall` and `SourceCoordinator` for TLC | 40 |
| `MCPiLive`, `MCHookInbox`, `MCNativeMetrics` | the sets a configuration cannot write down | 29 |

Each module has one action per handler step: an action ends where the code
awaits, posts or returns. `PROJECT.json` maps each definition to its lines.
`MCLiveTask`, `MCHostFiles` and `MCHostWork` put components that share no state
side by side: an initial choice (`end`, `part`) says whose behaviour it is, and
the others stay as they began. The set of behaviours of each component is the
one it has alone, but for the bounds a module names (`MCLiveTask` ends the
service's behaviours before a dispose and the page's after two prompts and faults);
nothing is claimed of a composition there. Components that do
interact are composed: `SourceCoordinator` extends `SlimReads`, and `HookInbox`,
`SlimCutover`, `LiveTranscript` hold both sides of their protocol. Modules that
are extended side by side carry their own name in those of their formulas
(`PageNext`, `SourceSpec`, `InboxInit`, `BackupTypeOK`), so the definitions a run checks are
those the theorems state. `MCHostFiles` takes `LocalBackup` twice: as extended,
with overlapping snapshots of one file (`overlap`), and as the instance `Scoped`
with two files and one snapshot.

### DataRuntime

`pending`, `timedOut`, `outcome`, `state` are the client's fields; `inbox` and
`outbox` the two message ports; `busy` the request the Worker executes;
`activeTx`, `extTx`, `sqlTx`, `dirty`, `durable` the Worker's transaction id, the
executor's flag, SQLite's own state, the open transaction's writes and the file.
These three opinions of one transaction may part. `RollBackThrows` is a ROLLBACK that
throws: the executor clears its flag in `finally`, the Worker keeps the id
(`executor.ts:112-119`, `worker.ts:220,297`). `Commit` may throw in that way, or leave
SQLite inside the transaction. `TakenBack` is SQLite's own rollback after a failing
statement (a full disk, an I/O error), of which neither learns. `RollBack` is the
ROLLBACK that returns, which sends nothing if the executor is in no transaction.
The histories `lost` (what SQLite took back unasked) and `leftOpen` (a COMMIT threw
and left the transaction open) let the properties speak of all of this.
`Request` and `Resume` are `request()`, `RequestTimeout` the timer's callback,
`Expire(r)` the moment `deadlineAt` passes (the only clock), `Take` the Worker
receiving a message, `Call`, `Begin`, `Commit`, `Rollback` and `Close` its
handlers, `Crash` and `Exit` the end of the thread and the event that reports it.

Abstractions: a call is one statement that succeeds or fails; a ROLLBACK never leaves
a transaction open; a refusal by message
size may happen to any request; an exit during shutdown is folded into the
shutdown; callers chain requests by `after` (what they await first). No caller in
the repository uses external transactions yet; the Worker offers them and the
model exercises them. Nobody restarts a degraded client by itself, so a
recovery wait ends by its own timeout.

### PiLive

`rt[r]` is an `OwnedRuntime`: status, generation, handle (the generation whose Worker
it is, or 0), suspension, saved path; `runtimes` is the service's map; `hydration`
and `starting` the initialization tasks; `running` the Worker processes; `store`,
`chain`, `writes` the recovery store and its queue; `job` the suspend, restart,
delete and dispose handlers, each at one of its awaits; `page` the SSE subscribers;
`evicted` (history) the records the store's limit took out; `overtaken` (history) the
runtimes whose Worker was changed, or that were leaving, when a suspension or a
restart finished its checkpoint (`Notes`); `turn` what is streaming; `phase` and
`daemons` the process.

Abstractions: queue, model, fork and extension operations are left out, and with
them the branch of `initialize` that reads a fork's state; a killed Worker counts
as gone when its exit is reported; one page and one suspend and restart each per
runtime; Pi names the file of a fresh session no later than its first prompt
(`NamesSession`, external); a checkpoint that adopts a path is only made when none
is outstanding; the idle timer may fire whenever its conditions hold.

### HookInbox

`inbox`, `archive`, `seal` are the directories by name; `pc`, `cur`, `bytes`,
`created`, `acked` the loop; `cooling` the retry gate; `reader` a client paging
through the archive. Reading never fails for what a file contains: `parseEnvelope` makes
an event without a session of what is no JSON. What fails however often it is tried are
the refusals of the archive: a file too large (`Oversized`) or other bytes under its
archive name (`LinkRefused`), another digest under its seal's (`SealRefused`).
`FileError` is a transient failure at any other file operation,
`LoopCrash` the end of the process at any point. Names are ordered numbers, an event
is a model value; the names in `Shared` may be written by several Hooks (same
session id and millisecond), every other name by one. A failed `rename` onto an
existing file is a stutter. In-place changes of an archived inode by
other programs are not modelled.

### NativeMetrics

`file` is the native file (inode, records), `catalog` its catalogued revision;
`observer` the two catalog writers between their `stat` and their upsert;
`metrics` the totals, here how often each record was counted; `index` and `rows`
the published generation and the staged rows; `job` the rebuilds under way;
`run`, `batches`, `timer`, `before`, `recent`, `ongoing` are
`NativeMetricsAutoRefresh`; the queue of a batch is a set, whose first element in
keyset order comes next (`First`). `ReadPage` is one turn of the page loop,
`CheckSource` the `stat` at its end, `Replace`, `Stage`, `Publish` the three
transactions, `JobFails` a refused request or an abort before any of them,
`Restart` the loss of everything in memory.

Abstractions: one Source, one parser version, every record one error, sessions
keep their order in the keyset; size and mtime are one number; a trailing
half-written line is not distinguished from a short file. The cap on `recent`
forgets an entry early, which `CoolsDown` allows at any time. A `publishErrors`
that committed but whose answer was lost counts as an answer.

### LiveTranscript

The session is `journal`, `status`, `replying`, `part`, `open`: what is stored, the
runtime, the turn and the answer being written. `wire` is what the event stream
has sent and the page has not handled. The page's fields are `stable` and `active`
(settled rounds and tail), `leaf` and `base` (cursor), `initial`, `recovery`,
`probe`, `sending` (its requests), `known` and `state` (the runtime state in a
reference that handlers compare with, and in what is shown). `Deliver` is the
event handler, `TakeInitial`, `TakeRecovery`, `TakeState`, `TakeReply` the
continuations of the requests, `Recover` the rule for a recovery asked for while
one runs. `Cut`, `Crash`, `SnapshotFails`, `StateFails` are the faults.

The page has races it does not guard. Each is named where it happens and put into the
history variable `slips`; the properties speak of behaviours with none, and
`MCLiveTask` follows a behaviour up to its first one (see Observations for what each
does; "misplaced" lies beyond the bounds of the run). The rules of the projection are
closed forms over positions, so that they can be proved about: `Without` is the
filter, `Merge` places each row where its prompt was typed and appends the rest,
which is what the code's loop does as a prompt is typed once. Abstractions: a message
is a turn and a number, its item remembers whether it came from the stream or the
journal; a turn that fails leaves an error item behind the last prompt, once
(`WithFailure`), which no snapshot brings and the settled recovery drops; text within
an answer, tools, reasoning and compaction items, queue and steering, command records
and paging through older history are left out; prompt texts are distinct; the state
read when the page is mounted is that of the same instant; what is left of a broken
stream is handled before the next one opens (buffered items are flushed within a
second, a reconnection takes longer).

### SlimCutover

`own`, `backup`, `staged`, `installed`, `pointer` are the files; a database is the
number of writes it holds. `old` is the v38 daemon, which may listen on the probed
port or be hidden from it; `mig[m]` a migration's next step, `lock` the SQLite
write lock its freeze holds; `rollback` and `daemon[d]` the other commands.
`MigFails` undoes what the code undoes; `MigDies`, `DaemonDies` undo nothing but
the lock. `PublishFails` takes the link back or fails at that too: only then, or
after a death, does a linked file without a pointer remain (`stranded`).
Abstractions: the audits compare contents, here counts; checks whose outcome no
property depends on are part of `MigFails`.

### PackageInstall

One integration. `files[v]` is `versions/<v>` (none, bad, good), `pointer`
`current.json`, `staging` the transient directory; `bundled`, `state` the service's
caches; `op`, `listed`, `cur`, `pc` the queue, the bounded history and the
operation that runs. `Begin` to `Forget` are the steps of an operation, each one
file operation; `Damage` is damage or a failing read, remembered in `touched`;
`OtherDaemonCleans` a second daemon that starts on the same root; `Start(r)` the
same for this one, possibly of another release. A step and its file operation are
one; several integrations share only the history.

### LocalBackup

`version[f]` is the metadata of a source file, which each write changes,
`ContentOf` its content. `index` numbers the mutable index objects, `memory` is
the current one, `stored` the file. `scan` is `rebuildInventory` in flight
(`Plan`, `Merge`, `StoreScan`, `AdoptScan`), `snap[s]` a `createSnapshot` call
(`Look`, `Read`, `CreateBlob`, `FillBlob`, `Seal`, `Learn`, `Save`, `Adopt`),
`blobs` the store. Import, export, repair, deletion and the stale-while-revalidate
cache are left out, and one load of the stored index is in flight at a time; a
file is read in one step.

### SlimReads and SourceCoordinator

`known` is what the database knows, `slot` the entry of `readsInFlight` for the run's
`facets()`, `call` and `got` the run's request and its answer. The key of an entry
holds the arguments: HTTP reads the same query with `[{}]`, the run with `[]`, so
they never share one (`slim-runtime.ts:85,113,177`). Others write too:
`VaultResolves` is the backup that resolves what it detects
(`backup-local/src/service.ts:515`). `pc` walks through one run: detect, write, ask
`facets()`, then each scope; `keys` and `handles` are the captures. Every await may
end with the coordinator aborted. One source, scopes are installations; the indexer's
own cursor is one step, asset scans are left out of it.

## 3. Runs

Counts are TLC's distinct states. Deadlock is checked in `hook_inbox` only: in the
other systems every call may be done, or the last generation, operation, fault or
daemon used up, and then they rightly stop.

| run | states | shows |
|---|---|---|
| `data_runtime_writer` | 3.5 M | one transaction in two workloads, with calls in it, after it or beside it, timeouts, throwing COMMIT and ROLLBACK, SQLite's own rollback, shutdown, crash: acknowledged writes are durable, transactions all or nothing, a cleanup throws at most once, no late start |
| `data_runtime_reader` | 175 k | a Worker that may hang for ever: what it owes is bounded by the map, every call settles and keeps its entry until then, slots come back, the hung Worker is recycled unless the map is full |
| `live_task` | 1.7 M | the service: one fresh session through every handler but dispose, with three generations (readiness, recovery store, Workers left behind); the page: two prompts and faults, failed turns, a page at rest is faithful and nothing vanishes |
| `pi_live_daemons` | 588 k | a fresh or continued session, two daemons of which the first may be disposed, failing writes: dispose keeps ready tasks, initializations settle |
| `pi_live_deleted` | violation | see Findings |
| `hook_inbox` | 111 k | an event too large, a sessionless one (as large) and a plain one, one shared name, crashes and errors anywhere: what was emitted is sealed; for names of their own the loop implements `HookDelivery` and healthy events are delivered |
| `native_metrics` | 2.3 M | one file, one rotation, growth, restarts: settled means whole, catalog monotone |
| `native_metrics_http` | 1.7 M | an explicit rebuild beside the refresh of a file that grows and is replaced, with resumed scans and published prefixes: counts exact |
| `native_metrics_live` | 152 k | two sessions, one unreadable, room for one unfinished scan: the other is settled, the room is kept to |
| `native_metrics_incomplete` | violation | see Findings |
| `host_files` | 2.6 M | two migrations, a rollback, two daemons and an old one; pages of a growing archive; overlapping snapshots of one file, refreshes and a snapshot of two |
| `host_work` | 121 k | three package operations over two versions, three releases, crashes and damage, against `AtomicInstall`; a start-up run, a rescan, the vault's writes and a dispose |

The two `TypeOK` that are run properties (`pi_live_daemons`, `native_metrics_live`)
state bounds a bug breaks: writes tracked one by one, room for unfinished scans. The
type invariants of `DataRuntime`, `PiLive`, `HookInbox`, `NativeMetrics`,
`SourceCoordinator` and `LocalBackup` are proved for all instances, the types of
`SlimCutover` and `PackageInstall` as parts of their inductive invariants.

### Bounds, and why they suffice

* Two slots in the pending map and two to four calls: full, one free and both
  free all occur. One transaction: SQLite has one at a time, a second begin is
  refused in the same way. The two workloads (`TxWorkloads`) are callers one may
  imagine: one that writes on around its COMMIT, for all it knows still in its
  transaction; one whose COMMIT may throw and who then rolls back, beside a plain
  writer.
* `MaxGen` bounds initializations of one runtime over its life (3: create,
  replace, replace again while the second is ending); `MaxDaemons = 2` processes
  are one that stops or dies and one that finds what it left; `MaxDisposals` says
  how many of the daemons may be disposed of: none in `live_task`, as a dispose
  overlaps with everything and has `pi_live_daemons` for itself; `Continued` the
  runtimes that may begin with a session file; `Watched` those whose pages may open;
  `MaxRecords` is larger than the number of runtimes, as in production. Runtimes
  share only the store's write chain, so one runtime with its overlapping
  handlers shows the races.
* The page has two prompts and two faults (lost streams, Worker exits, failing
  requests, looks at the state), together at most two: a fault can fall between
  any two steps of a turn, of a recovery and of the recovery asked for meanwhile;
  turns of one answer. The initial snapshot may be late in all of them.
* Three events on three names, one of them shared, cover one before, one at and
  one behind the current name; a gate of one entry overflows with the second
  failure; a page of one entry has a cursor at each position.
* `MaxId = 2`, `MaxLen = 2`, pages of one record, one page a batch: every scan of a
  full file is interrupted, resumed, overtaken by growth or rotation. Where an
  explicit rebuild joins in, files begin full, the page limit is one and the catalog
  is written by the indexer alone, and a cooldown ends when it is next asked for
  (`IndexerSpec`): a scan is kept, resumed, has its
  file replaced under it, and is published as a prefix. Beside a capture, and for any
  page limit, `CountsAreExact` rests on its theorem. `MaxResumable = 1` makes the cap
  bite. `ThrottleEnds` and `CoolsDown` happen at any time, so no clock is needed.
  That every candidate of a batch fails at once takes more sessions than the two here.
* Two migrations: one overtakes the other at each step. One write of the old
  daemon falls before, between or after backup and freeze. Two daemons race to
  create one file.
* `MaxOps = 3` package operations are an install, an update or repair and a
  removal in any order, with a history of one entry that the second overflows.
* One file with two contents and two overlapping snapshots, and two files with one
  snapshot and refreshes of either; two index objects are the current one and
  the one that replaces it.
* Two installations and a budget of one scope: one is examined, one deferred. One
  rescan is enough to queue and to be refused.

### Fairness

* `DataRuntime`: timers fire, messages are delivered, exits are reported, a free
  Worker takes its next message (`ClientFairness`, the Node event loop). That a
  statement ever ends is not assumed: `SlotsComeBack` speaks of a Worker that
  works.
* `PiLive`: the storage answers (a put that fails answers too: this is
  `EveryCallSettles`), a handshake ends (120 s limit), a killed process ends
  (kill after a grace of one second), awaited work resumes.
* `HookInbox`: the loop runs, cooldowns pass, a name that is again and again there
  to be picked is read without error now and then; crashes and transient errors
  stop.
* `NativeMetrics`: files settle and are catalogued, failures and restarts stop,
  timers and rebuilds go on, and a user keeps asking for usage or insights. A
  reader that fails for good on one session is not assumed away.
* `PackageInstall`: file operations end, in success or error, and a queued promise
  runs. `SourceCoordinator`: sources' calls return, reads are answered or time out
  (again `EveryCallSettles`), promises run. `MCHostWork` states the same for its
  larger tuple of variables.

Each liveness property is violated by its mutant under the same fairness, so the
assumptions do not contradict each other.

## 4. Proofs

All theorems hold for every value of the constants that satisfies the assumptions
of the module (`ConstantsOK` and its like), which TLC evaluates for the instances
it runs. Each rests on an invariant that the initial states satisfy and every action
preserves, one step of the proof per action or group of actions.

**`DataRuntimeProofs`.** `TypeCorrect` is inductive with the ranges of the ports.

* `NoLateStart`: `Spec => NoStartAfterTimeout`. Its invariant `TimedOutLate` says
  that a caller is told "timeout" only after the deadline has passed; the Worker
  looks at the same deadline before it starts (`worker.ts:214`), so it skips.
* `PromisesKept`: `Spec => []OpenIffPending`: a call is open if and only if it has
  an unmarked entry in the map, through timeouts, late answers, exit, restart.
* `BacklogIsBounded`: `Spec => []BacklogBounded`. What a Worker is owed is counted:
  ids queued, in hand and answered are apart from each other (`Apart`), all are
  pending, and so there are no more of them than entries (`Rooms`). `Probes` is
  what keeps the two ids the client makes itself from being sent twice.
* `TransactionsAreAtomic`, `AcksAreDurable`: `TransactionsAtomic` and
  `AckedWritesDurable`, with no assumption that anything succeeds. What ran in the
  transaction SQLite is in is what is not in the file yet, and what it took back is
  in neither (`OneAtATime`); a transaction not begun has left no trace (`History`), one
  that is over is in the file or not (`Whole`); a COMMIT that was affirmed has all of
  its own in the file, with nobody left to add to it (`Kept`). `GivenUp`, `Withdrawn`
  and `StaysOpen` are the lemmas for a ROLLBACK that returns or throws, SQLite's own,
  and a COMMIT that leaves the transaction open. They need `OneBegin`: the Worker makes
  a new id for each transaction (`worker.ts:277`). Only the plain writes of
  `AckedWritesDurable` have an exception, `leftOpen` (see Observations).
* `CleanupThrowsOnce`: `Spec => CleanupReleases`. An answered cleanup has freed the
  connection or has thrown out of the executor's transaction; outside of it a ROLLBACK
  sends nothing and frees.

**`PiLiveProofs`.** One invariant, `IInv` of `PiLiveInvariant`: the types, and for
each runtime `Local(r)`. A step concerns one runtime, so a lemma per action shows
that `Local` of that one holds again and that the others' is untouched.

* `TypeCorrect`: `Spec => []TypeOK`. Its bound on the write chain is the content of
  `WellFormed` and `Owed`: nobody has two writes of one runtime in the tail, and the
  job that put it there, or the count of the chain, still awaits it.
* `ReadyHasWorker`: `Spec => []ReadyIsServed`. `Ordered` says that no attempt is
  younger than its runtime and that a runtime whose current attempt still runs is
  not ready; hence an attempt that ends late cannot mark it ready, and a restart
  that awaits its old Worker cannot take away what another attempt has made.
* `SavedStaysStored`: `Spec => []SavedIsStored`. `Recorded` extends the property to
  jobs that are past their put and have not marked the runtime yet.
* `WorkersStayHeld`: `Spec => []WorkersAreHeld`. The property alone is not inductive.
  `Held` adds that only a ready, unsuspended runtime has a handle, so that a handshake
  which installs one replaces none (`NoHandle`); `Left` that a runtime DELETE or dispose
  is ending has no attempt under way and can begin none while it is listed. The theorem
  covers dispose, which the run leaves out.
* `DisposeLosesNothing`: `Spec => []DisposeKeepsTasks`. `Keeps`: what dispose() owes
  is stored, is being stored, or still has Worker and file while its checkpoints
  drain.

**`NativeMetricsProofs`.** `IInv` is `Shape` (types), `Jobs` and `Parts` (running and
unfinished scans), `Sights`, `Refreshing`, `Rows` and `CountsAreExact`.

* `TypeCorrect`: `Spec => []TypeOK`. That a generation of one's own is always left
  follows from `Rows` (rows are of the published generation and at most one other)
  by counting.
* `TotalsAreExact`: `Spec => []CountsAreExact`. `CountsAreExact` is not inductive: it
  needs `Scanned`, that an accumulator has counted exactly the first `cursor`
  records of its inode, whatever has become of the file.
* `CatalogOnlyGoesOn`: `Spec => CatalogMonotone`, from `Sights`: what a writer holds
  was the file's once.
* `SettledStaysWhole`: `Http = {} => (Spec => []SettledIsWhole)`. `Alone` and
  `PublishedWhole` say that the refresh publishes whole revisions with rows of a
  generation of its own. The hypothesis is needed: an explicit rebuild stops at its
  page limit and publishes a part, and two that stage at one time delete
  each other's rows (Finding 2).

**`LocalBackupProofs`.** The argument is what an index entry is worth (`Knows`): its
hash may be of a later version than the metadata beside it, because the file is
read after the metadata was taken; it is right as long as this metadata is the
file's, and only then is it used.

* `TypeCorrect`; `SnapshotsHoldTheTruth` (`SnapshotsAreTrue`): a call at `Reading`
  or `Storing` has what the file held at some moment since the call began (`Takes`).
* `SnapshotsCanBeRestored` (`SnapshotsAreWhole`): an entry is noted only when its
  blob is whole, and nothing makes a whole blob partial again.

**`HookInboxProofs`.**

* `AcceptedStaysSealed`: `InboxSpec => []EmittedIsSealed`, even for
  shared names. `EmittedIsSealed` alone is not inductive: at `emit` it depends on
  the archive holding the bytes just read under their seal. `Present` (what the
  loop's program counter says of the current name) and `Sealing` (a seal is of the
  archived event, or the loop is between link and seal) complete it.
* `DeliversAtLeastOnce`: every step is a step or a stutter of `HookDelivery`,
  restricted to events whose name nobody shares. `Names` adds that such a name has
  one event and keeps its file while the loop works on it, so what is unlinked is
  what was emitted.
* `PagingSkipsNothing`: `InboxSpec => []PagesSkipNothing`. `PagingOK`: a client has seen
  exactly the listed names up to its cursor. That a page has a last name is
  proved by counting, not by induction.
* `TypeCorrect`: `InboxSpec => []InboxTypeOK`, from the parts above and `GateOK`,
  the bound of the retry gate.

**`SlimCutoverProofs`.** `ActivationIsComplete`, `OneActivation`, `OnlyWholeOpened`,
`FailureLeavesTheWayFree`: the four properties of `SlimCutover`, for any number of
migrations, daemons and writes and a death anywhere. The argument is the lock:
`Locked` says that a migration between freeze and publish, and nobody else, holds
it, so `rows` cannot change there; `Prepared` says what a migration knows at each
step (its copies agree; after the audit they have all rows; after the check there
is no pointer); `Placed` that a linked file is whole and a pointer once seen stays.

**`HostWorkProofs`, packages.** `InstallInv`. `ActiveIsWhole`, `CacheAgrees`:
`PointerIsWhole` and `CacheIsTrue`. `Working` says which steps belong to which kind
of operation, that an installation has its version, and that what it is about to
name was found whole or was damaged since. `InstallingIsAtomic`: every step is a
step or a stutter of `AtomicInstall`, with the usable version as the state function
of pointer and files.

**`HostWorkProofs`, coordinator.** `SourceInv` is `Typed`, `Waiting`, `Runs`,
`Stopped`, `Examines` and two of the properties.

* `SourceTypeCorrect`, `NoDoubleCapture` (`OneCapturePerScope`): while a run is about to
  capture a scope nobody else can have captured it (`Runs`), which rests on there
  being one run at a time.
* `DisposeIsFinal` (`NothingOutlivesDispose`): after the abort no run begins and
  dispose waits for the one there is (`Stopped`).
* `RunsExamineTheirFinds` (`RunExaminesItsFinds`): the entry of the last read is gone
  when the run asks, so its read is executed after its writes and has seen them
  (`Examines`).

**`LiveTranscriptProofs`.** For any number of prompts, answers and faults, with no
assumption on the constants. `IInv` is `PageTypeOK` and, as long as no race of
`slips` has happened, `PageInv`:

* `PageTypeCorrect`: `PageSpec => []PageTypeOK`, inductive by itself.
* `PageIsFaithful`: `PageSpec => []QuietIsFaithful`. At rest the history of the page
  is the journal, and there is nothing behind it but a failure. `Book`: the history
  is the rows of the journal up to the leaf less the `base` items of the tail a
  snapshot gave, and these are the next rows; `TailReaches`: the rows of the tail are
  those of the journal from there up to some position, in whatever order; `TailOnce`:
  none is shown twice. `Flight`: a snapshot on its way is the part of the journal
  after its cursor as it was when read, and a recovery's cursor is still the page's.
  `Debt` is the heart of it: while the session rests and the stream is empty,
  whatever the page lacks is on its way (a probe that will ask for it, a recovery
  that reads or will read it, a pending one), or it lacks nothing, or it says that it
  could not synchronise. A settled recovery with rows makes the tail and the rows the
  rest of the journal; one without rows makes history of a tail that is in order.
* `PageForgetsNothing`: `PageSpec => NothingVanishes`, an action property, from the
  same invariant: each branch that replaces what is shown replaces it by at least
  the same stored messages.

The lemmas under it say what the rules of the projection make of sequences of
any length. `Without` keeps what was not seen, in order (`WithoutIs`: by an ascending
choice of positions, which counting gives); `Merge` keeps every item in its place and
adds the rows that were missing, none twice (`MergeIs`); `Concatenated`,
`AppendUnique` likewise; rows that cover a stretch of the journal, none twice and
none misplaced, are that stretch (`InOrder`). Where such an argument is an
induction over positions it goes by a least counterexample (`LeastOf`), which
follows from the cardinality of intervals and needs no induction schema; that is
why the rules are written without recursion or folds.

### Only model-checked

Liveness under fairness and anything that needs ENABLED are beyond the proof
system. So these stay with TLC: all liveness properties, and
`UnresponsiveWorkerRecycled` (a leads-to). Every other property of a passing run
is the statement of a theorem.

## 5. Findings

1. **DELETE can be undone.** `terminate()` removes the recovery record without
   awaiting a checkpoint already chained or about to be chained; its `put` runs
   after the removal and the next daemon restores the runtime (`service.ts:1715`,
   against the comment at 1713; `pi_live_deleted`).
2. **A published error index with rows missing.** Another rebuild's `stageErrors`,
   or the cascade of an `invalidate`, removes rows that a rebuild has staged;
   `publishErrors` compares revisions only and publishes what is left
   (`native-session-metrics.ts:149`, `native_metrics_incomplete`).

### Observations

Seen while modelling. No comment or test of the repository promises more, so no
run claims a disagreement; each is a hazard in `PROJECT.json`.

* The heartbeat shares the limit it should repair: `client.ts:299` refuses it when
  the pending map is full: timed-out entries keep their slots until an answer, so a
  hung reader with a full map is never recycled. `UnresponsiveWorkerRecycled`
  excepts exactly this case, and fails without the exception.
* A writer is probed only when it owes nothing (`client.ts:378`): one that hangs
  with a request outstanding is neither recycled nor reported.
* A COMMIT that throws may leave SQLite in the transaction, while the executor has
  left it (`executor.ts:107`, in `finally`). The owner's ROLLBACK is then answered
  "ok" without being sent, and plain writes acknowledged later join the open
  transaction; they are lost when the thread ends. `AckedWritesDurable` names the
  case (`leftOpen`). No caller uses external transactions yet.
* After SQLite's own rollback the Worker still has the transaction's id: other callers
  are refused, and the owner's next statements run one by one, each committed at once,
  until it rolls back (`worker.ts:307-316` asks for the id only). Likewise after a
  ROLLBACK that throws, until the owner's next one.
* DELETE while a restart or a suspension awaits its checkpoint may leave a Worker
  that nobody holds: the continuation looks at nothing after the await
  (`service.ts:1915-1942`). The restart starts a new Worker for a runtime that has
  left the list; the suspension makes one that is leaving look suspended, so that the
  next request hydrates it, or forgets the handle of a Worker a retry has made
  meanwhile. `WorkersAreHeld` names the case (`overtaken`), and fails without the
  exception.
* A page that subscribes while an idle suspension awaits its probe or its
  checkpoint is suspended all the same (`service.ts:1915`), and a turn that begins
  during the checkpoint of a restart is killed with its Worker (`service.ts:1939`).
* A hydration may create a Worker while the suspended one is still ending: for a
  moment two Workers have one session file (`service.ts:1917-1929`).
* `unlink` goes by name: a Hook file renamed over the inbox name after the
  comparison is removed unread (`runtime-hook-archive.ts:139`). `AtLeastOnce`
  speaks of names with one event, which the Hooks of the repository give unless
  two share session id and millisecond.
* The rollback probes the port and then writes the pointer: a daemon that has
  resolved its database and does not listen yet keeps serving the slim one
  (`slim-cutover-activation.ts:197`).
* The live page has unguarded races, the `slips` of `LiveTranscript` (line numbers of
  `use-live-task-runtime.ts` unless said). "early": a first or whole window is merged
  with items the stream has already made, which have no identifier in common with its
  rows; the shortest case, a prompt sent and settled before the first snapshot is
  read, shows the round twice (262); a failure before such a window counts as well.
  "stale": the first snapshot answers after a recovery (269). "late": an event
  arrives for a message already held as a row. "kept": a settled recovery finds no
  rows yet and keeps the tail (431-438), a failure in it too, which then stays in the
  history. "misplaced": the next item. "superseded": an unforced look at the state
  replaces a forced one (474-485). "blind": a failed look is not repeated (506).
  "dropped": taking back a prompt that failed discards a recovery in flight
  (`actions.ts:202`, `runtime.ts:391`). Besides, a first snapshot that answers late
  overwrites the believed state, and an answer to a prompt that arrives after its
  turn has ended leaves "running" shown. The contributor guides ask that reconnection
  repeats no facts (`docs/contributing/agent-integration/README.md:61`,
  `02-live-quickstart.md:130`); they are requirements on integrations, so this stays
  an observation.

* A prompt can stay in front of what was written before it. A live recovery puts a
  row in the place of the prompt as it was typed (`live-task-projection.ts:815-824`)
  and appends the rows it did not know. If an answer was stored before the prompt was
  sent and its events reached the page neither as stream nor as snapshot (the stream
  was not open yet), that answer comes to stand behind the prompt. The settled
  recovery repairs it, as it reads the same rows again; but if the Worker dies first
  and the recovery that settles is answered "not ready" with no rows, the tail
  becomes history as it stands (`use-live-task-runtime.ts:428-440`). That is
  "misplaced" in `slips`. It takes two prompts, two looks at the state and an exit,
  more than the run admits: the proof of `PageIsFaithful` failed without the
  exception, and TLC then followed the behaviour step by step.

## 6. Plan

1. Done: `DataRuntime`, `HookInbox` with `HookDelivery`, `PiLive`,
   `NativeMetrics`, `LiveTranscript`, `SlimCutover`, `PackageInstall` with
   `AtomicInstall`, `LocalBackup`, `SlimReads` with `SourceCoordinator`, and the
   proofs above.
2. `NativeReader`: bounded requests, cancel and timeout against a Worker that goes
   on, exit and re-creation (`native-reader-worker-client.ts`, `worker.ts`).
3. `Prewarm`: the single warm Worker of `worker-host.ts`; then the queue and fork
   operations of `PiLive`.
4. `Checkpoints` and `MaintenanceJobs`: compare-and-set and job states;
   `LiveCodex`: resume cursors; `StaleWhileRevalidate`.
5. `Reconcile`: replication operators against a reference over bounded inputs.

Abstract specifications worth stating: a request/reply service that settles each
request once (shared by `DataRuntime` and 2); a transcript that is the journal, for
`LiveTranscript`, once the page identifies stream items by their entry.

Theorems next: a step of the page as a step or a stutter of that abstract
transcript; the new modules' own invariants.
Liveness of `LiveTranscript` (a connected page comes to rest) holds only between
slips and needs a bound on looks; it is not stated yet.

## 7. Not modelled

Most of the repository's lines are parsers and normalizers of agents'
formats, projections, SQL, React components, styles and tests. They compute on
data, or draw it, with almost no control of their own; a state machine of them
would be their transcription. Therefore the share of lines that the models stand
for stays small, while the components above hold most of the state that outlives a
function call.

* Sources, source support, projections, capture policy, replication core: data.
  The Hook loop of the Sources is `HookInbox`; file watchers appear as rescans.
* Native reader, Pi prewarm slot, storage checkpoints and jobs, application runtime,
  other agents' live attachments: state worth modelling, in the plan or small.
* HTTP surface: stateless but for its streams, which are in `LiveTranscript` and
  `PiLive`. Command line, desktop and the other pages call the daemon.
* Hook manager: edits agents' configuration by user command, one at a time.

`PROJECT.json` lists every component with its status, and the hazards no property
covers with the reason.

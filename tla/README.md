# Tethra: TLA+ models of the gateway, the vault's shared state and project tracking

Tethra is a local-first vault for API credentials, with a loopback gateway that observes API
traffic, a run observer, and a project tracker. Its state is one SQLite file per vault that
several processes open at once: the CLI, the desktop app, the gateway service, observed runs.
Nothing coordinates those processes except SQLite's transactions, compare-and-swap updates and,
inside the gateway and an observed run, queues and threads. These modules model the parts
where that matters.

## Inventory

| Component | State | Operations and interaction | What is hard, and what makes it correct |
|---|---|---|---|
| Gateway writer (`gateway/src/writer.rs`) | bounded queue, counters, matcher, worker thread | every exchange calls `record`/`count`; the control thread `set_matcher`; stop calls `flush` and joins | never blocks the forwarding path; every outcome is counted; flush is a barrier; attribution never uses an older matcher; stop returns |
| Gateway control and matching key (`service.rs`, `control.rs`) | resident key, retention deadline, matcher | push, revoke, lock, unlock from one control thread; the poller expires; the main thread stops | revoke is final; the retention window ends; key and matcher stay together |
| Service start and claim (`service.rs`, `control.rs`) | port, control socket, nonce, pid file | probe, bind, claim, write, serve, stop, retry; processes meet in the data directory | a start takes no file of a gateway that serves; service mode comes up after any crash |
| Listener (`server.rs`) | connection count, threads | accept, cap, drain, abandon | the count returns to zero; stop is bounded |
| Routes, attribution, usage, forwarding, streaming | route table, digests | per exchange | mostly parsing and I/O |
| Environment links (`gateway/src/envlink.rs`) | link rows with the record of what a file held, the project's `.env` files | link, re-link, unlink, remove route | a death between record and file, edits by the user, unlink without a key: every gateway line keeps the row that can take it out, and what was there comes back |
| Lifecycle, doctor | OS services | user commands | external commands |
| Rotation (`core/src/rotation.rs`, `vault.rs`) | a row per rotation, versions of the value, provider keys | plan, approve, advance, complete-manual, cancel, rollback from any process | steps taken from stale copies, deaths between a provider call and its record, partial failure |
| Sync plans (`syncplan.rs`, `vault.rs`) | plan and step status, destinations | create, execute, roll back | stale value deployed, unrecorded writes |
| Runtime metrics (`runtime/aggregate.rs`, `retention.rs`) | events, hour and day buckets, watermark | roll-up, re-roll, sweep from several processes | an event behind the watermark is counted; none is deleted uncounted; an erase stays erased |
| Observed runs (`observe/src/session.rs`, `runtime/store.rs`) | session row, child process | start, wait, interrupt, finish, orphan sweep | one verdict per run, after the teardown; a lock ends the run; an orphan is closed |
| Observation proxy (`observe/src/proxy.rs`) | listener, workers, sockets, event channel | the child connects; workers relay and record; teardown closes what it knows of | no worker outlives the teardown, wherever it blocks |
| Vault (`vault.rs`, `session.rs`, `crypto.rs`) | keys, wraps, session file | unlock, lock, project passwords, credentials, references, versions | writes under a stale key; a session restored after a lock; versions a rotation needs |
| Access grants (`access.rs`) | counts, expiry, processes | launch, consume, end | a one-time grant is used once |
| Alerts, budgets, notifications, monitor | alert rows | raise, resolve, notify | one alert per cause |
| Backup and restore | archive, staged database | create, restore | a restore that fails changes nothing |
| Tracking (`crates/tracking`) | a setup row with a version, its plan summary and watermarks | apply, refresh, undo from any process | stale handles; evidence of an earlier session; a failure that is overwritten |
| Scanners, git, connectors, pricing, CLI, desktop | - | - | parsing, external commands, front ends |

`PROJECT.json` lists every component with its status, and under `hazards` every hazard with the
line where it bites and the properties that cover it.

## What is modelled

### `GatewayWriter`: the gateway's observation writer

| Module | Code |
|---|---|
| `queue`, `HasRoom`, `Connected` | the bounded `sync_channel`; the receiver lives in the worker's closure |
| `call[m]`, `fate[m]` | where the caller of message `m` is in its call; what became of `m` (history) |
| `queued`, `dropped`, `droppedCounters`, `written`, `persistFailures`, `inFlight` | the relaxed atomics of `WriterState` and the sink, each changed in a step of its own |
| `worker`, `batch`, `inTail`, `matcher` | the worker thread's place in `run` and `process_batch` |
| `stopper`, `stopping`, `finished`, `drained`, `replied` | the thread in `Writer::stop`, the two flags, the flush and its answer |
| `TrySendRecord`, `TrySendCounter`, `Refuse`, `CountRefusal`, `CountQueued`, `CountInFlight` | `WriterSink::record` and `count`: `try_send` and the increments after it |
| `SetMatcher`, `SetMatcherFails` | `WriterSink::set_matcher`, which retries until a deadline |
| `RecvFirst`, `Fill`, `Classify*`, `BumpCounter`, `PersistOne`, `EndBatch` | one turn of `WriterThread::run`: receive, fill, `process_batch` |
| `SeeStop`, `TailDrain`, `TailDone`, `Exit` | the bounded drain after the loop |
| `BeginStop` to `JoinTimeout` | `Writer::stop`: flush, flag, bounded wait, join |

A message stands for one call, so any number of connection threads is a set of messages. Every
database call may fail on its own: the open of a batch, one counter, one record. The text of an
error, `last_written_at`, the session cache and the roll-up bounds of a batch are left out: no
counter or promise reads them. A loop that ends because every sender is gone is left out too,
since `Service` holds a sender for as long as it lives.

### `MatchingKey`: the resident key of attribution

The module covers `ServiceControl` and `KeyRetention` of `service.rs`, `dispatch` of
`control.rs`, the poller thread, `Service::stop`, and the places where `forward.rs` digests a
credential and `writer.rs` resolves the digest. A key and a matcher table are identified by the
number of the push that brought them. The writer is reduced to a bounded channel that is applied
message by message; `GatewayWriter` has its details.

| Module | Code |
|---|---|
| `PushKey`, `PushMatcher`, `PushBusy`, `PushInstall`, `PushFinish` | `push_key`: table, matcher, key, window |
| `RevokeKey`, `DropKey`, `RevokeFinish` | `revoke_key` |
| `LockNoKey`, `LockWithKey`, `LockRevokes`, `LockRetains`, `Arm`, `Effective` | `vault_locked`, `arm_no_later_than`, `effective_retention_minutes` |
| `PollWakes` to `PollClears` | the poller: `expire_if_due`, then drop, then clear |
| `StopBegins` to `StopControl` | `Service::stop` in its order of joins |
| `Tick`, `WallMoves` | time; the wall clock may be set, and moves alone while the machine sleeps |

The window is what is left of the deadline on each clock. The policy a vault-locked request
reads (`lock_disposition`) is a free choice between revoking and retaining. The poller thread is
assumed to have been spawned (the code ignores a failure to do so, see `hazards`).

### `ServiceClaim`: start and stop of gateways over one data directory

A process is where it is in `Service::start` or `Service::stop` (`pc[p]`). A socket file, a nonce
and a pid are named by the process that made them, and `Dead` once it has ended, since the files
outlive it; `hears` are the processes whose socket a connect reaches. Every look at the directory
and every change of it is a step, so that the file removed need not be the file examined.

| Module | Code |
|---|---|
| `Launch`, `CheckVault`, `Retry`, `Fail` | `run_as_service`, or a foreground `serve`; a failed start drops what it held |
| `Probe`, `BindPort` | `instance_is_live`, `Listener::bind` |
| `Examine`, `Unlink`, `Bind`, `Listen`, `Restrict` | `bind_exclusive`: connect, remove a stale socket, bind, listen, restrict |
| `WriteNonce`, `WritePid` | `write_private` twice: remove, then create what must not exist |
| `RequestStop`, `SampleVault` | `run_until_stopped_or`: the flag, and the vanished vault |
| `JoinListener`, `StopControl`, `RemoveFiles` | `Service::stop`, with the joins that release the port and the socket |
| `Die`, `MoveVault` | a kill at any step; a restore that renames the vault aside and back |

Permission changes, a file that goes between `write_private`'s look and its removal, and threads
that do not spawn are left out. `restrict` and the check after it are one step.

### `Rotation`: the durable rotation of a credential

A row of `rotations` is a record; `op[p]` is the operation process `p` is in, with `snap`, the
copy of the row it loaded and decides from. Each database statement and each provider call is a
step; a statement that only reads is merged with the one before it where no other process can
tell. The only guard the code has between them is the compare-and-swap of `set_state`.

| Module | Code (`vault.rs` unless named) |
|---|---|
| `Plan` | `rotation_plan` |
| `BeginApprove`, `Approve` | `rotation_approve` |
| `BeginAdvance`, `Load` and the steps under `Advance` | `rotation_advance`: its loop and one arm per state |
| `Create`, `NoteKey`, `CheckStored`, `StoreValue`, `SetVersions` | the creating arm, `rotation_store_new_value`, `replace_credential_value` |
| `MakePlan`, `BeginExecute`, `ExecuteStep`, `Executed` | `sync_plan_create` and `sync_plan_execute` as a rotation calls them |
| `OwnVersion`, `Validate`, `MarkValidated` | the validation gate, `validate_credential` |
| `Disable`, `NoteDisabled`, `MarkAttempt`, `Revoke`, `NotFound`, `NoteRevoked`, `Complete` | `rotation_disable_old`, `rotation_revoke_old` |
| `BeginCompleteManual`, `BeginCancel` and what follows | `rotation_complete_manual`, `rotation_cancel` |
| `BeginRollback` to `Settle` | `rotation_rollback`, `sync_plan_rollback` |
| `SetState` | the compare-and-swap of `rotation.rs` |
| `Leave` | an early return, a lost response, or the death of the process, at any step |
| `ReplaceByUser`, `RemoveOutside` | the user replaces the value, or deletes the old key at the provider |

Providers differ by what their connector can do: `openai` creates and revokes, `anthropic`
disables and can undo it, `github` does neither. The grace period's clock and the check for
continued use are free choices (`Leave`). The status of a plan is computed from its steps, as
`Executed` does. The pruning of old versions beyond ten is left out; the code exempts those a
running rotation names. Scheduled rotations and alerts are not modelled.

Three outcomes of the code the model reproduces and no property forbids: a rollback of a
rotation without destinations ends in `manual_required`; manual completion after a partial
rollback ends in `completed` with the old value in the vault; the new key is dropped at the
provider even when a destination could not be rolled back.

`RotationOrder` is what a row promises to whoever reads it: the states of `rotation.rs:18` with
one atomic action per edge and no processes. An edge asks for what must be on record by then (a
rotation is distributed once it has a plan, enters grace once it was validated, is retired by a
provider that can disable once the old key was disabled), the record is made in order (`Presupposed`) and
nothing is taken off it. `Rotation` implements it (`ImplementsOrder`): the state is that of the row, the
terms are the mode and whether planning found an old key to disable, the record is which fields
of the row are set (`OnRecord`). The many steps of an operation become one move, one fact, or a
stutter; a fact may be noted after the rotation has moved on, since only `set_state` compares.

### `ObservationSink`: what the forwarding path may expect of the writer

The abstract specification of the writer, with no thread, queue or batch: a record has one
`outcome`, accepted records are settled in the order of acceptance (`ahead[r]` is what was
accepted before `r` and still waits), and none accepted before the sink began to close is
discarded (`overtime` has those accepted since). `GatewayWriter` implements it
(`ImplementsSink`): the order is that of the batch followed by the channel (`Line`); closing is the
writer's step that begins the last drain; `overtime` is `late`. Only an exchange that outlives the
listener can be discarded.

### `RuntimeMetrics`: roll-up, re-roll and retention of observed traffic

A bucket is the set of the events it counts, which is what its columns sum over. The gateway's
writer thread, the desktop's monitor and the finalizer of an observed run each run their
maintenance a statement at a time (`op[p]`), over one database. A bucket ages by its start
(`PastLife`), so it can go while the events of its hour are younger than its life.

| Module | Code |
|---|---|
| `PersistExchange`, `WriteEvent`, `Attribute` | the rows of exchanges and of a run; the attribution that comes later |
| `RollRead`, `RollUp`, `RollFails`, `Recompute`, `DaySums` | `roll_up`: the watermark, read before the transaction; hour and day buckets |
| `RerollBatch`, `RerollFails`, `Finalize`, `FinalizeUnrolled`, `Reroll` | `reroll_hours` of a batch's hours and of a session's |
| `SweepRead`, `Prune`, `AgeBuckets`, `Prunable` | the retention sweep |
| `EraseBegins`, `EraseNext`, `TablesInOrder` | `delete_all`, `delete_project_data`: a statement for each table |
| `GatewayDies` | the gateway forgets which hours it owes |

Three places where the code gives up an event's count are recorded in the history variable
`unrolled` and excepted from the properties: the batch is taken before its re-roll, whose error
is ignored; a gateway that dies forgets its batch; an event written between two deletes of an
erase loses its bucket.

### `VaultCredentials` and `VaultSession`: the vault as several processes see it

`VaultCredentials` has projects (with and without a password), their keys and wraps, credentials,
references to them, retained versions, and the versions a running rotation pins. A process holds
the project keys it unlocked (`cached`). What the code does inside one write transaction is one
step; `remove_project_password`, `add_credential_reference` and `delete_credential`, which read in
one statement and write in another, are two or three.

| Module | Code (`vault.rs`) |
|---|---|
| `CreateProject`, `SetProjectArchived`, `SetProjectPassword`, `UnlockProject`, `LockProject`, `RemoveRead`, `RemoveProjectPassword`, `CanUse`, `KeyFor`, `RotateProjectKey` | projects and their keys |
| `AddCredential`, `ReplaceCredentialValue`, `Retained`, `Pruned`, `UnlockSweep` | values, and the versions that are kept of them |
| `ReferenceRead`, `AddCredentialReference`, `CheckRotations`, `CheckReferences`, `DeleteCredential` | references and deletion |
| `RotationActive`, `RotationOver` | the part of a rotation that pins a version (the rest is `Rotation`) |

`VaultSession` is the session file: `unlock` saves one, `lock` deletes it, and each command under
its token reads it and writes it back with a later expiry. `ObservedRun` composes it.

### `ObservationProxy` and `ObservedRun`: one run under observation

`ObservationProxy` has the listener, the workers, their two sockets, the channel to the writer
and the teardown (`Running*` of `proxy.rs`). A worker is where it blocks and on whom: its client,
its upstream, or the full channel. `ObservedRun` EXTENDS it and `VaultSession`, and adds the
launcher (`run_monitored`, from `OpenSession` to `CloseSession`), the child with its zombie state
and a reused pid, and the monitor's sweep (`SweepProbes`, `SweepCloses`). `LauncherDies` ends the
launcher and every thread of the proxy at any point.

### `EnvLink`: the `.env` link writer

A file is what its assignments say. A command (`job[p]`) is taken apart at every statement and
every file operation and may die at each; the user edits a file at any time.

| Module | Code (`envlink.rs` unless named) |
|---|---|
| `Preview`, `Replan` | `plan_link`, and the second plan `apply_link` compares with it |
| `InsertLink`, `ReadPrior`, `UpdateLinkEnv`, `Merged` | the link row, then the record of the priors, committed before any file |
| `WriteFile`, `Planned`, `Extended` | `atomic_write` of a file's new content |
| `Unlink`, `ReadFile`, `Outcome`, `Restored`, `WriteBack`, `Settled`, `RemoveLink` | `unlink`, `restore_file`, `outcome_is_settled`; `locked` is an unlink with no key to open sealed values |
| `RemoveRoute`, `AddRoute` | `routes.rs`, with the cascade |
| `PersistPort` | `gateway serve --port`; only in `SpecPorts`, which no run uses (see the divergences) |

### `Tracking`: the setup row of a tracked folder

A command (`actor[a]`) holds a handle on the row (`own`); every write compares `row_version`
(`Current`). Clock readings are free: a step that reads the clock may read any time, which covers
clocks that jump and processes that disagree. Sessions are numbered, and a request and a plan
summary carry the session they belong to (history).

| Module | Code |
|---|---|
| `StartApply` to `EndApply` | `apply`: `upsert_setup`, service, routes, `record_routes_created`, links, `record_applied`, the last transition |
| `Fail`, `FailRead`, `FailWrite` | the `fail!` macro and its three attempts |
| `StartRefresh`, `Judge`, `Correct`, `WriteFirstTraffic`, `WriteFirstVerified`, `Admissible`, `Derived`, `Kept` | `refresh_with`, `derive`, `write_derived`, the write-once watermarks |
| `StartUndo` to `CloseUndo` | `undo` |
| `Record`, `Erase` | the gateway's events, and their deletion |

## Runs

| Run | Instance | What it shows |
|---|---|---|
| `gateway_writer` | two records, a bump, a matcher change and a stop; queue and batch of two | counters agree with the fate of every message; the depth is exact when quiet although it may wrap; a flush is a barrier; the writer implements `ObservationSink` |
| `gateway_writer_live` | one message of each kind, `FairSpec` | forwarding and stop end; the queue drains |
| `matching_key` | one exchange, two pushes, durations 0, 1 and 3 under a cap of 2, channel of one, `FairSpec` | revocation is final; no digest meets an older table; repeated locks stay within the cap; the key of a locked vault is dropped |
| `rotation` | two processes, one rotation, `openai` and `anthropic`, three keys and versions | the operations together are the abstract rotation: states move forward or aside, backed by the record; nothing is destroyed unverified; a revocation leaves its trace |
| `rotation_sequential` | one process that may die at any step and start again, a destination and an export, `openai` and `github` | a rollback that reads as done restored no dead key and did not leave the new value; a key is revoked only out of use |
| `rotation_create_once` | two processes | a finding, below |
| `runtime_metrics` | one event, through the gateway or a run, four ticks, hours of two ticks, days of two hours | an event behind the watermark is in its buckets, erased traffic does not come back, the sweep deletes counted events only |
| `vault_credentials` | two processes, one project, two credentials, three keys, three versions, one kept | every value and version opens under the stored wrap; the version a rotation needs survives |
| `observed_run` | one connection, a channel of one, a token that expires after a tick, a command that refreshes it, `FairSpec` | one verdict, given after the teardown; a lock ends the run; an orphan is closed, a live run is not |
| `env_link` | two routes with a variable each, one file, one edit, one command at a time | every gateway line keeps the row that takes it out; what was there comes back |
| `tracking` | two processes, one route, three commands, two clock readings, two requests | the summary is that of the row's session; observed means observed in this session; a newer failure is not erased |
| `service_claim` | three processes, one port, three launches, a vault that moves twice, `FairSpec` | no start takes the files of a gateway that serves; service mode comes up |

**Bounds.** The hazards of the writer need two messages that race for one place, and a third
that follows: two records over a queue of two have both a full queue and a batch of two, and
the tail factor of one makes the tail as small as `TailAssumption` allows. `Wrap` (64 for
2^64) only has to exceed the number of messages. Two pushes give an older and a newer table; a
channel of one makes every send meet a full channel; durations below, above and without the cap
cover `effective_retention_minutes`. Three provider keys and versions leave room for a second
creation or a manual replacement beside the rotation's own. Where two processes run, destinations
are left out, since the properties checked there do not read them; where destinations are in,
one process that dies and restarts replays every prefix of an operation. `age` is bounded by the
guard of `Tick`, `pushes` by `MaxPush`; keys, versions and plans by `MaxKeys`, `MaxVersions`,
`MaxPlans`.

One event is enough for the metrics, because nothing relates two: it can be late, pruned, erased,
attributed late and behind a moving watermark; four ticks and hours of two give it a place within its
hour, a finished hour, a finished day and both retention limits. Three keys let a password be set, changed and removed; three
versions with one kept let a pinned version meet the cap. One connection of an observed run
visits every place where a worker blocks, and its cap, its channel and its reaps are one so that
each is exhausted. `env_link` needs two routes for the shared `NO_PROXY`; its `MaxSlugs` is the
number of rows there can be, and one edit meets every place of a command. Deaths are not bounded.
Two commands of one project at once are not in the run (see the divergences). `tracking`: three
commands are an apply that races a second one and a refresh or an undo that holds a handle from
before; two readings are before and after; two requests can belong to two sessions. `service_claim`:
two processes meet at every step, and the third tells a gateway that still stops from one that
starts meanwhile; a fourth launch repeats one of them. Its port is one because the port of a data
directory is persisted; deaths are not bounded. `MaxLaunches`, `MaxMoves`, `MaxTime`,
`MaxSessions`, `MaxOps`, `MaxEvents`, `MaxEdits`, `MaxKey`, `MaxVersion` are guards of the
actions that count. `CHECK_DEADLOCK` is off everywhere: a writer that has stopped, a service
that has exited, a rotation or a run that has finished are at rest.

**Fairness.** `GatewayWriter`: a connection thread inside a sink call is scheduled, `stop`'s waits
have deadlines, and a finished worker returns. Nothing is assumed of the worker's database
calls; `WorkerDrains` states its fairness as a hypothesis. `MatchingKey`: the control thread
finishes a request it began, the poller, the writer and the stopping thread run, awake time
passes, and a requested shutdown is noticed by the main loop. No request, lock event, exchange or
sleep is owed, so `LockedKeyEnds` is reached by the poller alone. `RuntimeMetrics`: the gateway's
timer keeps firing (`writer.rs` runs maintenance whenever its receive times out); the properties
of the run are safety properties and do not need it. `ObservedRun`: the launcher's thread and
those of its proxy run, every read of a worker has a timeout, and the monitor keeps sweeping; no
user, child or clock is owed a step, so `LockEndsRun` holds for a child that never exits.
`ServiceClaim`: a process that starts or stops takes its next step (the joins of `stop` are
bounded); launches, stops, samples of the vault and deaths are owed to nobody, so
`ServiceComesUp` speaks of a process that is alone. `Rotation`, `VaultCredentials`, `EnvLink` and
`Tracking` have no fairness: an operation runs when
a user asks for it.

**With two processes.** `OldKeyUnusedWhenRevoked`, `RestoredKeyLives` and `ValueRolledBack` are
checked, and proved, for one process. Two break each of them: the revoke call is not preceded by a
compare-and-swap, so one process may revoke the old key after another one's rollback put it back; a
rollback reads the attempt marker before it starts, so it may miss one that is written meanwhile; and
two advances may both pass the guard of `rotation_store_new_value`, so the second one's
`set_versions`, which compares nothing, can write its version into a row that was rolled back.

## Findings

A run that ends in a counterexample to a sentence of the source.

- `CreatesOnce` (rotation.rs, `creating_in_progress`): a second advance that loads this state
  creates a second provider key; the compare-and-swap is asked for only to enter it.

### Known divergences

Sentences of the source, or expectations it raises, that the model does not satisfy. Each was
found with TLC; the property is stated in its module and is in no run.

- `CleanStopLosesNothing` (writer.rs, the tail's comment): an exchange that outlived the listener's
  drain can still put a record into the channel after the last drain. `ObservationSink` says what
  remains true.
- `KeyHasMatcher` (service.rs, `push_key`): a push answered between the poller's decision to expire
  and its clear is left with its key and without its matcher.
- `LockOnlyTightens` (service.rs, `arm_no_later_than`): only the monotonic deadlines are compared;
  after a sleep a shorter request can replace a nearer wall deadline.
- `CleanRollback` (vault.rs, `rotation_rollback`): a plan rollback that restored one step and failed
  another returns `Ok`, and the rotation reads `rolled_back`.
- `OwnValueArms` (vault.rs, the validation gate): the version is compared in one read and the value
  validated in another; a replacement by the user between them arms the rotation.
- `RestoredKeyLives` with a provider that disables (vault.rs, `rotation_disable_old`): after a death
  between the call and its record, a rollback restores a disabled key and reads as clean.
- `ReferencesConsistent` (vault.rs, `replace_credential_value`): a reference inserted from a value
  that was read before a replacement keeps the old fingerprint.
- `DeleteKeepsTracking` (vault.rs, `delete_credential`): a rotation approved after the check for one
  goes with the row.
- `LockStays` (session.rs, `load_and_refresh`, against THREAT_MODEL.md): a command that read the
  session file before `lock` deleted it writes it back.
- `RecordNeverLess` (envlink.rs, the order in `apply_link`: a death between record and file leaves
  "MORE restoration than needed ..., never less"), under `SpecPorts` with `MaxPort = 2`: when the
  port has changed since the first link, a re-link that dies or fails after `update_link_env` has
  already replaced `written`; the line of the first link is then taken for an edit of the user,
  and unlink leaves it and deletes the row.
- `OwnerKeepsFiles` (service.rs:511, a process "must not delete the owner's nonce and pid out from
  under it"): `stop` gives the port and the socket back before it removes the files by name, so it
  can remove those of a gateway that started in between.
- `UnloadConfirmed` (service.rs:578, the vault must be missing in consecutive samples): the check
  before each attempt of `run_as_service` is a single sample, so a service that is retrying can
  unload during a restore.
- The socket bind is not "the only real mutual exclusion" (service.rs:318): `bind_exclusive`
  connects, removes and binds in three steps, and two starts that met the same stale socket could
  both own it. What excludes them is the port, bound before; with `Ports` of two elements
  `StartsSpareOwner` fails.
- `RouteKeepsRecord` (envlink.rs, the module's promise): removing a route takes its link rows, and
  with them the only record of what the files held.
- `BypassesProxy` (envlink.rs, GW-12): two routes linked in one file share `NO_PROXY`; the unlink of
  the one that added the entry removes it for the other.
- `ProvenanceKept` (tracking/state.rs, NEW-32): the `upsert` of a re-apply clears the summary, and a
  failure before `record_routes_created` loses which routes the setup created.
- `FirstTrafficOfSession` (tracking/state.rs): a refresh that judged an older session writes its
  first traffic into the row of a session opened meanwhile; the write is outside the
  compare-and-swap.

Other consequences the models reproduce: two commands that link or unlink one project at once, or
two routes that share a variable, can leave a line without a record or a prior that is not restored; `UntouchedReturns` fails with
a changing port for the reason above; undo checks the version once, so an apply that starts
afterwards loses its links to the teardown, and the loser of two racing applies records its
failure on the winner's session; after `delete_all` row ids start again, so new traffic is not
admissible until they pass `applied_event_rowid`; a stale roll-up can move the watermark back; a
sweep may record `launcher_gone` for a launcher that has just reaped its child and is about to
close the row itself, and the verdict then stays.

## Proofs

Every theorem holds for all values of the constants that satisfy the named assumptions.

**`GatewayWriter_proofs`** (`TypeCorrect`, `AccountingCorrect`, `OrderCorrect`, `FlushCorrect`,
`DepthCorrect`, `WriterImplementsSink`), from `QueueAssumption` (the counter is wider than the
channel), `TailAssumption` (the code's constants satisfy it) and `KindAssumption`.
`EveryOutcomeCounted` is not inductive: to know that a message counted as
written was not counted before, one has to know where each message is. `Placement` says so: what
the queue and the batch hold are the messages whose fate is `queued` and `taken`, without
repetition, and where a caller is in its call agrees with its message's fate. The invariant is
`TypeOK /\ Placement /\ EveryOutcomeCounted`; the cardinalities are moved with lemmas on adding
and removing one message.

The second invariant, `OrderInv`, is about order. `Flow`: a message in flight is in the channel or in
the batch. `TailReach`: during the last drain, what entered the channel before it is close enough to
the head to be reached within the tail's bound; this is where the bound of the tail is used, and why
what is lost came late. `Barrier`: what a flush owes stands before it in the channel and is settled once
the worker has it. `Depth`: the counter is the number of messages announced less the number released,
modulo its width; when nothing is in flight the two sets differ by what was lost, which is less than
the width (`LostFew`). Every step is one of a few ways to move a message (`Move`), and each part of the
invariant is shown for those instead of for thirty actions. The refinement is then step by step: a send
accepts or refuses; a record stored or failed, or a batch that could not be opened, settles records
that no other is ahead of; the drain begins closing; the exit discards; every other step leaves
`Line`'s records and their outcomes alone.

**`Gateway_proofs`** is about two parts that share no state.

*The link writer* (`LinkTypeCorrect`, `LinesAccounted`, `PriorReturns`), from `LinkAssumption`, for
any files, routes, values and bounds. `LinkTypeCorrect` is for any number of commands. The other
two are for commands one at a time (`[]Alone`), each of which may die, fail or lose a write anywhere
while the user edits files and removes routes, and for routes that read different variables
(`Apart`). Both hypotheses are needed: TLC finds each property violated when one of them is
dropped (see the divergences). The argument is `LinkInv`, three statements about the database and the history, kept by every step:
`FileOK`, each line that points at the gateway is the one its row remembers writing (`Accounted`),
every other assignment is the user's, and `NO_PROXY` has the gateway's entries only while some row
remembers it without them; `RowOK`, what a row remembers is the user's and never one of the
writer's own lines (which is what `merge_prior` is for); and `JobOK`, what the command relies on: before
the first file is written the row remembers everything that is about to be written over
(`Recorded`), and when the row goes, every file that was read is rid of the route (`Cleared`) or the
command is unsettled and keeps the row. `Covers` and `Put` say how a row may change without taking a
record away from a line; `Restored` gives back only what was recorded. Rows that go with their
route are the exception the properties name (`orphaned`).

*The matching key* (`TypeCorrect`, `WindowBounded`, `RevocationFinal`, `TablesNotOlder`), from
`KeyAssumption`, for any exchanges, durations, cap and channel. `WindowInv` adds that nothing has aged without a window; `RevokeInv` that
the key is already gone when a revocation clears the matcher. `TableInv` is about the channel:
tables travel it in order (`InOrder`), none is newer than the last push (`Numbered`), and every
holder of a key - the service, a push on its way, an open exchange, a record in the channel - has
the table of that key, or a newer one, or a clear, ahead of it (`KeysCovered`, `ChannelCovered`).

**`Rotation_proofs`** (`TypeCorrect`, `OrderKept`, `OrderImplemented`, `DestructionVerified`,
`RevocationTraced`; and four theorems on a lone process), from
`KeysAssumption`, `DestsAssumption` and `ProvidersAssumption`, for any number of processes,
rotations of the credential, destinations and exports. Every operation acts on a copy that may be
out of date, so the invariant has three layers: what a row looks like (`RowOK`), what an operation
knows at each step (`OpOK`), and what a copy shares with its row however old it is (`Ahead`: a stored
version, a plan, the validation, the disabling, a recorded attempt, the mode and the identity of the
old key are never undone). `Grows` says that no step undoes those facts, which is what keeps the copies of all *other*
processes true when one moves. There is one lemma for each group of steps, then the other
temporal theorems follow from the invariant and one look at each step that writes `state` or
`key`.

`OrderImplemented` is the refinement, for any number of processes and rotations. A compare-and-swap
tells that the state is still the one loaded and nothing else, so the lemma of each move has
to find in the invariant what the record holds *now*: that a copy past planning has a row past
planning, that the states from `replacement_stored` on, and every step of a rollback, have a
stored version, that `updating_destinations` has a plan, and that the program retires a key it could
disable only where the disabling is on record (`RowOK`, `OpOK`). `SwapMoves` turns a swap into a
move once; `Noted` turns a written field into a fact that is new or was there already; `RowMapped`
carries a change of one row through the mapping.

`RollbackTakesBack`, `RollbackRestoresLiveKey`, `RevokedKeyUnused` and `OrphanGuarded` are about
one process on one rotation (`Alone`), which may die at any step and start again while the user replaces the value and
removes keys. The hypothesis is needed: two processes break every one of them (see the runs and
the finding), and another rotation may well destroy a key this one restored. `SInv` adds to the
invariant what a lone process may rely on: its copy is the row until it writes itself
(`CopyAlone`); the key in hand is a version of nothing yet (`HandAlone`); a replacement's value
differs from the one it replaced and from all that came after (`Replaced`); a destination whose step
is recorded as executed does not serve the old key (`Deployed`); the value to restore is the old
version, or the value has moved past the replacement by itself (`BackAlone`, `Returned`).
`RollbackRestoresLiveKey` excludes providers whose connector disables keys, for which it is false
(see the divergences); the others hold for every provider.

**`VaultCredentials_proofs`** (`TypeCorrect`, `Decryptable`, `VersionsRight`, `RotationRestorable`,
`ReferencesRight`), from `BoundsAssumption` and `NoneAssumption`, for any processes, projects and
credentials. `AlwaysDecryptable` speaks of the records that bear a value; to keep it when a project
is given a new key, one has to know that such a record lies in a project that exists and has a
number and a key that fit (`Housed`), that nothing is retained or pinned of any other (`Gone`),
that a project that exists has a key (`Keyed`), and what an operation that is half done still
holds (`Referring`, `Valueless`). The five properties are then kept together: a replacement keeps
`PinnedKept` because the version it prunes is exempt, and `VersionsTruthful` because the number it
retains under is that of the value. `CredentialWritten` is the step for one credential, `Rekeyed`
the step for all credentials of a project.

**`Tracking_proofs`** (`TypeCorrect`, `SummaryOfSession`, `EvidenceRight`, `FailureStays`), from
`TrackingAssumption`, for any processes, routes, clock readings and number of requests. What a
command knows is said only of a handle that is still current (`Knows`): its session is the row's,
its copy agrees with the row, its decision is backed by an observation. Every guarded write moves
the version, so it takes that from all other commands at once (`WriteStep`); the write-once
watermarks are outside the version, and touch nothing a handle is compared with
(`WatermarkStep`). That an admissible observation is one of the session is a fact about row ids
(`EventsOK`, `Below`): what was recorded in an earlier session is not beyond the watermark, which
holds when the session is opened (`Upserts`) and again when the watermark is moved
(`ReadsWatermark`, then `RecordsApplied`). `FailureStays` looks at each step that can clear the
failure record, and only the refresh that judged it answered is left.

**`ServiceClaim_proofs`** (`TypeCorrect`, `OwnerSpared`), from `ClaimAssumption`; `OwnerSpared` also
from one port for all. A process holds its port exactly between `BindPort` and `JoinListener`
(`Holds`), and nobody else holds the same one (`Excluded`). Every step of a start that touches a
file by its path lies in that interval, so it is not taken while another gateway serves; a failed
start or a death touches no file of another (`OthersLeft`); the tail of a stop is outside the
interval and is the exception the property names. `Unconfirmed` is what keeps the count of misses
in its type.

**`ObservedRun_proofs`** (`TypeCorrect`, `TeardownComplete`, `VerdictCorrect`, `OrphanCorrect`,
`VerdictFinal`), from `ProxyAssumption` (finitely many connections), `SessionAssumption` and
`ReapAssumption`. The argument is `Reach`: wherever `stop` is, every live worker is in the registry or
about to be, then in the registry once the listener has been joined, then among those `stop` took,
and none is left after it; so no worker can send when the writer's channel is closed (`Drained`).
`Places` ties the launcher's place to that: from `terminating` on the proxy has stopped, from
`attributing` on the writer has ended. The verdict is written at `closing` only, or by a sweep whose
probe found the child gone (`Swept`). `Counted` is needed for the type of `active`, which exceeds the
live workers by one where a spawn that panicked has left its place taken.

**`RuntimeMetrics_proofs`** (`TypeCorrect`, `WatermarkSound`, `DaysCorrect`, `AttributionCounted`,
`ErasureComplete`, `PruningSound`), from `TimeAssumption` and `EventsAssumption`, for any number of
events, any hour, day, life and lag. `BehindWatermarkCounted` speaks of the watermark, but a
watermark may go back and a sweep may hold an old one: the invariant speaks of every mark anybody has
read (`Marks`). Behind each of them an event is counted, past its life, given up, or owed a re-roll by
somebody (`Behind`); and it is counted or it came late (`Foreseen`), which is what makes a prune safe
even when the mark it uses is out of date. `Dated` says that a clock read earlier is not ahead.
`Deletion` lists where a delete can be between its statements, and that buckets, once gone, are not
written again from rows that were to go. The sums of `DaysAddUp` need facts about hours and days as quotients
(`HourFacts`, `DayFacts`, `BeforeMark`) and that a non-empty set of hours has a first and a last one.

**Only model-checked.** Liveness (`ForwardingNeverWaits`, `StopReturns`, `WorkerDrains`,
`LockedKeyEnds`, `LockEndsRun`, `OrphanClosed`, `ServiceComesUp`), which is out of the prover's reach.
Every invariant that a run checks is proved.

Defined in a module and in no run's list: the `TypeOK` of `VaultCredentials`, `Tracking` and
`ServiceClaim`, `DaysAddUp` and `AttributedCounted` (`RuntimeMetrics`), `ReferencesResolve` and
`VersionsTruthful` (`VaultCredentials`), `QuietAfterStop` (`ObservationProxy`) and, for one
process, `OrphanSurfaced`, and `ForwardOnly` (`Rotation`), each of them proved;
`NoStaleMatcher` (`GatewayWriter`) and `LateEventCounted` (`RuntimeMetrics`), found by TLC to hold. A configuration that names one checks it.

## Not modelled

Parsing, formatting and pure I/O (scanners, git, pricing, connectors' HTTP, exports' file
formats) and the front ends: they are most of the repository's lines, and have no state that two
actors share. Inside the modelled components: the protocol framing of the control channel, the
attributed session of the gateway's records, comments and duplicate keys of environment files and
the upgrade of old link records, the health report of tracking, a failing `try_wait`, and the
deletion of a session row while its run goes on. The other components whose status is
`not_modelled` in `PROJECT.json` are in the plan or have their reason there.

## Plan

Done: `GatewayWriter` and `Rotation` with their abstract specifications, `MatchingKey`, `RuntimeMetrics`,
`VaultCredentials`, `VaultSession`, `ObservationProxy`, `ObservedRun`, `EnvLink`, `Tracking`,
`ServiceClaim`.

Next, in order of weight:

1. The listener: its connection cap and the drain at shutdown, composed with `GatewayWriter`.
2. `SyncPlan` as a module of its own, with drift checks and manual steps, composed by `Rotation`; two
   rotations of one credential; the replay of a manual replacement.
3. `AccessGrants`: one-time and bounded grants consumed by concurrent launches.
4. The alert life cycle; staged restore.

An abstract specification to refine: the table order of attribution (`MatchingKey` over a lossless
channel).

# TLA+ models of PlateVault

PlateVault (this repository, `alm`) manages an astrophotographer's image
library: it scans folders, groups frames into sessions, and changes the disk
only through *plans*, lists of file operations a user reviews, approves and
applies. The models follow a file through that system: a plan that is made from
an inbox item, reviewed and run; the item's bytes through crashes and power
losses; the item that is closed when the plan ends; the folder that is watched
for what other programs write; the ledger that makes commands happen once; the
caches of the protection settings that reviews and cleanup ask; and the event bus,
from the end of a tool's run to its manifest and the log window.

Paths below are relative to `src/`; `…/` abbreviates `crates/app/core/src/`.

## The modules

| module | what it is |
|---|---|
| `PlanApply` | one plan from `approved` to its end: commands, executor task, rows, boot task, files |
| `RetryQueue` | the queue between `retry_plan_item` and the executor, instantiated by `PlanApply` |
| `PlanLifecycle` | the abstract plan: the transition table, and files that move once under `applying` |
| `PlanReview` | several plans: approve, reopen, discard, retry, and the registry of overlapping runs |
| `ItemCustody` | one item of any kind, system call by system call, with crashes and power losses |
| `ItemEffect` | the abstract item: done once, recorded only when done |
| `CommandLedger` | command rows, leases, audit and outbox, over a clock with two orders |
| `CommandOnce` | the abstract ledger: one result per command, told to everyone |
| `InboxPlans` | inbox items, their plans and links, the listener and the repair sweep |
| `ArtifactWatch` | the watcher of an output folder: attach, detach, comparison, debounce, overflow |
| `ProtectionCaches` | the protection defaults and overrides, and the two caches in front of them |
| `EventDelivery` | the events table, the broadcast ring, the sweep that publishes a run, its manifest subscriber, the log forwarder |
| `…Proofs` | theorems of `PlanApply` (with its refinement of `PlanLifecycle`), `PlanReview`, `ItemCustody`, `CommandLedger`, `InboxPlans`, `ArtifactWatch`, `ProtectionCaches` and `EventDelivery`, proved by TLAPS |
| `MC…` | the same modules with the definitions and symmetry sets TLC needs |

Three detailed modules implement an abstract one through `INSTANCE … WITH`:
`PlanApply` implements `PlanLifecycle` (`KeepsLifecycle`), `ItemCustody`
implements `ItemEffect` (`KeepsCustody`), `CommandLedger` implements `CommandOnce`
(`OneResult`). `PlanApply` composes `RetryQueue`.

The modules overlap at their edges, each with the other's part as one step:
`PlanReview` has a run as "works, pauses, ends" where `PlanApply` has its inside;
`PlanApply` has an item's work as one step where `ItemCustody` has its calls;
`InboxPlans` has a plan's review and run as `PlanEnds`.

## Inventory of the system

For each component: the state it keeps, its operations, who it talks to, what
is hard about it, and what makes it correct.

**Plan apply use cases** (`…/plan_apply.rs`, `…/plan_apply/`). A process-wide
registry with one entry per running plan, holding the cancellation token, the
`SkipSet` and the `RetryQueue`; a guard (`ActiveRunGuard`) whose drop removes the
entry. Commands: `apply_plan`, `cancel_plan`, `skip_plan_item`,
`retry_plan_item`, `resume_plan`; per run, a flush buffer and the end-of-run
handlers. Hard: commands interleave with each other and with the task at every
`await`; a registry look-up, a row and the plan's state are read at different
times. Correct when the entry has one owner, an accepted command is honoured
or refused, and a plan's state, rows, counters and files agree when it is over.

**Executor** (`crates/fs/executor/src/run/`). Runs in a spawned task, holds the
items of the pass and of the retry drain. It reads the token and the skips at
the top of its loop, the queue between items, and reports outcomes through
callbacks. Hard: the end of the run races a retry; every early exit holds ids
that only it knows.

**File operations and reconciliation** (`crates/fs/executor/src/ops/`,
`reconcile.rs`). A move is a rename, or copy, mtime and delete across volumes;
`classify` looks at both paths after a crash. Correct when a file is never lost
and the row tells where it is.

**Plan rows** (`crates/persistence/plans/src/repositories/plan_apply.rs`).
`plans.state`, `plan_items.item_state`, four counters, a run row. One transaction
per operation; some UPDATEs are guarded by the state they leave, some are not.

**Lifecycle table** (`crates/domain/core/src/lifecycle/plan.rs`). Pure.

**Plan review** (`…/plans/`). Approve, discard, reopen and
retry-as-a-new-plan. Hard: check-then-write with and without a guard; a token ties
an apply to the approval it was read from; paths of several plans overlap.
Correct when no run starts on an approval that was taken back, a plan runs once,
and overlapping plans never run together.

**Command ledger** (`crates/persistence/lifecycle/…/command_ledger/`). One row
per command with lease owner, generation and expiry; `claim`, `heartbeat`,
`finish`, outbox polling. Hard: an expired worker against its successor, two tasks
with one worker id, times compared as instants and as text. Correct when a
command has one result, one audit row and one outbox sequence, and a replay
returns that result.

**Inbox listener and repair** (`crates/app/inbox/src/plan_listener.rs`,
`repair.rs`, with `confirm.rs`, `classify.rs`). An inbox item in `plan_open` and a
link row that is the work queue; a listener on a lossy broadcast and a sweep every
five minutes, under a lock per plan. Correct when every link of an ended plan is
removed, once, after its side effects, and none before.

**Artifact watcher** (`apps/desktop/src-tauri/src/watcher.rs`,
`crates/fs/inventory`, `crates/workflow/artifacts`, `crates/app/lifecycle`). Rows of
files the processing tools write; a registry of watchers, tombstones, bounded
channels, a debouncing task per watcher, a comparison of folder and rows.
Hard: events lost, a comparison beside live events, a detach beside an attach.
Correct when what is written gets its row, a row at most one event, and only files
that were absent are marked missing.

**Event bus and its subscribers** (`crates/audit/`, `crates/persistence/lifecycle/…/events.rs`,
`crates/app/projects/src/project_manifests.rs`, `crates/app/lifecycle/src/artifact/launches.rs`,
`apps/desktop/src-tauri/src/commands/log.rs`). The `events` table, a broadcast ring,
a cursor in each subscriber. A publish inserts, then sends; the ring overwrites what
a slow receiver has not read; the subscriber of completed runs writes manifests and
replays the table after a lag; the log forwarder reads the table on every signal.
Hard: rows are committed and sent in different orders; what is missed must be met by
a page, a cursor or a later event; the replay publishes on the bus it lags on.
Correct when no launch is announced twice, each announced run gets a manifest,
not many, and the window shows every row.

**Protection and its caches** (`…/protection/`, `crates/app/cache/`,
`crates/app/settings/src/writes.rs`). Tables of defaults and overrides; a slot with
a snapshot of the defaults, an epoch, and answers per source tagged with it. Hard:
a loader reads, a writer commits and invalidates, the loader stores. Correct when
an answer that is not about to be invalidated is what the tables say.

**Session materialization, update views, calibration hand-off, topology,
targets and ingest resolution, projects.** Each is a set of operations that are
one SQLite transaction over versioned rows, most of them under the command
ledger; update views also install files without replacing any.

**Generators, metadata, patterns, path safety, inventory, grouping.** Pure
functions over file metadata and strings.

**Desktop shell** (`apps/desktop/src-tauri/`). Starts the boot task, the
listeners, watchers and the window; the TypeScript frontend is a view over the
commands.

`PROJECT.json` has the same list with a status and files, and the hazards with the
line where each one bites.

## How the modules correspond to the code

### `PlanApply`, `RetryQueue`, `PlanLifecycle`: one running plan

A step is one SQLite transaction, one critical section of an in-memory lock, or
one file operation. Between two steps everything else may run.

| state | code |
|---|---|
| `planState`, `row`, `cnt` | `plans.state`, `plan_items.item_state`, the plan's four counters |
| `reg`, `cancelTok`, `skipSet` | the plan's entry in `active_runs()`, its token and `SkipSet` |
| `open`, `queued`, `orphaned` | the entry's `RetryQueue` |
| `pc`, `ahead`, `known`, `cur`, `batch`, `outcome` | the executor task: where it is, items not reached, `item_by_id`, the item in hand, drained ids, how the loop ended |
| `buf`, `seen`, `pausing` | `FlushBuffer`, the counters `cumulative_counts` read, a paused task that has dropped its guard and still has to write `paused` |
| `cmd` | for each caller the command it has in flight, where it is, and what it has read |
| `bootPc`, `bootTodo` | the boot task |
| `disk` | for each item's file: not moved, moved, or copied with the source left |
| `issued`, `crashes`, `dbFails` | bounds |
| `accepted`, `cancelAcked`, `skipAcked` | history: accepted retries not yet settled, a cancel answered since the last spawn, skips answered before the pass got there |

| actions | code |
|---|---|
| `ApplyRead`, `ResumeRead`, `Load`, `Register`, `Claim`, `Spawn`, `LaunchFails` | `apply_plan`, `resume_plan` up to `spawn_executor_run`, with its error exits |
| `CancelRead`, `CancelSignal`, `CancelPendings`, `CancelOrphans`, `CancelFinish` | `cancel_plan`, with its branch for a paused plan |
| `SkipCheck`, `SkipWrite`, `SkipMark` | `skip_plan_item` |
| `RetryCheck`, `RetryFlip`, `RetryPush`, `RetryUndo` | `retry_plan_item` |
| `PassCancelled`, `PassSkip`, `PassStart`, `PassComplete`, `Drain`, `BatchCancelled`, `BatchStart`, `BatchUnknown`, `WorkEnds`, `WorkPauses` | `drive_plan`, `drain_retries`, `process_single_item` |
| `FinalFlush`, `Restore`, `Dispatch`, `PauseRun`, `EndPendings`, `EndOrphans`, `EndCount`, `EndComplete`, `Release` | the rest of the spawned task |
| `BootSweep`, `BootList`, `BootItem` | `sweep_crashed_applying_plans`, `reconcile_crashed_plans` |
| `Crash` | the process dies at any point, also inside a file operation |

What is merged or left out, and why nothing is lost by it:

- An item's mutation, the push of its outcome onto the buffer and the flush that
  push may trigger are one step: buffer and file are the task's own, and a crash
  inside the step is `Crash`, which leaves the file in any of its three places.
- A run's early exit calls `orphan` and then `close`; they are one step because an
  id pushed between them is orphaned by the second, as if pushed before both.
- The reads at the start of skip and retry are one step: the writes that follow
  have their own guards, or visibly lack them.
- `Rootless` are the items for which the boot task finds no path: those without a
  root id, which is every item of a project's archive or cleanup plan
  (`archive_generator.rs:125`, `cleanup_generator/generate.rs:80`, passed on by
  `cleanup_plan.rs:249`), and those whose root is not registered any more. `classify`
  calls each of them ambiguous and `BootItem` records it `failed`, whether its file was
  moved or not. The runs of one plan have one such item, the second.
- A look-up of a root that fails in passing (`resolve_root_path` swallows the error) is
  a failed database access of `BootItem`, for one item at a time: the code keeps the
  answer for all items of that root. Items of a catalogue plan, which touch no file
  and are always recorded, are left out.
- `flush` may happen after any outcome, not only when the buffer is full, because
  the code also flushes on a timer window.
- The gates of one item (approval snapshot, protection, path safety, I/O errors)
  are the choice in `Results` and `WorkPauses`. Whether a resume's revalidation
  lets the user through is the user's choice to issue it.
- `stale` and `refused` outcomes are stored as `failed`. The run row's
  `terminal_state` moves in the transactions that move `plans.state`, and
  `items_pending` is for display; neither is modelled.
- The fallback when `cumulative_counts` cannot read, a panic of the task, audit
  rows, events and finalizers are left out; a failed publish of the started event
  is in (`LaunchFails`). `Crash` keeps the database; a power loss that rewinds
  it is in `ItemCustody`.

The `Next` relation ends in `AtRest /\ UNCHANGED vars`: with nothing under way the
system may wait for ever for a user. TLC's deadlock check stays on, so everything
else that could hang would be reported.

### `PlanReview`: several plans and callers

`state`, `token` are `plans.state` and `approval_token`; `registry` is
`active_runs()`; `task[p]` the executor task of a plan and whether it has dropped
its guard; `user[u]` a call: where it is and what it has read. The reads of
approve, reopen, discard, apply, resume and cancel are one step, their writes
another, each with its WHERE clause (`MayApprove`, `MayReopen`, `MayClaim`) or,
where the code has none (`soft_delete_plan`, `update_plan_state`, `complete_run`,
`pause_run`, the cancel of a paused plan), without. `Register` is the check and
insert under `OVERLAP_GATE`, with `Overlaps` and `StartsWith` on paths as sequences
of components. `minted`, `runs` and `withdrawn` are history. The terminal states of
a run are the one state `ended`. `Restart` takes everything in memory and pauses
`applying` plans.

### `ItemCustody`: one item and the power

`kind` is one of seven ways an item acts on its paths (rename, cross-volume move,
trash, removal, creation, link, link as copy). An item for the trash is stored with the
action `archive` and sent to the trash by the plan's choice (`paths.rs:217`), so that
`shape_for` takes it for a relocation: removed before the crash, it is ambiguous at the
boot and not completed. `log` is the list of committed states
since the last checkpoint: with `synchronous = NORMAL` a power loss keeps any
prefix (`PowerLoss`), a crash keeps all (`Crash`). Between are the calls of each
operation (`Check`, `Rename`, `Copy`, `DeleteSource`, `Undo`, `Make`, `WriteFirst`,
`WriteRest`), each of which may fail (`CallFails`), the commit of the outcome
(`Record`), and the boot (`BootSweep`, `BootReconcile` with `Verdict`, which is
`classify`, for paths that resolve and, at any boot, for paths that do not). The bytes of a file are one value, because the copy goes to a
temporary name first; `part` is a file `create_link` has begun to copy in place.
Directory fsyncs are left out: what the file system has done stays done.

### `CommandLedger`: the durable commands

Each operation that writes is one `BEGIN IMMEDIATE` transaction and one action:
`ClaimNew`, `ClaimReplayed`, `ClaimExpired`, `Heartbeat`, `Finish`, `FinishAgain`
(a finish that finds a result), the marks of delivery. A lease lives in the memory
of a task until the task claims again or dies (`Crash`). `LeaseIsActive` compares
instants; `TextAfterNow` is what the WHERE clauses compare: the two sides are
rendered with different digits of fraction, so that at equal instants and on whole
seconds the text says "later", with `PerSec` ticks to a second (at most ten, one
digit). A payload mismatch, an answer "in progress" and the actor's upsert leave the
tables alone.
`told` and `wonBy` are history.

### `InboxPlans`: items, links and the two closers

Every database statement is a step, as in the code, which has no transaction
around them. `link` is `inbox_plan_links`, whose key is the item; `bus` the
broadcast channel, which drops its oldest event; `closer` the listener and the
sweep: what they have received, where they are, which item they hold; `lock`
`PLAN_COMPLETION_LOCKS`. A closer goes lock, register, session, print (fingerprint),
find, state, delete; plans that did not apply start at find. `StepFails` is a
failing statement of a closer, `CallFails` one of a command, `Crash` the process.
`Races = FALSE` says that nobody links a new plan to an item, nor ends a plan,
while an earlier call is at work on it; with `Races` the per-plan lock does not
help and the properties fail (below). With one user the losing branch of
`ConfirmLink` is not reached; it is with two.

### `ArtifactWatch`: one output folder

`slot[a]` is an attach call up to its insert and then the forward task it has
spawned, with the comparison either of them is in: list rows, walk directory by
directory, mark missing, look up, insert, tell. `telling[a]` are the rows its task has
inserted and committed and not yet announced: the inserts of `detect_batch` are one
transaction (`InsertNew`), the reading that finds out which of them landed and the
publication another step (`ScanTell`), and so are the insert and the publication of
`detect` (`DetectInsert`, `DetectTell`). In between the reading or the publication may
fail (`ScanFails`, `DetectFails`), the watcher may be dropped (`Discard`) or the
process die (`Crash`, which leaves the table and the folder). `entry` and `tombstone`
are the registry and `detach_requested`. `chan`, `over`, `pend`, `work` are the channel,
its overflow flag, the debounce table and the detect call of the task. The debounce
window is abstract: `Tick` takes any non-empty set of pending files. `WriteLost` is an
OS error instead of an event. Of a row its state is kept, of a file its size (0 for
none). `announced`, `unsaid` (announcements that were lost), `absent`, `owed` and
`detached` are history.

### `ProtectionCaches`: defaults, overrides and two caches

`rows`, `over` are the tables `protection_defaults` and `source_protection_state`;
`slot`, `epoch`, `entry` the snapshot, its epoch and the answers per source. A call
(`step`, `src`, `tag`, `got`, `row`: where it is and what it has read) is a get, a
load without a source (plan checks, cleanup scans), an update, a restore, or a
set or seed of an override. Each query is a step, one per default; clearing the
slot and bumping the epoch are two. `AbortRestore` is an audit row that fails after
the restore's commit: the call ends before the invalidation.

An entry holds the snapshot and the override it was made of instead of their
combination, so that the properties can say what it is compared with (`Effective`).
`suspect`, in what is cached and in what a call has read, is history: an
invalidation, or an aborted restore, fell between the read and the store. The
properties say that nothing else is ever stale. Left out: the fallback to the
legacy settings rows (the defaults are seeded by a migration), eviction at 8192
entries (an evicted answer is a miss, which every run has), and the other caches.

### `EventDelivery`: from a finished tool to its manifest

`rows` is the `events` table, a row being its topic, or the launch whose run it
completes; `outgoing[t]` the row a task has inserted and not yet sent (`Insert` and
`Send` are the two halves of `EventBus::publish`, `FlushRow` those of `publish_batch`
and `broadcast_only`); `sent` and `next` the ring, of which the last `RingSize`
messages can be read. `completed` is `tool_launches.completed_at`, `manifests` the
rows of that table.

| actions | code |
|---|---|
| `SweepList`, `SweepComplete`, `SweepPublish`, `SweepFails` | `sweep_stale_launches`, `complete_run`, `complete_tool_launch` |
| `RunsReceive`, `RunsLagged` | the loop of `spawn_workflow_run_subscriber` |
| `RunsQuery`, `RunsQueryFails`, `RunsRow` | `replay_workflow_events_since`, a page and a row at a time |
| `WriteAttempt`, `WriteManifest`, `WriteTell` | `handle_workflow_run_event` and `write`, with the two events each manifest publishes |
| `LogStart`, `LogReceive`, `LogLagged` | `start_log_forwarder`, `rewound_cursor`, `drain_since` |
| `Restart` | the process ends: ring, tasks and cursors are gone, the tables stay |

When an attribution window closes is the choice of `SweepList`. `handled`, `gaveUp`
and `shown` are history. The subscriber waits between `Insert` and `Send` of its own
events, as the code awaits `publish`. Left out: the text of manifests and log
entries, the level filter of the window, the rows the pruner would delete (it has no
production caller), and the other subscribers of the bus: the plan listener is in
`InboxPlans`, the notifier and the onboarding ticks keep no cursor.

## The runs

| run | bounds | what it shows |
|---|---|---|
| `apply_any_schedule` | 2 items of which one has no root, 2 callers, 3 of apply, cancel, retry, resume, 1 crash, 1 failed write, commands beside the boot task, every outcome flushed at once | `TypeOK`, `OneOwner`, `AcceptedRetryKept`, `SweepSparesAccepted`: what must hold under any schedule |
| `apply_one_user` | 3 items of which one has no root, 1 caller, 5 of apply, cancel, retry, resume, 1 crash | `MovedNeverReRun`, `MovedIsRecorded`, `TerminalSettles`, `NoStartAfterCancel`, `KeepsLifecycle` |
| `apply_live` | 2 items of which one has no root, 1 caller, all commands, 4 issued, 1 crash, fairness | `RunEnds`, `RetrySettles`, `AckedSkipNeverRuns` |
| `review` | 2 plans, one claiming a directory above the other's path, 3 callers, 1 restart | `NoOverlappingRuns`, `RunsOnce`, `WithdrawnNeverStarts` |
| `custody` | an item of each kind, with paths that do or do not resolve, 4 runs and retries, 3 failing calls, 3 crashes or power losses, checkpoints that succeed | `NeverLost`, `IntentBeforeEffect`, `LeftIsUntouched`, `KeepsCustody` |
| `ledger` | 1 command, 3 tasks of which two share a worker id, leases of 3 ticks, 2 ticks to a second, 9 ticks, 1 set-back | `EffectsOnce`, `OneHolder`, `LastClaimWins`, `LeaseExcludes`, `OneResult` |
| `inbox` | 1 master item, 2 plans, 1 caller, a channel of 1, 2 faults, fairness | `ResolvedIsRegistered`, `RegisteredOnce`, `LinkOutlivesPlan`, `LinkCloses` |
| `watch` | 2 files of one base name in 2 directories, 2 attaches, a channel of 1, 2 changes, 1 detach, 1 fault or crash | `AnnouncedAtMostOnce`, `MissingWasAbsent` |
| `watch_live` | 2 files, 1 attach at a time, a channel of 1, 3 changes, 1 detach, 1 lost event, fairness | `DetachHolds`, `WrittenIsRecorded` |
| `protection` | 2 calls, 2 defaults, 1 source, 3 writes, failing audit rows, restarts | `SlotStaleOnlyIfSuspect`, `EntryStaleOnlyIfSuspect` |
| `events` | a ring of 1, pages of 1, a window of 2, four situations (below), fairness | `LaunchAnnouncedOnce`, `NoRunSlips`, `DuplicatesBounded`, `LogMissesNothing`, `RunIsTaken`, `ReplaySettles` |
| `doc_double_retry` | 2 items, 2 callers, 3 of apply, retry | expected to fail: a statement of spec 025 |

The type invariants of the modules other than `PlanApply` are in no run: they are
proved.

Why the bounds are enough.

- Plan application: the code treats items one at a time and never compares two of
  them except by order, so three items give a pass with one done, one in hand and
  one ahead. Interference is between one command and the task, or between two
  commands; two callers and three commands contain apply and any two others, five
  commands of one caller contain apply, retry, pause, crash, resume and one more.
  `FlushLimit = 2` is small enough for a flush to fall on both sides of every item,
  and 1 to have rows that follow the files at once: the invariants of
  `apply_any_schedule` say nothing of the buffer's contents or of the `SkipSet`.
- Review: the gate compares plans in pairs, and a race has at most one call
  between another's read and write on each side, which is three calls.
- Custody: a retry or resume after a cut after a retry has four runs, and three
  cuts reach a cut during the boot that follows a cut.
- Ledger: commands do not interact. A third task makes a take-over of a
  take-over; nine ticks hold three leases, and the two ticks of a second put every
  expiry on and off a whole second.
- Inbox: two plans are an item confirmed again after its first plan ended; a
  channel of one loses an event as soon as two plans end. Two callers without
  faults, and with one fault, were also checked and pass.
- Watcher: two files of one name are what base-name matching can confuse; a channel
  of one overflows with the second event. A second attacher adds a concurrent
  comparison and a concurrent forward task.

- Protection: two calls are a loader and a writer, or two loaders, at any point of
  each other; two defaults are a snapshot read half before and half after a
  write; three writes change a default, change it back and set an override.

- Events: a ring of one message lags with the second unread event, a page of one
  makes every replay have a next page. The situations (`MCSetups`): two launches, so
  that one run is published under the replay of the other, with a failed statement or
  an event of somebody else; the log forwarder with a fault and a restart; two
  sweepers of one launch. Together they are too large; what they have in common
  are only counters. `MaxRows` is never reached.

The proofs hold for all values, so for the properties they cover the bounds
only matter to find errors early.

`MovedNeverReRun` and `MovedIsRecorded` speak of every item, and except by name what
the boot task does to an item it cannot resolve: after a crash such an item is
`failed` although it was moved, and a user who retries it makes the executor take it up
again. No forward pass ever does, whatever the crash, and nothing but a retry. In the
same way `AnnouncedAtMostOnce` names what may leave a row without its event.

Several properties hold only for some of the commands; the code's races break
them otherwise, and a run's constants say so rather than the property:

- With two callers and retries, an item can be executed twice (below), which
  breaks `MovedNeverReRun`, `MovedIsRecorded` and the counters in
  `TerminalSettles`.
- Retries that race the end of a run make the failed counter drift and can leave a
  terminal plan with an `applying` row, so `TerminalSettles` speaks of neither;
  a skip that races the flush breaks its counters, so the run has none.
- Two cancels of a paused plan, or a cancel and a resume, break
  `TerminalSettles`, `KeepsLifecycle` and `NoStartAfterCancel`.
- A command that beats the boot sweep can be swept to `paused` under its own
  executor (`BootRace`); the comment at `apps/desktop/src-tauri/src/lib.rs:663`
  takes the registry to be empty then, but the sweep is a spawned task.
- `IntentBeforeEffect` and `LeftIsUntouched` need `SyncFails = FALSE`: a failed
  checkpoint of the intent is only logged.
- The properties of `InboxPlans` need `Races = FALSE`; its type invariant does not.
- `DetachHolds` needs one attach at a time: of two, the first takes the tombstone
  and the second registers. `WrittenIsRecorded` needs statements that succeed,
  directories that can be read and distinct base names.

`CHECK_DEADLOCK FALSE` is in the configurations whose bounds let the modelled part
stop for good (every plan used up, every worker dead, the clock at its end). In
`PlanApply`, `Next` ends in `AtRest /\ UNCHANGED vars`: with nothing under way the
system may wait for a user for ever, and TLC's deadlock check stays on, so that
everything else that could hang would be reported.

## Where the code and its documentation part

One statement of the documentation has a run that refutes it; `PROJECT.json`
"findings" says how.

- `doc_double_retry`: spec 025 says a retried item is re-attempted once, and two
  concurrent retries of one failed item execute it twice.

The models also met the following. They are read off the source or off
counterexamples of configurations that are not kept, and no property claims the
opposite.

Plan application:
- `…/plan_apply/terminal.rs:93`: a retry that fails between the count and the
  completion gives an `applied` plan with a failed item.
- `…/plan_apply/lifecycle.rs:108`: a resume can overtake the cancel of a paused
  plan, although the comment at line 60 takes nothing to be in flight.
- `…/plan_apply/paths.rs:109`: an entry whose start fails drops a retry it has
  accepted, against the comment at `crates/fs/executor/src/run/loop_.rs:134`.
- `…/plan_apply/lifecycle.rs:603`: a skip is answered for an item that is running
  (spec 025, line 167).
- `apps/desktop/src-tauri/src/lib.rs:684`: a second crash between sweep and
  reconciliation leaves a moved item `pending`, against the comment at line 661.
- `…/plan_apply/lifecycle.rs:400`: a resume reads the item rows before it registers
  (458) and claims the plan (469). One that waits there while another resume moves
  an item and pauses runs that item again; one that waits while an item is skipped
  executes it although the skip was answered.
- `…/plan_apply/lifecycle.rs:108`: two cancels of a paused plan each write the counter
  they read plus the rows they cancelled, and the second loses those of the first.
- `…/plan_apply/reconcile.rs:154` says that the boot task resolves a path as the
  executor does. For an item without a root it does not: the executor
  (`crates/fs/executor/src/run/loop_.rs:181`) takes its path as absolute, the boot task
  gives up and records the item `failed`. So after a crash every unsettled item of a
  project's archive or cleanup plan asks for a decision of the user, moved or not, and
  a retry of a moved one fails for want of its source. An item for the trash is
  ambiguous at the boot as well, once its file is gone.
- An item that is skipped while it is being moved keeps `skipped` if a crash comes
  before the flush: the reconciliation looks at `pending` and `applying` rows only.
- An acknowledged cancel whose run still ends `applied` because nothing was left
  ahead of the executor (FR-006); a paused cancel that fails half way and leaves
  items cancelled; rows left `applying` by a crash, which no resume takes;
  buffered outcomes whose flush failed twice, which no boot looks at.

Plan review:
- `…/plans/discard.rs:61` can discard a running plan, which spec 017, FR-013,
  excludes.
- `…/plans/approve.rs:81` writes its file snapshots after the approval is visible.
- `update_plan_state` (`crates/persistence/plans/…/plans.rs:405`) makes a draft
  reviewable that was discarded while its generator ran; a draft made by a retry
  becomes reviewable by no code path.

Items:
- Boot reconciliation takes any destination of a create, link or copy item for the
  item's effect, also a partial copy or a foreign file
  (`crates/fs/executor/src/reconcile.rs:88`).
- A file another program writes between check and rename is overwritten; edits
  of the source between copy and delete are lost; the copied bytes are not synced
  before the source is deleted.

Inbox:
- The completion lock is per plan, so two applied plans of one item can register
  its master twice; a fingerprint that fails after its session was inserted is never
  written (`plan_listener.rs:404`).
- A late delete by item id takes the link of the next plan (`plan_links.rs:67`); a
  cancel that arrives after `applied` deletes the link before the master is
  registered; `classify` overwrites `plan_open`.

Watcher:
- The comment at `…/artifact/detect.rs:85` promises exactly one `artifact.detected` per
  path. It is at most one: the row is committed first, then `detect_batch` reads the
  rows again and returns if it cannot (`reconcile_batch.rs:237`), a failed publication
  is dropped or logged (`detect.rs:123`, `reconcile_batch.rs:308`), and a detach or a
  crash may come before it. The next comparison finds the row and announces nothing.
- Files written between an attach's walk and the start of its OS watcher are
  seen by neither; new subdirectories are not watched.
- A `missing` row never recovers when its file comes back (`mark_recovered` has
  no caller); `mark_missing` overwrites a resolution by the user
  (`artifacts.rs:269`); files are matched to rows by base name.
- Two attaches and one detach leave a watcher behind; the volume sweep can undo a
  detach (`watcher.rs:620`); a rescan request that does not fit into the channel is
  lost (`artifact_watcher.rs:116`).

Caches:
- The contract of `SnapshotCache` (`crates/app/cache/src/lib.rs:274`) says that
  invalidating strictly after the commit closes the window for stale stores. A
  loader (`…/protection/mod.rs:108`) that read before the commit and stores after the
  invalidation leaves the old protection defaults in the slot until the next change:
  `SlotFollowsRows` fails with two callers, and is proved for one (`OneCallerSlot`).
- `restore_defaults` returns when an audit row fails, after its commit and before its
  invalidations (`crates/app/settings/src/writes.rs:364`); both caches stay as
  they were. The creation, change and deletion of a camera have the same order
  before they invalidate the calibration masters
  (`crates/app/calibration/src/equipment.rs`).
- `tolerances_update` (`crates/app/calibration/src/tolerances.rs`) writes what the
  cached matching rules embed and invalidates nothing.
- The path of a library root is cached by the same read-then-store
  (`…/plan_apply/paths.rs`, `resolve_root_path`), so a remap can be overtaken.

Events:
- `crates/audit/src/pruner.rs:20` and `docs/research/audit-log-pruning.md:103` take a
  repeated dispatch for a no-op; `project_manifests.rs:429` says that each adds a
  manifest row, and `DuplicatesBounded` says how many.
- `complete_run` sets `completed_at` and publishes afterwards (`launches.rs:92`): a
  crash in between, and a failed insert of the event, leave a run without manifest,
  since no start replays the table. A replay whose query failed
  (`project_manifests.rs:537`) is resumed by the next lag, if there is one.
- The warning after a lag (`commands/log.rs:274`) calls the events "not shown live";
  the next event shows them.

Ledger: the branch that reconciles discovered evidence (`recovery.rs:97`) is
reached by no row this code writes.

## Fairness

`PlanApply!FairSpec`: weak fairness of the executor task, of the boot task and of
every command already begun. The tokio runtime polls a spawned task and an awaited
command until they end, and none of their steps waits for another of them, since
locks are held only within a step. There is no fairness of `Issue` (users owe
nothing) nor of `Crash`, and none among the alternatives inside a step. `RunEnds`
is checked without failed writes, because the write that ends a run is tried once
and a failed one leaves the plan `applying` until the next start.

`InboxPlans!FairSpec`: weak fairness of the listener and of the sweep, the two
tasks spawned at start-up that run until the process ends. None of callers, ends of
plans, failures or crashes; faults are bounded, as they must be for anything to
succeed in the end. The sweep blocked on the listener's lock waits for a step of a
fair task.

`ArtifactWatch!FairSpec`: weak fairness of each forward task with the comparison
it is in, for the same reason; none of writes, commands or OS errors.

`EventDelivery!FairSpec`: weak fairness of a task that has a row to send, of a sweep
under way, of the subscriber and of the forwarder, all of them tasks the runtime
polls. None of new sweeps, other publishers, failures or restarts.

The other modules state no liveness: nobody owes the next claim of a command, the
approval of a plan or the resume of an item.

## The proofs

All are for every value of the constants the assumptions allow. Each safety proof
is `Init => IInv`, `IInv /\ [Next]_vars => IInv'`, `IInv => Inv`, one step per action
and temporal logic at the end; the type invariant is proved first.

`PlanApplyProofs` assumes `PlanApplyAssumption` (`N` and the bounds are naturals,
`FlushLimit` positive, the commands among the five).

- `TypeCorrect`: `TypeOK` is inductive as it stands; counters stay natural because
  a retry decrements only above zero.
- `EntryHasOneOwner`: `OneOwner`, inductive relative to `TypeOK`.
- `NoAcceptedRetryLost`: `AcceptedRetryKept`. One must know where the task can hold
  ids: `Kept == RunShape /\ AcceptedRetryKept`, where `RunShape` says that an item is
  in hand only while it is worked on, ids only while a batch is handled, and that
  after the loop the queue is closed and empty.
- `SweepTakesNoAcceptedRetry`: `SweepSparesAccepted`, from `Kept` and `OneOwner`.
- `PlanKeepsLifecycle`: `KeepsLifecycle`, with the hypotheses that commands wait for
  the boot task and that nobody cancels or there is one caller. `UnderRun` says that a
  run under way means an `applying` plan, and that a cancel that found the plan paused
  still finds it `paused`. It is needed because `pause_run`, `complete_run` and the
  cancel of a paused plan write the state without looking at it: only who may be where
  keeps their writes on the table's edges.
- `CancelStopsStarts` (`NoStartAfterCancel`), with the same hypotheses, from
  `CancelHeard`: while a loop runs that a cancel was answered for, its token is set.
- `RecordedMovesHappened`: half of `MovedIsRecorded`, what shows `succeeded` was
  moved; for any callers, crashes and failed writes.
- `WorkRunsOut`: each step of the task, of the boot task and of a command lowers a
  natural number of its own (`TaskLeft`, `BootLeft`, `CommandLeft`); the first is
  raised only by a start and by an accepted retry, the second only by a crash,
  the third only by a new command. So no run, no boot and no command goes on for
  ever unless users keep feeding it.

The rest of `PlanApplyProofs` is about one user (`OneUser`: one caller, commands
that wait for the boot task). TLC breaks each statement with two callers, in the
ways listed under the divergences.

- `RowsLive`: a row moves only in the ways `RowMoves` lists, through crashes and
  failed writes; `succeeded` and `cancelled` are for good. The flush writes by id
  whatever the row holds, so its rows must be known when it happens: `RowsKnown` is
  what a command has read (`ReadsHold`), who has an item (`Custody`: ahead, in hand,
  buffered, queued, in the batch, orphaned or named by a command, at most one of
  them, with the row that goes with it) and what the boot task listed (`BootRows`).
- `SkipsAreFinal` (`AckedSkipNeverRuns`) from `SkipHeard`: an item whose skip was
  answered shows `skipped` and is passed over by the pass that has yet to reach it.
- `CountersCount`: the counters of moved and of cancelled items count their rows in
  every state, from `CountsMatch`, which also speaks of the buffer's counter and of
  what a task or a cancel has read and will write back.
- `PlansSettle` (`TerminalSettles`), without failed database accesses, from `CountsMatch`,
  `OutcomeShape` (a completed pass has nothing ahead) and `PendingLeft` (where an
  item can be whose row is still `pending`). A bulk cancellation that fails is logged
  and leaves rows behind, hence the hypothesis.
- `MovedItemsStay` (`MovedNeverReRun`), without failed database accesses and with
  `SteadyBoot`, no crash between the sweep and the end of the reconciliation, from
  `MovedKnown`: no moved item is ahead of the pass, and each is `Found`, that is
  recorded, skipped, buffered or on its way to the boot task, or `Unresolved`, an item
  without a root that a boot recorded `failed` and a retry may have flipped. `SteadyBoot`
  is needed because a swept plan is `paused` and the next boot does not list it.
  `MovedItemsStayAfterACrash`: one crash satisfies it.
- `MovesAreRecorded` and `MovesAreRecordedAfterACrash` (`MovedIsRecorded`), likewise,
  when nobody skips: an item skipped while it is moved, and a crash before the flush,
  leave a moved file whose row says `skipped`. The rows of unresolved items are
  excepted by name.

`PlanReviewProofs`, for any number of plans, callers and claims.

- `ReviewTypeCorrect`: with `CallHasPlan`, a call under way names a plan.
- `EntriesAreHeld`: `EntryHasHolder`, restated call by call (`OneHolderEach`).
- `RunsAreApart`: `NoOverlappingRuns` from `Disjoint` (registered plans do not
  overlap) and that a working task has an entry. Two paths above one file are
  prefixes of each other (`PrefixesCompare`), so disjoint claims give disjoint
  territories.
- `PlansRunOnce` and `WithdrawnStaysDown`: `Lived` says in which states a plan
  can be that ran, did not run, is being made or was withdrawn; `CallLived` that a
  cancel or a spawn is about a plan that ran. A plan that ran never reads
  `approved` again.

`ItemCustodyProofs`, for any sequence of runs, failing calls and cuts.

- `CustodyTypeCorrect`; `FileIsNeverLost` (`NeverLost`) and `ItemEffectKept`
  (`KeepsCustody`, the refinement of `ItemEffect`) from `Custody`: the step fits the
  kind, the paths fit both, and no committed state of the log says `succeeded`
  without the effect. The last part speaks of every entry of the log, not of the
  current one, because a power loss may make any of them current.
- `IntentComesFirst` (`IntentBeforeEffect`) and `ResumeFindsItUntouched`
  (`LeftIsUntouched`), both with the hypothesis `SyncFails = FALSE`: `Known` says
  that every committed state knows of a run that works or has touched a path; `Left`
  that an item to be run or resumed has touched nothing.

`CommandLedgerProofs`, for any number of commands, tasks and shared worker ids,
any lease time and up to ten ticks to a second.

- `LedgerTypeCorrect`; `OneTransactionOnce` (`EffectsOnce`), inductive as it stands.
- `FenceHasOneHolder`, `LateFinishLoses`, `LeasesExclude` from `Fenced == OneHolder
  /\ HeldOnRow /\ LastClaimWins`: a lease in memory is of the row's generation,
  with the row's expiry, or of an older one, and then it has run out as long as the
  clock was not set back. The step that matters is a take-over: what the text
  comparison calls expired has expired as an instant.
- `ImplementsOneResult`: each step is a step of `CommandOnce` or a stutter, with
  `NoResultYet` (only a finished command has a result).

`InboxPlansProofs`, for any items, plans, callers, channel and number of faults;
`InboxTypeCorrect` and the last three theorems also with `Races = TRUE`.

- With `Races = FALSE`, `PlansKeepTheirLinks` (`LinkOutlivesPlan`) from `Links`: a new plan is one
  caller's until it is linked, a plan is linked to one item, what was announced,
  listed or taken has ended, and the item a closer holds is linked to the closer's
  plan or to none.
- Likewise `ResolvedMasterIsRegistered` and `MasterRegisteredOnce` from `Links` and
  `Registered`: who registers holds the lock, no two closers register one item,
  and a closer past the registration has nothing left to register.
- `ClosersUnlink`, in every interleaving: a closer that gets through a plan without
  a fault leaves no link to it. The deletion is by item, not by plan, so it needs
  `LinkedOnce`: a plan has at most one link, and a closer about to delete is at the
  item of that link, or the link is gone. This holds without the hypothesis because no
  confirm links a plan that another knows. What the races break is the other
  direction: the deletion may hit a newer plan's link.
- `LocksAreHeldAtWork`: a closer waiting for a plan's lock holds none, and the
  holder is past waiting and on that plan. With `CloserWorkRunsOut`, no lock is
  waited for without end.
- `CloserWorkRunsOut`, for finitely many items: each step of the listener and of a
  round of the sweep lowers `ToClose`, also a failing one, because a failure ends the
  work on the plan instead of repeating it. It is raised only by the end of a plan and
  by the start of a new round. So a round ends even when every statement fails; that
  the next one is started is fairness.

`ArtifactWatchProofs`, for any folder, number of attaches and channel.

- `WatchTypeCorrect`; `LossWasSeen` (`MissingWasAbsent`) and `DetectedAtMostOnce`
  (`AnnouncedAtMostOnce`) from `Seen`. For the first: each known row of a walk is still
  to be looked for, could not be looked for, was found, or its file was absent. For the
  second, `Telling`: what is to be announced is a row, is one task's to announce, and
  was not given up; an insert that lands makes a row that was none of these.
- `DetachLasts` (`DetachHolds`), with the hypothesis of one attacher: after a
  detach there is a tombstone or nothing under way.

`ProtectionCachesProofs`, for any number of calls, sources, defaults and writes.

- `ProtectionTypeCorrect`; `SlotSound` and `EntriesSound`
  (`SlotStaleOnlyIfSuspect`, `EntryStaleOnlyIfSuspect`) from `Coherent`: what is
  cached, what a call has read so far and what it is about to store is fresh, marked,
  or has an invalidation still to come; and no tag is ahead of the epoch, so that a
  bump makes every answer with the old defaults a miss.
- `OneCallerSlot`, `OneCallerEntries` (`SlotFollowsRows`, `EntriesFollowTables`): with
  one caller whose audit rows are written nothing is ever marked, and both caches are
  what the tables say.

`EventDeliveryProofs`, for any launches, sweepers, ring, page size and window.

- `DeliveryTypeCorrect`; `CompletionPublishedOnce` (`LaunchAnnouncedOnce`) from
  `RowsInv`: a launch with a row, or with a sweeper about to publish it, is completed,
  and no two sweepers are about to publish one launch. `ChannelInv` adds that a row is sent at
  most once.
- `NoBroadcastRunSlips` (`NoRunSlips`) from `SubscriberInv`: every run up to the
  cursor has been taken up, a page is a gapless stretch of runs behind the cursor and
  the row in hand, and a run that was received or overwritten is taken up or in the
  page unless another query is due (`SlipInv`). The property alone says too little
  about the page to be kept by the step that moves the cursor.
- `ManifestsBounded` (`DuplicatesBounded`): each live message is a row sent once,
  and each replayed row moves the cursor past itself.
- `ForwarderMissesNothing` (`LogMissesNothing`) from `LogInv`: after a drain that
  succeeded, what lies between seed and cursor is shown, and what was sent later is unread.
- `SubscriberComesToRest`: the replay publishes on the bus it reads, so one run could
  keep it going. It does not: every step of the subscriber, its writes, failed
  queries and sends lowers `ToDo`, which weighs the rows to be sent, the
  messages unread, the runs among them and the runs behind the cursor. A message
  weighs more than the query that follows a lag, and a run, read or found in the log,
  more than the two events its manifest puts on the bus. `ToDo` is raised only by a
  flushed row, by a sweep's announcement and by a restart.

Only model-checked: liveness (`RunEnds`, `RetrySettles`, `LinkCloses`,
`WrittenIsRecorded`, `RunIsTaken`, `ReplaySettles`), which is out of the prover's
reach. What is not about fairness in them is proved: `WorkRunsOut` for `RunEnds` and
`RetrySettles`, `ClosersUnlink`, `LocksAreHeldAtWork` and `CloserWorkRunsOut` for
`LinkCloses`, `SubscriberComesToRest` for `RunIsTaken` and `ReplaySettles`. Every other property of the passing runs is stated by a theorem.

## Not modelled

Why the rest is left out. The repository has some 164,000 lines of
implementation; the models cover the part where steps of several actors, crashes
and lost messages meet, which is small.

- Grouping, attribution, reclassification, ranking, name templates, metadata
  parsing and path checks are functions over strings and numbers with unit tests
  of their own; what they write is in `InboxPlans`.
- Generators write a draft plan from an inventory and share nothing until the
  draft is reviewable, which is `PlanReview!MakeReady`.
- Topology, projects, notes, targets: one transaction per
  command, without interleavings beyond what SQLite serializes. Session
  materialization and update views run under the ledger of `CommandLedger`, and no
  command of the application calls them.
- The other caches (calibration rules and masters, settings bag, library roots) are
  instances of the protocol of `ProtectionCaches` with other writers; the settings
  bag is read by the boot repair only. The ingest resolver's queue is one
  transaction per look-up, drained by one task.
- The finalizers of an applied plan, the source snapshots of approve, auto-apply,
  the collision rules of confirm, and the classification and attribution of
  artifacts are parts of modelled components that are not in the models.
- Of the bus, the stale propagator has the loop of the run subscriber over tables
  that no production code writes, and the pruner has no production caller.
- The frontend holds no state that the backend trusts.

## Checking it

In this directory, `tlc -config <run>.cfg <module>` for a run (`PROJECT.json` names
the module of each; `watch`, `events` and `apply_any_schedule` are the longest, one to two
minutes each), `tlapm <module>.tla` for each of the eight proof modules.

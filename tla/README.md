# Formal models of remote-sandbox

remote-sandbox keeps a local directory and a directory on an SSH host the same
while both are edited. This directory holds TLA+ models of the parts of the
program whose correctness depends on the order of events: who notices a change
and when, what a synchronisation cycle may do with an observation that is out of
date, what survives a crash. TLC checks them on small instances; TLAPS proves the
central invariants for every value of the constants.

Source paths below are relative to `src/src/remote_sandbox/`; "the design" is
`src/docs/superpowers/specs/2026-07-10-remote-sandbox-redesign-design.md`.

- [1. The system](#1-the-system)
- [2. Modules](#2-modules)
- [3. Runs](#3-runs)
- [4. Where the code and the design disagree](#4-where-the-code-and-the-design-disagree)
- [5. Proofs](#5-proofs)
- [6. What is not modelled](#6-what-is-not-modelled)
- [7. Plan](#7-plan)

## 1. The system

One *supervisor* process per workspace runs on the local host (`daemon.py`). Its
threads share one SQLite file, the workspace store (`state.py`). On the remote
host a *watcher* process (`remote_agent/watcher.py`, `inotify.py`) fills another
SQLite file, the remote store (`remote_agent/store.py`), and short-lived *agent*
processes (`remote_agent/__main__.py`), one per SSH call, read and change it.

| part | state | operations | interacts with |
|---|---|---|---|
| remote watcher | inotify queue, half-paired moves | path event, move, overflow to rescan, polling | writes the remote store |
| remote store | `events`, `acknowledged_sequence`, `delivered_sequence`, watcher row | append with coalescing, read a batch, acknowledge, record a watcher generation | watcher and agents, in separate processes |
| remote client | stream process, `_last_acknowledged` | `events_after`, `subscribe`, `acknowledge`, metadata and hash calls | agents over SSH; called by the engine and by the subscription thread |
| local watcher (`watch.py`) | debounce table, health, audit timer | emit, trailing emit, audit, stop | calls the store from its own threads |
| workspace store | events and watermarks per side, base entries, expected echoes, requeued paths, conflicts, checkpoints, status | transactions | every thread of the supervisor |
| engine (`engine.py`, `_engine_*.py`) | one cycle's captured events, observations, plan | `run_once`, `audit` | store, both file systems, transport, planner |
| planner (`reconcile.py`, `_engine_planning.py`) | none | plan dirty paths, ask for hashes, strengthen deletion targets | pure, but asks the engine to hash |
| transport (`transport.py`, `_transport_*.py`) | staging directories | preflight, stage, install, verify, delete if unchanged | both file systems |
| supervisor | mutation queue, slots, backoff, connection state, lock, pid file | worker loop, control server, subscription thread, stop | all of the above; command-line clients over a socket |
| initial sync (`initial_sync.py`) | phase and checkpoint in the store | manifest, bulk transfer, replay | engine, transport, watchers |
| conflicts, fetch (`conflicts.py`, `fetch.py`, `placeholder.py`) | conflict store, placeholders | resolve, download | run by the worker as mutations |
| registry, bind, workspace, policy | files under the data directory | bind, forget, look up | command line, under a lock file |
| shell, prompt, namespace | terminal session | enter, connect handshake | SSH, supervisor |
| ssh, ssh_config, agent, remote_protocol | control master | run, classify errors, install the agent | everything remote |
| command line and reports (`cli.py`, `status.py`, ...) | none | one-shot commands | supervisor client |

What is hard, and what makes each part correct:

- **Remote journal.** Readers on several connections, a writer that rewrites rows
  (coalescing), two watermarks on the remote side and one on the local side,
  replies that get lost. Correct when no change is acknowledged before it was
  looked at and the two importing threads never contradict each other.
- **Engine.** Plans against observations while users go on editing; several
  stages, each of which may fail after earlier ones changed the disks; intents
  ("expected echoes") written before a mutation so that its event can be
  recognised later. Correct when it destroys nothing a user wrote, never forgets
  a difference, and ends with both sides equal.
- **Planner.** Decides on metadata and hashes only where needed. Correct when the
  answer is the three-way merge of the real entries.
- **Mutation queue.** Callers with deadlines, one worker, a stop that may come at
  any time. Correct when each caller gets the answer that belongs to what
  happened.
- **Initial sync.** One bulk transfer without intents, run again from the top after each
  failure on top of half of its own work. Correct when it completes, destroys nothing that
  was written meanwhile, and leaves the engine a base and journals it can rely on.
- **Watchers.** A kernel queue that overflows, watches kept under names that move, halves of
  renames, events held back by timers that later events cancel. Correct when every change
  reaches the journal or a rescan does, and later changes will too.
- **Transport.** A batch is compared, staged, installed path by path and compared again,
  by two means in two directions, while both trees are edited. Correct when what it
  reports as done was on both sides, and when an interruption leaves every entry in its place
  or set aside.
- **Supervisor.** Processes that commands fork at once, one lock, files that outlive
  their writer, a worker that loses its connection in the middle of anything and control
  threads that push it on. Correct when one process serves, a stop means it, the gap after
  a lost connection is audited, and the connection comes back.
- **Watcher generations, binding.** A watcher process is started by an agent that is gone
  when it comes up, and judged by a pid and a command line; a binding has parts in four
  places. Correct when no forgotten watcher writes to a journal and no race leaves a
  binding in parts.
- **Conflict resolution and fetch.** What the owner chose was recorded some time ago. Correct
  when what is stored as base is what was chosen and is there.

`PROJECT.json` lists every component with its files and status, and every hazard
at the line where it bites.

## 2. Modules

| module | models | instance |
|---|---|---|
| `RemoteJournal` | remote events table, both importing threads | `MCRemoteJournal` |
| `ChangeSet` | abstract: what the engine relies on of a journal | implemented by `RemoteJournal` |
| `RemoteJournal_proofs` | theorems about both | |
| `Reconcile` | `reconcile.py` as operators | used by the next two |
| `Planning` | hash-on-demand planning of one path | `MCPlanning` |
| `Planning_proofs` | its theorems | |
| `SyncEngine` | one workspace: two disks, watchers, `run_once` | `MCSyncEngine`, `MCBusyPath` |
| `InitialSync` | `initial_sync.py` over the state of `SyncEngine` | `MCInitialSync` |
| `Engine_proofs` | theorems about `SyncEngine`, and about `InitialSync` over the same state | |
| `Transport` | one batch of `BatchTransport`, one deletion, step by step | |
| `Resolution` | `conflicts.py` and `fetch.py` over `Transport` | `MCResolution` |
| `Resolution_proofs` | theorems about both | |
| `MutationQueue` | control connections, worker loop, stop | `MCMutationQueue` |
| `MutationQueue_proofs` | its theorems | |
| `Connection` | the worker: initialization, failures, probes, retries, login, audits | |
| `Supervisor` | processes, lock, files and commands around `Connection` | `MCSupervisor` |
| `Supervisor_proofs` | theorems about both | |
| `WatcherGeneration` | the agent verbs that start and stop remote watchers | |
| `Binding` | `bind`, roll-back and `forget` over `WatcherGeneration` | `MCBinding` |
| `Binding_proofs` | theorems about both | |
| `Tree` | a tree that users change, and what a watcher owes | |
| `InotifyWatcher` | the remote watcher's inotify backend over `Tree` | |
| `LocalWatcher` | the debouncing local watcher over `Tree` | `MCWatchers` (both) |
| `Watchers_proofs` | theorems about both watchers | |

The modules are layered by abstraction. `RemoteJournal` implements `ChangeSet`, a
set of changes from which a cycle takes what was there when it asked, and settles it or
leaves it (`JournalIsASet`); `SyncEngine` then uses sets (`raw`, `pend`, `cap`) in place of sequence
numbers. `Planning` justifies that a plan is the three-way merge of what was on
the disks; `SyncEngine` then plans with full entries, through `Reconcile!PlanPath`.
`InitialSync` extends `SyncEngine`: it starts from an unsynchronised workspace and ends where
`SyncEngine` takes over.
`Transport` opens up what is one `Preflight`, one `CopySources` and one `Install` per path in
`SyncEngine`; the watchers open up what is one `Notify` there. `MutationQueue` and `Supervisor`
stand beside them: the engine's turn is one of their steps. In `Supervisor` one question is left of
the files: are there changes that nobody has seen?

Operators headed "Coding error" are deliberate mistakes. No specification uses
them; each is the mutation that shows that a property can fail
(`PROJECT.json`, `mutants`).

### RemoteJournal

`events` is the remote table, a sequence because the key is AUTOINCREMENT and no
row is deleted; `acked` and `delivered` are the two remote watermarks. `imported`
and `localAck` are the local copy and its watermark. `cycle` is the engine's
thread, `stream` the subscription thread together with the lines in flight.

| action | code |
|---|---|
| `WatchPath`, `WatchMove`, `WatchOverflow` | `append_event`, `_coalesce_event` |
| `FetchBatch`, `StreamBatch` | `_handle_events` and `RemoteStore.events_after`; each batch raises `delivered` in its transaction |
| `RecordCycle`, `StreamRecord` | `WorkspaceStore.record_events`, which refuses a stored sequence with other content |
| `CapturePending`, `ReadDirty`, `Commit`, `CommitRequeued`, `AcknowledgeRemote` | `_run_once`, as far as it touches this journal |
| `Reopen`, `Subscribe`, `StreamBreaks` | `RemoteEventSubscription.__iter__`, `_start_subscription` |
| `CycleFails`, `SupervisorCrash` | SSH failure, process death |

`unread` and `rejected` are history variables.

`Noted`, `Asked` and `Taken` are the journal as `ChangeSet` has it: the rows above the watermark that no
cycle has captured, those a fetch that has ended will bring, and the captured ones. A path of two
rows, one captured and one not, is in two of the sets. Fetching, recording, the subscription and the
remote acknowledgement do not show there; the end of a fetch is its `Ask`.

### Reconcile and Planning

An entry has a kind, `data` (hash or link target), `meta` (size, mtime and mode in
one value) and the placeholder flag. `Planning` starts from every combination the
store and the disks can hold, observes without hashes (`Collect`), plans, answers
hash requests once, and hashes the target of a deletion before trusting it. The
disks stand still in this module; a path is planned alone because
`build_incremental_plan` treats paths independently.

### SyncEngine

An entry is a version number, and 0 a missing path; each write by a user is a new
version, and reverting to an older version is not modelled. `pc` and `stage` follow
`_run_once` and `_execute_and_commit`. Everything the code does between two points
where another process can be seen is one action; the points are those at which
the disks are read or changed, the store's transactions, and remote calls:

`Capture` → (`AuditDrift`) → `Observe` → `CommitEchoes` or `StartPlan` → for push
and pull: `Preflight`, `CopySources`, `Install(p)`..., `Postflight`, `Rehash` →
for deletions: `Remove(p)`..., `VerifyDeleted` → `PrepareConflicts` → `Commit` →
`Refresh`.

`Observe` reads all dirty paths in one step. The code reads local and remote
metadata one after the other, and hashes later still; an edit in between only makes
the observation older, which `Preflight` is there to detect.
`Fail` is an exception at any point of the cycle and withdraws the intents the
code would; `Crash` and `Restart` lose what is in memory, the local watcher's
undelivered events included. `InFlight` delimits the window in which a
destination may be edited unnoticed; it feeds the history variable `raced` only.

Paths are independent files: directories, moves and placeholders are left out
(section 6).

### InitialSync

`initial` says where `run()` stands; `pc` keeps its meaning inside a transfer or a cycle. A
run is `Begin` → `Scan("local")` → `Scan("remote")` → `PlanBulk` or `Refuse` → `Bulk`... →
`Verify` → (`Seed` → `RefreshSeeded`)... → `EndBulk` → replay cycles → two cycles in a row that
do nothing. `Bulk` uses the transport steps of `SyncEngine` as they are.

| action | code |
|---|---|
| `Begin` | `run()` up to `_discard_preexisting_events`; "unbound" is a workspace without checkpoint |
| `SourcesAllowed`, `Refuse` | `choose_initial_direction` |
| `Unfinished`, `Noticed`, `PlanBulk` | `build_initial_plan`, `_changes_since`, `_exclude_changed_paths` |
| `Verify`, `Abandon` | `_verified_result`: progress is reported in its `finally`, so part of a failed batch is recorded |
| `Seed`, `RefreshSeeded` | `seed_verified_transfer`, one pair for each progress report |
| `ReplayCapture`, `ReplayIdle`, `ReplayEchoes`, `ReplayCycle` | `run_once("initial-replay")` under `_replay_until_quiet`; this cycle alone retries no conflicts (`CaptureAnd`) |
| `Die`, `RunFails`, `BulkMismatch` | process death, an exception anywhere, a failed preflight or copy |

The quiet window is two idle cycles in a row. The 30-second limit of the replay is one of the
failures `RunFails` stands for. A refused run is started again like any other failed one.
`blind` and `offline` are history: edits whose event was lost or not yet recorded when the run
was planned, and edits made while no local watcher ran.

### Transport and Resolution

An entry has a kind, a version (content, inode, ctime) and a quick part (size, mtime, mode); a
quiet edit changes the version alone. Both trees hold a directory and an entry below it, so
that a batch may contain one, the other or both. `at` says where the job stands, `step` where
the path at hand does.

| action | code |
|---|---|
| `LookLocal`, `Preflight` | `_preflight`, local observations first; one path that differs refuses the batch |
| `LookAtSource`, `LinkSource`, `CopySource` | `_copy_from_descriptor`: the look, the hard link or the copy, and the look after it |
| `LinkRefused`, `CopyRemote` | `_HardlinkUnavailable`, after which everything is copied; `copy_entry` of a remote source |
| `Ship`, `FallBack` | the rsync or tar run, `_RsyncUnavailable` |
| `Aside`, `Place`, `Discard`, `PlaceFails` | `_install_at` and its remote twin: two renames and the removal of the backup |
| `KeepDirectory` | the branch of the local finalize for batches of directories |
| `LookAgain`, `Verify` | postflight: destination and source again, `_same_audited_observation`, `_protocol_verified_destination` |
| `DeleteAside`, `Judge`, `DeleteAway`, `DeleteFails`, `Restore`, `PutBack` | `delete_expected`: quarantine, comparison, removal or return |
| `Break`, `OrphanEnds` | a failure, a crash, or a connection that is lost while the remote script goes on |
| `CompareLocal`, `CompareRemote`, `FinalLook`, `Settle` | `resolve_conflict_transaction`, `fetch_placeholders` |

The look at a local source, its link or its copy are separate steps, and users act in between. The look
compares signatures, ctime included, with the preflight (`_matches_stage_expectation`). After a link ctime
is not compared (linking changes it), and the signature of what was linked is what the source is compared
with in the end (`reference`, `Sent`). The workers that stage several paths at once are the interleaving of
these steps; links refused half way are given up at once, not when the other workers have ended.
Directories compare by kind, as in the code. What a user writes
through a handle opened before a file was renamed aside (`WriteAside`) is destroyed with the
backup: `late` and `touched` keep these cases apart from what the properties promise.

### MutationQueue

A client is a control connection and its handler thread. The actions are the
critical sections of `_mutation_condition`. The model begins when the control server does: mutations are
refused while the worker is `"loading"` the components, accepted from then on, and not served
while it is `"initializing"` the workspace. `worker` is `"recovering"` during a
turn of the loop that handles a subscription failure and serves no mutation. The
engine's turn is one step that always ends.

### Connection and Supervisor

`Connection` is `_initialize_workspace`, `_worker_loop`, `handle_subscription_failure` and
`resume` of one process. A call meets `link`; a host with a key (`keyed`) can be reached
without a login, any other one asks for a login once its control master was cleared
(`ProbeLink`), which `handle_subscription_failure` does after every failure. The probe and the
use of its answer are two steps, since a foreground login may come between. `unseen` stands
for all changes that no running watcher has journaled; an audit that begins after a change finds it.

`Supervisor` adds the processes. A process takes the steps of `run()` one by one: lock, status,
pidfile, socket, work, and in the `finally` clause socket, pidfile, lock, status. A command (`up`,
`reconnect`, `stop`) takes the steps of `ensure_daemon`, `start_daemon` or `stop_daemon_result`,
each of which reads one file at a time. `Kill` leaves the files behind. Runs start from nothing, or
from a supervisor that is at work or locked out.

Left out: a pidfile left behind whose pid another program has by now (the status then says
"running" and nothing is started); slots named by a file are not used again.

### WatcherGeneration and Binding

A generation is one spawned watcher process with its token. `_watcher_identity` judges it by pid and
command line: before `exec` these are the parent's, `ps` may time out, and a pid may have been
reused (`Identities`). Verbs hold `control.lock` from their first look to their answer; the
watcher takes it once, to announce itself, and later writes its row guarded by its
token only. `Binding` lets several commands run `bind_workspace` and `forget` over these verbs:
checks, remote registration, metadata directory, registry record, roll-back. Calls may be
lost after they took effect.

### Tree, InotifyWatcher and LocalWatcher

The root of `Tree` holds directories, each of which may hold one file; users create, change,
rename and remove both and move directories in and out. `changed` and `known` say which paths
changed since an event about them was journaled, and which were there when it was: a path that
came and went between two events is owed nothing (`Owed`). A rescan, the move of a directory
and the deletion of a directory count for all paths below: the engine audits after the
first two (`_directory_move_requires_audit`), and the deletion of a directory that holds more on the
other side is blocked and requeued until the periodic audit has found the rest.

`InotifyWatcher` has the kernel's queue, the kernel's watches, `_watch_paths`, `_path_watches` and
`_pending_moves`. An event carries the directory it is about (`of`) as history, which no
step of the watcher reads. Adding a watch to a new directory and listing it are two steps, and users act in between.
Changes made while the watches are built anew after an overflow are left to the audit: the code
journals the rescan first (`inotify.py:209`), so an audit that is very quick could come too early.

`LocalWatcher` has the observer's events, `_debounce_state`, timers that fired and wait for
`_delivery_lock`, and the steps of `stop()`. Each callback under `_delivery_lock` is one step.

| action | code |
|---|---|
| `Dispatch`, `Debounce`, `Supersedes` | `_dispatch`, `_debounce_event`, `_newer_event_supersedes_pending` |
| `IntervalPasses`, `Fire`, `EmitTrailing` | the interval, the timer thread, `_emit_trailing` with its generation check |
| `ReportUnhealthy`, `PeriodicAudit` | the same names; both discard what is held back, which their rescan covers |
| `StopObserver`, `CloseDebounce`, `Flush` | `stop()` |

## 3. Runs

| run | bounds | distinct states |
|---|---|---|
| `RemoteJournal.cfg` | 2 paths (symmetric), 2 rows, batches of 1 | 507 k |
| `Planning.cfg` | 3 contents, 2 quick fingerprints | 23 k |
| `SyncEngine.cfg` | 2 paths, 2 edits, 1 fault, fairness | 0.5 M |
| `InitialSync.cfg` | 2 paths, 2 versions, 1 fault | 1.9 M |
| `InitialSyncCompletes.cfg` | 1 path, 2 versions, 2 faults, fairness | 0.8 M |
| `Transport.cfg` | a directory and an entry in it, 2 edits, 1 fault | 1.45 M |
| `MutationQueue.cfg` | 4 clients, 3 handlers, 2 waiters, fairness | 8 k |
| `Supervisor.cfg` | 2 processes, 2 commands (each pair up to its names), 1 fault, fairness | 469 k |
| `Binding.cfg` | 2 of everything (symmetric), 3 commands, 2 faults | 536 k |
| `Watchers.cfg` | 2 names, 3 directories, 3 changes, 1 overflow, 1 lost history, 1 audit | 0.8 M |
| `TreeReplaced.cfg` | no edit, no fault | violated, section 4 |
| `UnwatchedDirectory.cfg` | 4 changes, no overflow | violated, section 4 |

`SyncEngineEdits.cfg` is `SyncEngine` with one path and three edits (2.1 M states): edit,
counter-edit and an edit inside a window on one path, with `TypeOK` and `DeletesOnlyBase` (a
deletion removes exactly the version the base records) besides. It passes, and so do, in
their modules, `RemoteJournal!TypeOK` and `WatermarkOrder`, `Planning!TypeOK`,
`InitialSync!InitialTypeOK` and `Resolution!TypeOK`. All but `Planning!TypeOK` are theorems as
well.
`SilentOverwrite.cfg`, `SwallowedEcho.cfg`, `BusyPath.cfg`, `ResumeRefused.cfg`,
`ResumeOverwrite.cfg`, `WatcherUnnoticed.cfg` and `SentUnseen.cfg` are further configurations that TLC finds
violated; section 4 explains them.

**RemoteJournal.** `NeverRejected`: no import meets a stored sequence with other
content, which would end the subscription and every later cycle.
`NoGapAboveWatermark`: what is stored above the watermark has no holes, so
acknowledging through the last captured row acknowledges nothing unseen.
`NoChangeLost`: a change
the engine has not read is still with the watcher or above the local watermark.
With batches of one row, two rows already give a stream and a fetch that overlap,
a row coalesced before, between and after deliveries, and a stream reopened behind
the watermark. `ActsAsSet`: `RemoteJournal` implements `ChangeSet`. Above all, a capture holds all that was
journaled when the fetch ended, and a commit acknowledges what was captured and no more. The theorems of section 5 hold without the bound.
The specification has no fairness: these are safety properties.

**Planning.** `PlanIsThreeWayMerge` compares the plan with a definition that knows
the real contents, wherever equal quick fingerprints mean equal contents
(`QuickSound`, the assumption the program makes by design). `NoBlindDelete` does
not use that assumption: a deletion target is compared by hash. `RequestsAnswered`:
no path leaves planning with an open hash request. Three contents let base, local
and remote differ pairwise; two fingerprints let equal fingerprints hide different
contents and different ones equal contents. The module stops after one plan, hence
`CHECK_DEADLOCK FALSE`.

**SyncEngine.** `LossOnlyInWindow`: whatever the engine destroys that is neither on
both sides nor in a conflict record was written at the destination of a transfer
then under way; stale plans, failures, crashes and replays never destroy an edit.
`ChangeCovered`: a difference between a disk and the base is always backed by
something that will bring the path before the planner (an event, a captured event,
a requeue, a conflict, a restart's audit), or was taken for an echo (section 4).
`BaseSharedUnlessRaced`: a base entry was on both sides at once, or was written
during a transfer. `EventuallyConverges`: when edits and failures stop, both sides and
the base agree, or a conflict is recorded.

One fault at every step covers each failure and each crash. Two paths share batches, aborts and
the acknowledgement of a whole capture; two edits are an edit and one inside the window it
opens, or one on each side. `SyncEngineEdits.cfg` adds a third edit.

*Fairness.* `WF(CycleStep)`: the worker loop runs the engine at least every 30
seconds (`_worker_loop`). `WF(Notify)`: each watcher delivers what it was told.
`WF(RequestAudit)`: the local watcher requests an audit every 300 seconds while it is
healthy (`_run_periodic_audit`). `WF(Restart)`: a supervisor that died is started again, by the next
command that needs it. Nothing is assumed of users or faults, which are bounded.

**InitialSync.** `BulkLossUnseen`: over any number of resumed runs, an edit is destroyed only
if it was made inside a transfer, or if no event had told the coordinator of it
(section 4). `HandedOverCovered`: when the workspace becomes ready, `ChangeCovered` holds but
for such edits; events from before, during and between the runs have been used or are still
there. `SeedsShared`: what the verified seeds and the replay store as base was on both sides,
as in `BaseSharedUnlessRaced`. `InitialSyncCompletes`: every behaviour ends with the workspace
ready or with runs that are refused. `MaxEdits` counts the versions present at the start (`BindInit`): one
old file and one edit, or two old files whose batch is half recorded when it fails. A second
fault matters for completion (a crash, then a failure of the resumed run), so that run has two.
The model ends when the workspace is ready, hence `CHECK_DEADLOCK FALSE`.

*Fairness.* `WF(Coordinate)`: the supervisor starts a run again after every failure
(`_initialize_workspace`), and a run goes on. `WF(Watch)`: watchers deliver.
`InitialSyncCompletes` assumes that audits cease (`AuditsLeaveRoom`): an audit requeues every
path in conflict, planning it again counts as work, and an audit between every two cycles would
never let the replay be quiet. Audits come every 300 seconds, and a replay lasts 30 at most.

**MutationQueue.** `QueueIsQueued`: the queue is exactly the queued requests, each
once. `RunsForItsCaller`: a mutation only runs while its caller waits for it.
`NoLostWakeup`, `NobodyStranded`: nobody sleeps through an answer or a stop.
`MutationsAnswered`: once the workspace is initialized, or a stop asked for, every mutation gets its
answer. Four clients exceed both limits, so each is met and released. Fairness:
threads run (`Worker`, `DrainQueue`, and each client's own steps); deadlines and
stops need never happen. `Worker` includes the engine's turn, so a run that never
returns (a remote call without a timeout) is excluded by assumption. Nothing is assumed
of the initialization (`Start`): it may retry or wait for a login without end, and a mutation queued
meanwhile is answered by its deadline, one hour later, or by a stop (section 4).

**Transport.** `CompletedShared`: what is reported as completed is at the destination what was
sent, unless users changed the destination since its installation. What was sent has the kind, size, mtime
and mode the source had at the preflight, and is what it was then or what a quiet edit made of it between the
look before staging and the hard link (`late`). A source that is changed in any other way, rewritten in
place behind its hard link, replaced, or edited before a fallback
to tar or to copies, is never reported. That window is open: section 4, `SentAsObserved`. `NothingVanishes`: an entry of the destination is in its place or
set aside until another one was put there, after whatever failure, crash or lost connection.
`DeleteKeeps`: a deletion destroys what was expected, or what was written after the last look at it.
`SettledIsShared`: when a conflict or a placeholder is settled, the base stored is what
is at the destination, unless users changed it after the installation: the version that was chosen, or
a quiet edit of it from the same window.
Two entries give every combination of a directory with what it holds; with two edits, one may
hide behind the other (a file replaced and rewritten, a directory removed and made again). Runs end with
the job, hence `CHECK_DEADLOCK FALSE`.

**Supervisor.** `OwnFiles`: a supervisor that serves owns socket and pidfile, however late another one ends.
`StoppedMeansDown`: when a stop reports success, the process it stopped no longer holds the
lock. `GapIsAudited`: in the loop with both watchers running, changes that neither of them saw wait for an
audit that is journaled. `EventuallyConnected`: once the host can be reached for good, a
supervisor of a host with a key reconnects by itself; and one that was told to resume
after a login reconnects wherever its worker stood (waiting, probing, failing), unless the host is lost
again. Two commands are a start and a stop, two starts, or a login against a restart; one fault is
any one of a lost link, a failed call, a broken stream, a crash or a kill, at every step.
Processes and commands that have done nothing yet differ in nothing but their names, so `MCSpec` lets
the first command that begins be `a`, and a process slot that is taken while both are free be
`p`: every behaviour of `Spec` is one of these with the names exchanged. TLC's symmetry would not be sound
for `EventuallyConnected`. The theorems of section 5 are about `Spec`.

*Fairness.* `WF(WorkStep)`: the worker thread runs and each call ends. `WF(RetryStep)`: `retry_at` comes.
`WF(ResumeStep)`: the control thread that serves a resume finishes it. Nothing is assumed of
commands, the network, users or the local watcher. Commands end, hence `CHECK_DEADLOCK FALSE`.

**Binding.** `WatchingIsRecorded`: a remote watcher that watches and was not told to stop is the one
its registered workspace records; a slow `exec`, an unreadable command line or a reused pid
never leave a second one. `OneBindingEach`: no two bindings share a name, a local directory or, on the
remote host, a root. `BoundIsWhole`: a binding nobody began to forget has its registration,
its store and its metadata. `LoserLeavesNothing`: without failures, a bind that lost a race has
taken everything back when all commands have ended. Two callers, names, directories and roots
let every pair collide; three commands are two that race and one that finds the result.
Commands end, hence `CHECK_DEADLOCK FALSE`.

**Watchers.** `RemoteChangesAnnounced` and `EveryDirectoryWatched`: when the agent has dealt with all it was
told, every change was journaled since it was made, and every directory has its watch under the name
it has now. The run assumes that users do not give a name to another directory while anything about
the name is still to be dealt with (`Hurried = FALSE`); section 4 shows what happens otherwise.
`LocalChangesAnnounced`, of every state: what is not journaled yet is about to be delivered, held back with a timer of its own,
or in the hands of `stop()`; late timers, superseding events, rescans and the stop drop nothing. Three
changes are, for example, a directory that is made, filled and renamed before it is watched. The
watchers are checked side by side: each behaviour has one of the two. One lost history is
allowed: a second one while the first still counts as unhealthy asks for no rescan (section 4).

## 4. Where the code and the design disagree

Two runs and seven more configurations check a sentence of the design, and TLC finds it violated.
The first two are findings of the project; the scenarios of both were also played
against the real code.

1. **`OnlySelected`** (`TreeReplaced.cfg`; design line 229: "Transfer selected paths"). The finalize steps replace
   what stands at a top-level path of the batch, whatever its kind. A batch that holds a directory but not
   all of its entries therefore destroys the entries that were not selected, edits among them:
   the tree goes aside with the directory and is removed. Only the local finalize of a batch
   that consists of directories alone keeps what is there. A resumed initial synchronisation plans such
   a directory when its mode changed (`initial_sync.py:529`).
2. **`EveryDirectoryWatched`** (`UnwatchedDirectory.cfg`; line 205: "Add watches for newly created directories"). A directory
   that is moved out of the tree keeps its entry in `_path_watches` until its half of a rename
   expires after 0.1 s. `mv d /elsewhere; mkdir d`: `_add_watch` finds the name watched and returns, and the expiry
   then forgets it. `mv d /elsewhere; mv e d`: the expiry forgets the watch of `e` together with that of `d`,
   and journals a deletion of `d` after the move to it. Later changes below `d` are journaled by
   nobody; only the local watcher's rescan every 300 seconds finds them.
3. **`NoSilentOverwrite`** (design line 47: "without silently overwriting concurrent
   edits"). `_preflight` compares both sides with the plan, but the install that
   follows renames the staged entry over the destination without comparing again
   (`finalize_entries_from_fd`, and the remote scripts in `_transport_remote.py`). An edit at the
   destination in between is lost: the postflight then sees what it expects.
   `LossOnlyInWindow` says that this window is the only way to lose an edit. It reaches to the end
   of `Rehash`: `_destination_hashes` reads the destination once more after the transfer
   was verified, and an edit made in between becomes the base entry (`raced` in
   `BaseSharedUnlessRaced`). The other side then looks like the one that changed, and the next
   cycle overwrites the edit.
4. **`EveryChangeIsPlanned`** (line 371: "Only remote deleted from base: delete
   local"; line 356 on echoes). The engine deletes a remote file and stores the echo
   "missing"; a user recreates the file before the event is read; the echo is
   not consumed, because the event observes a file. When the user later deletes the
   file, that event matches the old echo and is acknowledged. The local copy stays
   until the next audit (at most 300 seconds later), which is why
   `EventuallyConverges` still holds.
5. **`OthersConverge`** (line 376: busy paths "do not stop unrelated paths").
   `BatchTransport._preflight` raises for the whole batch when one path differs. The
   cycle aborts, nothing is requeued, and the next cycle plans the same batch. A
   log file that is rewritten all the time (`MCBusyPath!Rewrite`) keeps its neighbours
   from being transferred. The counterexample needs the file to differ at every
   preflight; fairness of the cycle does not help.
6. **`ResumeNotRefused`** (line 571: after a crash "restart, replay local and remote
   sequences"; a test has an interrupted run completed by the next). With both sides
   populated, `choose_initial_direction` looks for an expected echo of a base path. A crash
   or a failed call after the first install and before its progress report leaves none,
   and so does a replay that has consumed them all. Every later run raises
   "refusing initial sync for two non-empty replicas". `InitialSyncCompletes` says that this is
   the only way not to complete.
7. **`ResumeKeepsEdits`** (line 46: "Preserve changes made while initial sync is running or
   while SSH is disconnected"). The supervisor dies after a pulled file was recorded; the
   user edits the local file; the resumed run finds a destination that differs from
   the base and plans to transfer it again, expecting the edited file there. Only paths
   with an event are left out, and nothing watched. The edit is overwritten. The test of
   this case appends the event itself.
8. **`WatcherReturns`** (`WatcherUnnoticed.cfg`; line 572: "Remote watcher crash | Enter `degraded`, restart
   agent, perform remote audit"). A watcher process that dies breaks no stream: the agent that serves the
   subscription goes on reading its database. `_worker_loop` restarts the watcher only when the
   connection is degraded for another reason. Remote changes then wait for the audits of the local watcher.
9. **`SentAsObserved`** (`SentUnseen.cfg`; 12.2, line 376: "If an expected fingerprint changes before an action commits,
   that action does not update base"). Before it links a source, `_copy_from_descriptor` compares it with the
   preflight; after the link it compares inode, mode, size and mtime only, and what it finds
   becomes the reference for the last comparison (`_transport_paths.py:536`, 584, 613). An edit in
   between that keeps size and mtime is sent, and reported as completed with the hash of the
   preflight. Both replicas then hold the edit, so nothing is lost. The engine hashes the destination again
   before it stores the base, and `resolve` stores what is there; the seeds of an initial synchronisation keep
   the hash of the preflight.

Smaller ones, seen while modelling and not stated as properties:

- The process that stops writes its STOPPED status after it released the lock (`daemon.py:405`), over
  the status of one that was started meanwhile; line 448 wants "a running startup process is
  never reported as `stopped`".
- The control server accepts mutations as soon as the components are loaded (`daemon.py:510`), but
  `_initialize_workspace` serves none: a `resolve` sent while the workspace waits for a login waits with it, up to its
  hour.
- `ensure_daemon` asks for a resumption only if the status already says "disconnected". A login that ends
  between the probe's answer and this status gets none, and the supervisor stays
  locked out until the next `reconnect`. `EventuallyConnected` is about resumptions that are sent.
- Line 490: "Every reconnect performs a metadata audit". Only a probe that succeeds asks for one;
  a reconnection after a network or authentication failure does not. Both watchers went on meanwhile,
  which is why `GapIsAudited` holds.
- A lost history reported while the local watcher is still unhealthy from the one before asks for
  no rescan (`watch.py:394`), and the periodic audit is skipped too, until some event is delivered.
  The class comment (`watch.py:160`) promises an immediate one.
- After the observer died, the local watcher asks for one rescan, cancels its audits and is not restarted;
  nobody reads `last_error`.
- `resolve` and `fetch` store what they find at the destination after the transfer as the base, without
  comparing it with what they sent (`conflicts.py:83`): an edit made in between becomes the base.

## 5. Proofs

`RemoteJournal_proofs` proves, for all sets of paths, batch sizes and table sizes,
`TypeCorrect`, `ImportNeverFails`, `NoGap`, `WatermarksOrdered` and `ChangesKept`,
the invariants of the run and `WatermarkOrder`. All follow from `JournalInvariant`, the invariance
of `JournalInv`. The properties are not inductive alone; the strengthening adds

- `CopiesAgree`: every row on the local host, stored or in flight, equals the remote
  row, which is delivered. This rests on coalescing never touching a delivered row,
  and gives `NeverRejected`;
- `FetchComplete`, `CaptureComplete`, `StreamComplete`: what a fetch, a capture and the
  stream hold has no hole above the watermark, although the watermark may have been
  below or above their start. They give `NoGapAboveWatermark` when their rows are stored
  and after the watermark has moved;
- `UnreadAboveCapture`: between reading the dirty paths and the commit, what is unread
  lies above the capture. It gives `NoChangeLost` at the commit.

The proof has a lemma for what appending does to the table (it changes no delivered
row, and what a row touches it keeps touching), one for any step of the watcher, one
for raising `delivered`, and one per remaining action. The assumptions are the three
named `ASSUME`s of the module.

`JournalIsASet` is the refinement. What it needs besides `JournalInv` is `RecordedComplete`: what a fetch
brought is stored when the cycle captures. The watcher's steps note what they should and nothing else, because a row
that is rewritten is about one path and nobody has read it (`PathIsNoted`, `WritingNotes`). `CaptureSplits` says that
the rows above the watermark are the captured ones and those above them, so that a cycle
that fails leaves everything noted.

`MutationQueue_proofs` proves, for all finite sets of clients and all limits, every safety
property of its run (`TypeCorrect`, `QueueKept`, `ServedCallerWaits`, `WakeupsKept`,
`NobodyLeft`). `QueueInv` adds two facts to them: a request is started
exactly when the worker serves it (`StartedIsServed`), and a client waits exactly while it
has a request (`WaitsForRequest`). They are what relates the three places a request is
spread over, the queue, its own state and the worker: a deadline may only take away a request
the worker has not, and a taken request is the head of a queue without repetitions.
`RemoveAtElements` states what taking one element out of such a queue leaves.
The one assumption the proofs use is that no client is named like a turn of the worker (`ClientsAssumption`).

`Binding_proofs` proves `BindTypeCorrect`, `BindingsApart`, `BindingsWhole`, `RecordedWatchers` and
`LosersClean`, all the properties of the run, for any callers, names, roots, generations and
numbers of faults. Its inductive invariant rests on three facts: a process that is dead, or whose
identity does not match, has nothing under way; a caller holds at most one lock, and what was
looked up under a lock is still so while it is held; and a bind that has drawn its identifier is the only one
that can touch the four parts of that binding until it has ended. Without faults the roll-back's
`forget` is answered, which is what `LosersClean` needs. The assumptions (`WatcherConstants`,
`BindConstants`) say that the values for "none" are not callers, tokens or the like.

`Planning_proofs` proves `EveryRequestAnswered`, `DeletionsSeen` and `PlansMerge`, for any
contents, metadata and quick fingerprints. The invariant relates each observation to the entry on the
disk (it is that entry with or without its hash) and the decision to the observations (it is the
planner's answer to the last of them, and the target of a deletion has its hash). That the
answer is the three-way merge is then a case analysis over the kinds of the three entries.

`Engine_proofs` proves of `SyncEngine` `LossIsRaced`, `BaseIsShared` and `ChangesCovered`, the invariants of
its run, the type invariant and `DeletionsAreOfBase`, for any paths and numbers of edits and faults. None is inductive:
each is about what a step trusts that was observed some steps ago. `Engine` says of
each stage what is left of an observation while users keep editing. Its pivot is
`Numbered`: entries are numbered in the order in which users make them, so that an entry that is no longer
what was seen never is again. A source that agrees before and after a copy was therefore the same
all along (`Transfer`, `SharedIsKept`), which is where `Postflight` earns the base; an install
replaces nothing but the base, a missing path, or an edit of the window (`Decisions`, `BasesSafe`).
`SeenOrNoted`, `Echoed`, `Taking` and `Followed` follow a change through the journals: as long as no event is on its way, the disk is what
the cycle has seen, so that an acknowledged path that was not planned is an echo. It was checked
with 2 paths and 2 edits (0.5 M states) and with 1 path, 4 edits and 2 faults (15 M) before it was proved.

`Resolution_proofs` proves of `Transport` and `Resolution` `CompletedIsShared`, `BackupsKeep`,
`DeletionsKeep` and `SettledShared`, all the properties of the run, and the type invariant, for
every tree of paths: `UnderAssumption` says that what is below a path is below everything above it, that two
paths with something in common below them are one below the other, and that a path lies below finitely many.
The tree of the run, a directory and an entry in it, is the smallest one; the proof has batches of any shape.
`JobsHold` is the inductive invariant.
- `Referenced` follows a source that is pushed by rsync from its look to its link: until it is staged it is what the
  preflight saw, or was written since the look; what is staged looks the same and is one of the two.
- `Fresh` and `Sending` say what a staged copy is still worth. As in `SyncEngine` an entry
  never returns, so that the comparisons of the source before staging and after the installation
  pin down what was staged. The proof shows that the comparison of the destination after the
  transfer (`LookAgain`) is not what makes `CompletedShared` true of a destination nobody touched:
  the stability of the source is.
- `Installed` and `Emptied` say what the paths of a batch hold that are done, those being worked on and those to come. The
  top-level paths of a batch are apart, so installing one leaves the others alone. When none
  is left every path of the batch was placed, with itself or below a path above it; that there is always a topmost
  one (`TopAbove`) is the induction that needs the finitely many paths above.
- `SetAside` and `AllKept`: only the entry at hand and what was below it is set aside, and it is put back or replaced in a step.
- `Quarantine`: what differs in the quarantine from what was judged was written after the look.
- `Requested` and `InHand` relate the job to the record of the conflict or the placeholder it settles.

`Supervisor_proofs` proves `TypeCorrect`, `FilesAreOwn`, `StopsAreTrue` and `GapsAreAudited`, the
invariants of the run, for any processes, commands and numbers of faults, and for `Spec`, without the
run's naming of processes. `OneHolder` (one process is between taking the lock and giving it
back) and `FilesOwned` (its files are its own from the moment it writes them) give `OwnFiles`; `StopsTold`
carries what a stop has learnt of its target. `DegradedIsAudited`, `AuditMisses` and `GapFound` give `GapIsAudited`:
an audit that is under way may have passed a path before it changed, but then another one is journaled behind it. The
assumptions are that the value for "nobody" is no process, and that the bound on faults is a number.

Of `InitialSync`, `Engine_proofs` proves `LossIsUnseen`, `SeedsAreShared` and `HandsOverCovered`, the properties of
its run, and the type invariant, for any paths, edits, failures and numbers of runs, with no assumption
but those of `SyncEngine`. `Coordinated` is the inductive invariant; TLC checked it with the bounds of
`InitialSync.cfg` first. A run copies over a side after one look at it, and recognises what it may copy
over by the base and the echoes an earlier run left. Whether that is safe depends on edits made since, whose
events may have been discarded, lost or taken for echoes. The invariant says what is known of them.
- `AllTraced`: a side that a run may write to, or that has an echo, holds nothing unaccounted for. An
  entry there is kept elsewhere, or an event of it is still to be planned, or it is one of the edits no event
  will tell of (`blind`, `offline`), which `BulkLossUnseen` excepts. `BulkOver` follows: what an install replaces is one of these.
- `EchoSeen` and `EchoTraced`: acknowledging an event as an echo forgets no edit, since the entry that is what the
  echo expects is accounted for without the event. `EchoNumbered` says that an echo is never of an edit still to come.
- `Verified`, `Vetted` and `Seeding`: what a transfer verified is kept, also by a run that abandons the batch half way. They
  give `SeedsShared`, and the base that the resumed run trusts.
- `InitialFollowed` is `Followed` of the engine where the base has an entry or the side is trusted; it becomes
  `HandedOverCovered` when the replay has gone quiet twice.
The replay is cycles of the engine. `Engine` does not hold in it, because the base is still
incomplete; `Cycling` names the parts of `Engine` that do, and the lemmas on them serve both.

`Watchers_proofs` proves `WatchersTypeSafety`, `RemoteChangesAreAnnounced`, `DirectoriesAreWatched` and
`LocalChangesAreAnnounced`, the properties of the run, for any names, directories, changes, overflows and
audits. The one assumption (`NothingIsNone`) is that the value for "none" is no name and no directory.
- The three about the remote watcher have the hypothesis `~Hurried`, as the run does: they are false without it
  (`UnwatchedDirectory.cfg`, section 4). `Good` is the invariant of `InotifyWatcher` while no event is lost; an
  overflow suspends it (`Broken`) until the watches are new, when it is established again from the tree alone.
  It follows the events: what is not read of a name yet ends with what the name is (`InOrder`, `Ends`,
  `Appears`, `Goes`), and a name of which half a rename is pending waits for nothing else (`Halves`). A watch is kept
  under the name its directory has, or had until an event still to be read (`Kept`); so a
  directory of the tree has its watch but for one that has just appeared (`Watched`), and what is owed about a
  path is to come (`ToCome`). `Unsaid` is what makes listing a new directory enough: nothing was journaled yet
  about the file in it.
- `LocalChangesAreAnnounced` holds up to a second lost history, `lost <= 1`: a second one while the first
  still counts as unhealthy asks for no rescan (section 4). `OneReport` follows the first one from the observer's
  queue to its rescan. The hard case is an event that an earlier, still unexpired one of the same kind and path holds back: it would
  be announced late, or dropped by an event that supersedes it. `Chained` says that between two disappearances of a
  path there is an event that undoes the first, and clears its entry from the table; so no
  disappearance is ever held back (`NoneHeld`). `LocalTypeSafety` has no hypothesis.

Every safety property of every passing run is stated by a theorem. Only model-checked are
`EventuallyConverges`, `InitialSyncCompletes`, `MutationsAnswered` and `EventuallyConnected`, which are liveness
under fairness and out of reach of the prover.

## 6. What is not modelled

- Directories in `SyncEngine`: moves, recursive deletes, and the deletes deferred below
  a conflicting directory (`_conflicting_directory_deletes`). Placeholders are in `Planning` and in
  `Resolution`, not in `SyncEngine` or `InitialSync` (`_write_placeholders`).
- Quiet edits (of the same size and mtime) in `SyncEngine` and `InitialSync`: their edits change what a look sees. The
  window between look and link (section 4) is therefore in `Transport` alone.
- A user who restores an older version: versions are new. Equal content written
  independently on both sides is in `Planning`, not in `SyncEngine`.
- The conflict record that remains when both sides return to the base, since a plan of
  `none` resolves nothing.
- The polling watchers of both sides, the death of the local observer, and local event callbacks
  that raise: the event is then lost and left to the periodic audit.
- Hidden names: quarantines, backups and staging directories are ignored by both watchers
  (`remote_agent/paths.py`), and by the models' users. An agent that is killed may leave one behind.
- Status rows, progress, health reports and policy files.
- Wire formats, path validation, scanning and hashing, SSH itself: I/O whose failure is
  the failure step of the models. The shell session is byte-level I/O between file descriptors.

## 7. Plan

1. `Transport` shown to implement the install and delete steps of `SyncEngine`, as a refinement.
2. Directories in `SyncEngine`.

# TLA+ models of Claudette

Claudette is a desktop application that runs coding agents (the Claude Code CLI,
the Codex app-server) in git worktrees. Its Rust back end keeps one SQLite file,
a map of live agent sessions, a scheduler loop, an MCP supervisor, a poller of pull
requests, an updater with a rollback, and a stream task for every turn of every
agent. This directory holds TLA+ models of the parts whose correctness depends on
interleavings, crashes and failures, the TLC configurations that check them on small
instances, and TLAPS proofs.

## Inventory

| Part | State it keeps | Operations | What is hard | What makes it correct |
|---|---|---|---|---|
| Agent scheduler (`src/scheduling.rs`, `src/db/scheduling.rs`, `commands/scheduling.rs`) | `agent_scheduled_tasks`, `agent_scheduled_task_runs`; the loop's due list and sleep | create, pause, resume, run now, delete; sweep, load, mark, dispatch, bookkeep, sleep | the due list is stale when used; the row is marked before the prompt is sent; notifications are lost while the loop is busy; restart after downtime | a one-shot is delivered once, a match fires once, a paused task stays quiet, an overdue task fires |
| Chat session (`commands/chat/send.rs`, `lifecycle.rs`, `interaction.rs`, `state.rs`, `agent/session.rs`) | the tab's `AgentSessionState`, the `chat_sessions` row, the CLI process, the turn's stream | send, reuse or spawn, teardown, stream events, Stop, Reset, answer | a call releases the guard several times; the exit of an old process arrives late; the CLI blocks on a request | a conversation is not lost, overwritten or resumed by mistake; no agent hangs; a new configuration is used |
| MCP supervisor (`mcp_supervisor.rs`, `commands/mcp.rs`) | per-repository server status, enabled flag, failure count | init, validate, report failure, reconnect, enable | validation reads a snapshot, does I/O and applies the result later | a disabled server is shown and kept disabled; counters and status agree |
| Workspace lifecycle (`ops/workspace.rs`, `workspace_alloc.rs`, `commands/workspace.rs`) | `workspaces` rows, worktrees and branches on disk | create, archive, restore, delete, bulk delete | row and disk change in separate steps; a crash in between | row and worktree agree or the state is recoverable |
| Boot probation (`boot_probation.rs`, `commands/updater.rs`) | sentinel and report files, backups of the app, the install | back up, prepare, install, arm, acknowledge, time out, restore, relaunch | timer against acknowledgement; the helper is another process; any write may fail | a healthy update is never rolled back, a dead one is replaced or reported |
| Checkpoints and fork (`snapshot.rs`, `fork.rs`, `checkpoint_backfill.rs`, `db/checkpoint.rs`) | checkpoint rows, file rows, shared blobs, the worktree, the agent's memory | save, prune, restore, roll back, clear, fork, purge, backfill | several tabs share one worktree and one retention; operations are several transactions | a kept snapshot reads as written; the agent remembers what the tab shows |
| Codex app-server (`agent/codex_app_server.rs`) | pending JSON-RPC requests, thread and turn ids, text buffer | start, steer, interrupt, compact, answer; stdout reader, exit watcher | replies and notifications in any order, exit or expired credentials with requests pending | every call ends; events belong to their turn |
| SCM polling (`commands/scm.rs`, `scm/auto_archive.rs`, `db/scm.rs`) | cache of pull requests in memory and in a table, branch locks, last observation and CI status of a workspace | poll, load, refresh, create, merge, archive on merge, open a CI session | concurrent polls of one branch; branches are renamed and reused; calls fail; restart | a stored pull request survives an outage; only the workspace whose work merged is archived |
| Environment providers (`env_provider/`) | cache keyed by file times, watcher | resolve, invalidate | invalidation during a resolve | a stale environment is not kept |
| Background-task wake (`send/background_tasks.rs`) | running tasks, wake flag | arm, poll, wake, disarm | a notification while no stream listens | a finished task is reported once |
| Remote control, remote server, usage caches, PTYs, plugins, tray, CLI, mobile, UI | see `PROJECT.json` | | | |

How they meet: the scheduler calls `send_chat_message`; archive and delete of a
workspace disable or remove scheduled tasks; `set_mcp_server_enabled` changes the
rows a spawn reads and marks live entries dirty; a turn's stream reports MCP
failures to the supervisor; a turn that ends writes a checkpoint; the poller archives
workspaces and opens sessions; the GUI, the IPC socket, the CLI and remote clients
all call the same commands. `PROJECT.json` lists every part with its status, and
under `hazards` what is hard to test at the line where it bites.

## Plan

Done: `Scheduler`, `ChatSession` (the turn life cycle), `McpSupervisor`,
`BootProbation`, `CodexAppServer`, `Checkpoints` with its abstract specification
`SnapshotStore`, and `ScmPolling`. Each has a configuration for TLC and a module of
proofs (`Checkpoints` has two).

Next, in this order:

1. `ChatSession`: the background-task wake, mid-turn steering, remote control,
   migration between harnesses.
2. Environment providers: the cache against the watcher.
3. Workspace creation: row, worktree and branch as separate state with crashes.
4. `Cron`: parsing and matching as a function, against a reference matcher.
5. Composition of `Scheduler` and `ChatSession`: a fire is a message that overlaps a
   running turn.

## Scheduler

State. `row` is the table (`stored` the ids present), `lastRun` the newest run
row, `ws`/`wsOp` workspace status and the archive or restore in progress, `loop`
the locals of `start_scheduler`/`run_due_tasks_once`, `job[d]` the command or fire
a dispatcher is in, `blank` sessions created for a fire and still empty. `hist` is
history: armings, prompts delivered, last fire of the arming, user pauses.

Actions. One per SQL statement or awaited call: `ScheduleWakeup`,
`CreateCronRoutine`, `DeleteRoutine`, `PauseRoutine`, `ResumeRead`/`ResumeWrite`,
`RunRoutine`; `Sweep`, `LoadDue`, `MarkAndDispatch`/`MarkSkips`, `CreateSession`,
`Send`, `Rollback`, `RecordRun`, `Bookkeep`, `PlanWait`, `EnterWait`, `SleepOver`;
`ArchiveDisable`/`ArchiveFlip`, `RestoreClaim`/`RestoreDone`, `DeleteWorkspace`;
`Tick`, `Crash`, `Start`. Database errors are the `Faulty` branches.

Data. A cron expression is the set of instants it matches. Time is a small clock
that saturates at `Horizon`, which stands for every later time.

| Run | Checks | Shows |
|---|---|---|
| `scheduler` | `TypeOK`, `ArmedIsClean`, `OneShotOnce`, `NoBlankTabs`, `RecurringCoalesced`, `PausedNeverFires` | wakeups, a run-once and a recurring routine, with a client, archive, restore and delete, one fault, two armings |
| `scheduler_live` | `OverdueFires` | two tasks, a fault, fair loop |

Met while modelling: pausing a wakeup that was already delivered makes it resumable
(`scheduling.rs:116` looks at `disabled_reason`, which a pause sets on any row), although
`features/agent-scheduling.mdx:46` says that it "can't be resumed"; and
`failure_count` survives successes, so a healthy routine stays "failing".

Bounds. One task suffices for the per-row properties: no statement relates two
rows, and the loop meets other tasks only as time passing; `scheduler_live` has
two because one task can starve another. `Horizon = 3` with matches {1, 3} gives a
missed match, a match at the fire itself and none left. `MaxArms = 2` gives one
resume, `MaxFaults = 1` one fault at every point.

Fairness. The loop and each dispatch are tokio tasks that are polled again, the
clock advances and the app is restarted. That a dispatch returns is an assumption
(`send_chat_message` has no timeout): a send that never returns stalls every other
task.

### What is proved (`SchedulerProofs`)

For every set of tasks, workspaces and clients, every input set and every bound,
from `BoundsAssumption` and `InputsAssumption` only (the second says that the clients
are finitely many, none of them the loop, because `NoBlankTabs` counts fires):
`TypeCorrect`, `Invariance`, `RowsArmedOrOff` (`ArmedIsClean`), `OneShotFiresOnce`
(`OneShotOnce`), `LoopsCoalesce` (`RecurringCoalesced`), `PauseHolds`
(`PausedNeverFires`), `TabsStayFew` (`NoBlankTabs`).

`OneShotOnce` is not inductive: a state with an armed row, one delivered prompt
and one arming satisfies it and the next fire breaks it. `Inv` adds that an arming
is spent in one place, `sent + claimed + armed <= arms` (`ArmingSpentOnce`), that a
row that fired is armed for a strictly later match (`ArmedForLaterMatch`), that a
paused row is off (`HaltedIsOff`), and that an id never inserted is blank
(`UnbornIsBlank`). There is one lemma per group of actions and one per helper
(`NextCron`, `ResumeFireTime`, `MarkedRow`, `BookedRow`); the action properties
follow from `Inv` and the one action that marks a row.

`NoBlankTabs` compares a counter with the number of fires in flight, so its proof
(invariant `Tabs`) is about what each step does to a set of dispatchers: a creation
adds one fire and one tab, a send or a rollback takes one of each, a crash or an
error removes fires and is counted. It needs that a dispatcher works for an inserted
task whose workspace and `new_session` no statement changes (`JobsAreBorn`,
`RowsKeepTarget`), or a fire in flight could move to another workspace, and that a
deleted workspace has no tabs left and gets none (`DeletedHasNoTabs`).

Only model-checked: `OverdueFires` (liveness under fairness is outside the prover's
reach).

## ChatSession

One tab and the calls of `send_chat_message` on it. A call is an element of
`Turns`, which also names the process it may start and the uuids it may draw.

State. `ses` is the tab's entry in `AppState.agents` (`on` is its presence; `ps`
and `active` are `persistent_session` and `active_pid`), `lock` the call holding
the write guard over several actions, `db` the row, `mcp` the version of the
repository's MCP rows and the version up to which entries were marked dirty,
`turn[t]` the locals of a call and then of its stream task with its receiver's
`inbox`, `proc[p]` a CLI process (external), `replies` control responses in its
stdin, `kills` pids Stop or Reset is about to kill, `transcripts` the ids the CLI
can resume. `stopped` is history for one property.

Actions. `SendRead` (the row), `SendConfig` (the MCP rows), `SendEnter` (entry,
drain), `SendError` (an early return), `SendDirty` (the teardown for a
changed MCP config), `SendCount` and `SendEnv` (the turn is counted; the teardowns for
drifted flags and for a drifted environment, both `Drift`), `SendRelock` after each
release; then `SendReuse`, or `SendRespawn`/`SendMint`, or `SendFresh`; `Spawn`
and its failures, `Prompt`, `Store`. The stream task: `OnInit`/`InitSave`, `OnAsk`,
`OnTask`, `OnResult`, `AuthReset`/`AuthClear`, `OnExit`. Commands: `StopAgent`,
`ResetAgentSession`/`ResetClear`, `KillAgent`, `SubmitAnswer`,
`SubmitApprovalFails`, `ToggleServer`/`MarkDirty`, `AppRestart`. The write of the
denials follows the drain with nothing in between that could see the drained
requests, so they are one action. `turn_count` saturates at 2: the code only asks
whether it is 0, or more than 1.

The CLI is external: it reports init for each prompt, may ask once, may report a
background task, ends with a result, refuses to resume an id without a transcript,
and exits when its stdin closes, when it is killed or when it crashes. A receiver
is ended by the first Result or exit of its process, for every turn subscribed.
Output still unread in the stdout pipe when the exit is broadcast is not modelled.

| Run | Checks | Shows |
|---|---|---|
| `chat_tab` | `TypeOK`, `ActiveIsPersistent`, `FreshSidFresh`, `NoHungAgent`, `ConfigCurrent` | two messages with background tasks, and a toggle or two of a fault, a restart and a Reset, at every point |
| `chat_live` | `TurnSettles` | a message ends or waits for the user |
| `chat_stop` (violation) | `StopKeepsConversation` | Stop before init discards the conversation |

`Overlap = FALSE` is the GUI, which sends only while the tab is idle (no active pid,
no call in progress); `TRUE` adds the scheduler, the IPC socket and a message sent
over an open permission card. Two messages are enough for a process and its
successor. `Budget` bounds faults, toggles,
restarts and resets; `FewRare` keeps `chat_tab` to one toggle or two of the others.
`ConfigCurrent` excepts the processes of calls that had read the MCP rows and not yet
stored their process when a toggle marked the entries (`mcp.missed`): for those the
toggle is lost. `NoHungAgent` is claimed without overlap only. Deadlock is not checked: a tab whose messages are used up
stops. `Turns` is a symmetry set in the safety runs.

Fairness (`FairSpec`): a started call goes on, a stream task handles its events, a
kill is delivered, a child is reaped, the CLI works on its prompts. Users, faults
and toggles owe nothing, so `TurnSettles` allows a turn to wait for an answer.

More disagreements were met while modelling: the exit of a process that never sent
init removes the entry of the newer turn that replaced it, because that branch does
not compare `active_pid` (`send.rs:3155`, against the comment at `send.rs:3144`); an
error between the count of the turn and the spawn leaves an id behind that the next
attempt resumes although no CLI ever used it (`send.rs:1724`, `send.rs:2247`), the row
saved after the init event's critical section brings back a conversation that a
Reset in between has discarded (`send.rs:2585`), and no check refuses a message on a
busy process, although the comment of `send_turn` relies on one (`session.rs:252`).

### What is proved (`ChatSessionProofs`)

For every number of messages and every budget of faults, toggles, restarts and
resets, with or without overlap and background tasks, from `NoneAssumption` and
`BudgetAssumption` only: `Invariance` (the inductive invariant), `TypeCorrect`
(`TypeOK`), `PidTracksProcess` (`ActiveIsPersistent`), `FreshStartsFresh`
(`FreshSidFresh`, an action property) and `ToggleTakesEffect` (`ConfigCurrent`).
`HangNeedsOverlap` says when `NoHungAgent` can fail: never in a behaviour in which each
message waits for the turn before it, `[][MessagesWait]_vars`, whatever `Overlap` is.

`Inv` groups the state by owner: the entry (`SesOK`), the calls (`TurnOK`), the
guard (`LockOK`), the processes and transcripts (`ProcOK`) and the rest (`RestOK`),
so that a step only has to show the groups it touches (`Frames`). What it adds to
the types, and why it is needed:

- `HoldsEntry`: while a call keeps the guard nobody removes the entry. Without it a
  critical section would write to an entry that is gone.
- `StreamHasPid`, `WorkHasPrompt`: a stream task knows its process, a working CLI
  has a prompt, so the values read from them have their types.
- `SpawnIds`, `ProcIds`, `UnstartedUnused`: a start without `--resume` uses an id
  drawn by its own call, and no transcript exists under the ids of a process that
  was never started. `FreshSidFresh` follows from these and from `OnlySpawnsStart`:
  no action but `Spawn` and `SpawnRetry` starts a process.
- `TogglesPaid`: the version of the MCP rows stays inside its bound.

There is a lemma per handler and one per helper it uses (`MoveOK`, `GotoOK`,
`KillOK`, `BroadcastOK`, `LaunchedOK`, ...).

`ConfigCurrent` speaks of a call that streams; what makes it true was read and checked
several actions before. Its invariant `Current` says of each call what it knows
of the rows at each point between `SendRead` and its stream (`CallCurrent`), and of
the entry that its process was started with the rows the last toggle marked, or that
it is marked dirty, or missed (`EntryCurrent`). `CallMoves` is the map of a call's
path and keeps most steps away from both.

`NoHungAgent` follows a permission request from the CLI's stdout through the
receiver's inbox into the entry and back into stdin. Its invariant `Hearing` says that
one call is between its row and its stream at a time, and no process is active
meanwhile (`OneCall`); that nothing is queued behind the event that ends a receiver
(`InboxOK`); that a process is its own call's alone until that call has stored it
(`Unshared`); and that a live process which is the tab's, and which nobody has
condemned, has at most one prompt, whose call still listens, and that what it asks is
in that call's inbox, pending in the entry, or answered (`Heard`).

The hypothesis is on the behaviour and not on a constant, because the code does not
enforce it: the GUI sends to an idle tab, but the scheduler and the IPC socket send at
any time, and TLC breaks `NoHungAgent` with overlapping messages. Two prompts are
queued on one process, the Result of the first ends the receivers of both calls, and
the request the second prompt then raises is broadcast to nobody. This is the comment
at `session.rs:252` again, which relies on a check that the code does not have. The
theorem says that this is the only way: no drain, teardown, answer, Stop, Reset,
restart or late event leads to a hang by itself.

Only model-checked: `TurnSettles`, which is liveness.

## McpSupervisor

The MCP servers of one repository. `rows` is `repository_mcp_servers` (no row, on,
off), `listed` the `disabledMcpServers` of `~/.claude.json`, `sup` the supervisor's
map, `call[c]` the locals of a command, `ids` whether a caller may hold the id of a
row that has since been written again.

Actions. `ensure_and_validate_mcps` is `EnsureList`, `EnsureReplace`,
`EnsureReload`, `EnsureInit`, `ValidateRead`, `ValidateApply`; `reconnect_server` is
`ReconnectRead`, `ReconnectMark`, `ReconnectApply`; `set_mcp_server_enabled` is
`SetRow`, `SetListed` or `SetFails`, `SetSupervised` (its last step, the dirty mark,
is `MarkDirty` of `ChatSession`); `Save`, `DeleteRow`, `ReportToolFailure` and
`RemoveRepo` are one step each. A read or write of the database that only logs its
error is a choice. The network check between two critical sections is external: the
verdict is chosen when it is applied. `failure_count` saturates at `MaxFails`.

| Run | Checks | Shows |
|---|---|---|
| `mcp_all` | `TypeOK`, `ErrorsMatchState`, `NoLateVerdict` | three concurrent commands and every outside event |

One server is enough: no method relates two servers, and whether any row is left is
the only thing a command asks about the others. Three calls give a check, a toggle
and a reload at once. There is no fairness: nothing is promised to happen.

Proved (`McpSupervisorProofs`), for any servers and any number of commands, from
`FailsAssumption`: `TypeCorrect`, `StatusAgrees` (`ErrorsMatchState`),
`LateChecksIgnored` (`NoLateVerdict`). `NoLateVerdict` speaks of servers that are disabled or
gone when the answer comes; one that was enabled or added again takes it, since
`mcp_supervisor.rs:440-445` looks only at name and flag. The invariant is one predicate per server
record (`Sound`): its type, emptiness when dropped, and the agreement of state,
count and error; each helper keeps it, so each action does.

Met while modelling: a toggle between the list and the
replace of `ensure_and_validate_mcps` is overwritten (`mcp.rs:197`), one between the
reload and the supervisor is undone in memory (`mcp.rs:221`), and a reconnect that
read a server before it was disabled leaves it shown as pending
(`mcp_supervisor.rs:513`).

## BootProbation

The files that outlive a process (`installed`, `backups`, `sentinel`, `report`), the
launches of the app (`boot[b]`, with its acknowledgement, timer, the updater commands
it is in and the section it has under `PROBATION_FILE_LOCK`) and the helper process
each may spawn (`helper[b]`). `created` numbers the sentinels, as `created_at` does.

Actions. `CheckForUpdates`, `Backup`, `Prepare`, `Install`, `Restart` are the updater
commands, one step for each file they change. `StartMonitor`/`RecordAttempt`,
`ReadForStage`/`WriteStage` and `TimeoutRead`/`TimeoutFail`/`TimeoutMark` are the
sections that read the sentinel and write it back: two steps each, since the lock
orders one process only. `Acknowledge`/`AckRemove` are `boot_ok`; `TimerFires`,
`SpawnHelper`, `AppExit` the rest of the timeout; `HelperRead` to `HelperReport` the
helper. A write, copy, spawn or download that fails, a removal that stops half way, a
crash and a recorded boot stage are bounded together by `Rare`.

Instances. The app has no single-instance lock and several may run
(`logging.rs:15-20`), so `Launch` does not ask whether another lives; `Instances`
bounds how many the user starts side by side, while `Restart` and `Relaunch` always
may. Nor does an update ask whether its launch is still on probation.

`boot_probation` (one release after the first, one update, three launches, two of
them side by side, one rare event) checks that one update arms no launch beyond the
first (`AttemptsBound`), that a launch whose `boot_ok` has returned does not roll its
update back even when its timer had fired (`AckSticks`), and that an unacknowledged
one is replaced or reported (`ProbationResolves`). Three launches are the one that
updates, the new build and a second attempt or the restored build.

What is excepted. `lost` counts the attempts that could not be written
(`boot_probation.rs:308-310` arms all the same) and `stale` the writes over a sentinel
that changed after the writer had read it. One process alone makes no stale write in
its sections; two instances do, and two launches that read the sentinel before either
has counted its attempt both arm. `AttemptsBound` allows one more armed launch for
each of these, `AckSticks` speaks of runs without stale writes.

Fairness: setup, timer, sections and helper go on by themselves; nothing is owed by
the frontend or the user. `ProbationResolves` is only claimed while nothing is killed.

### What is proved (`BootProbationProofs`)

`Typed` (`TypeOK`), `AttemptsBounded` (`AttemptsBound`) and `AcknowledgedStays`
(`AckSticks`), for every number of releases, launches, instances, updates and rare
events, from `BootAssumption` only. The argument is the same for both: `FileStep` says
what any step may do to the sentinel (leave it, remove it, prepare a new one, or write
back one of the same update that cannot be armed on, unless the step is counted as
stale), `LaunchStep` what it may do to a launch. The invariant adds to the types that
records name sentinels that were prepared (`CountInv`), what a section holds and when
it is open (`LocalInv`), that the record of an acknowledged launch is neither on disk
nor in its section (`AckInv`), and a budget: the launches armed on an update, and one
more while its sentinel is still fresh, are at most one plus the counted exceptions
(`BudgetInv`). `AttemptsBound` alone is not inductive: it does not say that the
launch that arms uses the record up. `ProbationResolves` stays with TLC.

Met while modelling: `boot_ok` between the mark and the helper's read leaves the helper
without a file, and the app exits with nothing relaunched (`boot_probation.rs:386`); a
failed download leaves the old version on probation (`updater.rs:297`). After a failed
initial load the frontend mounts the updater without `boot_ok` (`App.tsx:243-250`,
`AppLayout.tsx:53`, `useAutoUpdater.ts:154-167`); an update started then prunes the copy
that the armed record names, against the comment that the new one "is the *only*
backup we'll need to fall back on" (`boot_probation.rs:660-663`). When the timer
fires before the new sentinel is written, the helper finds no backup and reports a
failed rollback. No property excludes it; TLC finds the trace with two releases and
two updates.

Not modelled: a report that cannot be written, what a boot stage says, the log tail.

## CodexAppServer

One session: `call[c]` the calls made on it (turn, compaction, steering, interrupt),
`pending` the registered requests, `active`, `manual`, `expired` and `buf` the shared
flags, turn id and text buffer, `approvals` server requests that wait for the user,
`reader` the two background tasks, `toSrv`/`out` the pipes, `srv` the server
(external).

Actions. `Begin` is the guard and the subscription of a call; `Register`, `Write`,
`Answered`, `Refused` one JSON-RPC request, first for the thread and then for the
call itself; `PumpEnds` the caller's loop over events. `Route` is
`route_app_server_message` for the next line of stdout: a response, a text delta, a
completed item, the end of a turn, a compaction, a server request. `ReaderStops`,
`StderrAuth` and `ExitWatcher` are the ways a session ends.

`codex_app_server` (three calls, one extra event, one fault) checks that a waiting
call can always be woken (`WaiterIsRegistered`), that no turn takes another's result
(`ResultsAreNotStray`), that texts do not run together or stay behind
(`TextIsWhole`), that Stop finds the running turn
(`StopFindsTurn`), and that every call ends (`Settles`). Three calls are a turn, a Stop
or steering on it, and the next turn. Two of these are claimed only for sessions that
were neither stopped nor compacted (`Disturbed`): after a Stop the Result of the old turn
can end the next one, since the events carry no turn id. `Settles` names the cases in which the code
does wait for ever: a request registered after the credentials expired, credentials
that die under a running turn, a reader that gave up while the process lives.
Fairness: the runtime's tasks and the server make progress; nobody owes a call or an
answer.

### What is proved (`CodexAppServerProofs`)

For every number of calls, extra events and faults, from `CodexAssumption` only:
`Typed` (`TypeOK`), `NobodyIsForgotten` (`WaiterIsRegistered`), `OwnResult`
(`ResultsAreNotStray`), `TextStaysWhole` (`TextIsWhole`), `StopAlwaysFinds`
(`StopFindsTurn`). The invariant says

- `Registered`: a request is in `pending` exactly while its call writes it or waits
  for it without an answer. One direction is `WaiterIsRegistered`; the other keeps a
  request from being registered twice.
- `Quiet`: in an undisturbed session the end of every turn is in exactly one place
  (still to come from the server, in a pipe, or in the inbox of the pump that waits for
  it). Without it a Result could be counted twice, and the next pump would take the
  second. `InOrder` says that a turn begins when the one before it is over or stopped,
  `Traces` that a stop or compaction of the past still shows.
- `OneMessage`, `TextHasEnd`: every text delta is followed by the end of its turn, so
  that a buffer is drained before another message starts.

`Settles` is liveness and stays with TLC.

## Checkpoints and SnapshotStore

Two tabs of a workspace, and a fork of it with one tab. A turn has a number, and its
message, checkpoint and the version of the files it leaves are known by that number;
every turn changes the files. State: `msg`, `cp`, `file`, `blobs` are the tables, `ws`
and `wt` status and worktree, `mem` the turns the agent's transcript holds, `prelude`
what will be put before the next message, `task` what a turn still has to do, `op`
the user's operation, `maint` the startup maintenance. `upto[n]` is the last turn whose
message was there when turn n ended (a fork copies messages by time); `raced` and
`forgot` are history.

Actions. `StartTurn` saves the user's message; `SendTurn` takes the prelude and gives the
prompt to an agent that resumes or, where `--resume` fails, to a fresh one; `FailTurn` is
any error in between, with or without the prelude taken and the session cleared. A
running turn may be stopped or die (`AgentExits`), and archive, delete and rollback kill
it (`KillAgents`); a process killed before it initialised stays `dying` until the stream
task sees its exit (`ExitBeforeInit`), which clears the session of the tab whoever uses it
by then. The end of a turn is `EndTurn` (which merges the release of the pid with the
read of the index), `InsertCheckpoint`, `CollectFiles`, `SaveSnapshot` (rows, blobs
and retention in one transaction) or `SaveRejected`. Rollback and clear are
`RollbackBegin`/`ClearBegin`, `UndoFiles`, `UndoMessages`, `UndoCheckpoints`,
`RollbackAgent`/`ClearAgent`; fork is `ForkBegin`, `ForkFiles`, `ForkMessages`,
`ForkList`, `ForkCheckpoint` and `ForkInsertFiles` for each checkpoint,
`ForkTranscript` or `ForkPrelude`; then archive, delete and restore of a workspace
with their purge, `BackfillRead`/`BackfillWrite` and `SweepRead`/`ArchivedSweep` of the
maintenance, and `Restart` at any point, which may also lose what a running agent has not
saved. One user operation runs at a time; a fork or a restored workspace takes messages
once its operation is over.

Merged steps: all messages of a turn appear with the first; the deletion of rows and the
collection of their blobs, two statements in rollback, clear, delete and sweep (the
collection looks for references again, so what comes between is not lost); the worktree
and the branch of an archive.

`SnapshotStore` is what the two tables promise: a snapshot reads as it was written
until it is dropped. `Checkpoints` implements it (`StoreSpec`, with
`snap <- Content`): no collection of blobs, backfill, fork or purge changes what a
checkpoint reads as.

| Run | Checks | Shows |
|---|---|---|
| `checkpoints` | `TypeOK`, `RetentionBound`, `AnchorsHold`, `MemoryMatches`, `OnlyOwnTab`, `StoreSpec` | three turns, retention of one, three of: a new turn, an operation, a restart |
| `checkpoints_restore` (violation) | `PrunedRestoreIsNoOp` | a prune between the check and the restore empties the worktree |

Turns, operations and restarts share the bound `Events`. Retention of one with
three turns makes every save prune. `AnchorsHold` and `MemoryMatches` except tabs
where an operation met the unfinished end of a turn, or was cut short (`raced`): there
the code does leave a checkpoint without its message, or an agent that remembers
what was rolled back. A tab is in `forgot` when a turn it shows never reached its agent
or was lost again: a failed send, an exit before init, a failed `--resume`, an entry
dropped together with its prelude (archive), a restart before the transcript was saved.
The code does all of these and nothing makes up for them until the next rollback or
clear; what `MemoryMatches` asks of such a tab is that its agent has nothing the tab does
not show, and of every other that it has all of it. `AnchorsHold` speaks of the source workspace: a fork gives
the checkpoints of all tabs to its one tab, where the order of indices and that of
times may disagree, and a rollback there does leave a checkpoint without its message
(TLC: four turns, retention of two, five events). There is no fairness: nothing is
promised to happen.

### What is proved (`CheckpointsProofs`, `CheckpointsUndoProofs`)

For every number of turns, events and retained snapshots, from `CheckpointsAssumption`
only: `Typed` (`TypeOK`), `StoreRefined` (`StoreSpec`), `UndoIsLocal` (`OnlyOwnTab`),
`RetentionHolds` (`RetentionBound`), and in the second module `AnchorsStay`
(`AnchorsHold`) and `MemoryStays` (`MemoryMatches`).

- `Struct` holds the tables together: every file row has its checkpoint and its blob
  (`RefsHaveBlobs`), the backfill's list is still what it read (`BackfillRows`), an
  operation has the locals its step uses (`OpShape`), nothing is in a fork before its
  first copy (`ForkFresh`). The refinement follows: an initial state maps to an empty
  store, and each step is a write of a new snapshot, a drop, or a stutter; the lemma
  that carries it is that a collection keeps the blobs of the rows that stay.
- `RetentionBound` is not inductive because a fork copies without pruning. `Budget` adds
  that what is copied and what is still to copy were within the count when the list was
  read (`ForkBudget`).
- `Undo` says, for each tab that was not raced (`TabInv`): at most one task is under way
  (a dying process aside), its message is there and it is of the newest turn (`OneTask`,
  `TaskShown`, `TaskLast`), indices grow with the turns
  (`IndexOrder`), an operation meets no task (`OpAlone`), a checkpoint's message is there
  or about to be deleted with it (`Anchored`, `CpShown`), and the agent's transcript with
  the prelude says what the messages say, but for a message being sent, and no more than
  that where the tab is in `forgot` (`Remembers`, `Cleared`). `IndexOrder` is what
  makes deletion by turn and deletion by index agree.

## ScmPolling

The pull requests of one repository. `forge`, `head` and `tree` are external: the pull
request and CI status of a branch, the branch of a worktree, the worktrees on disk.
`ws` and `srow` are tables; `cache`, `gate`, `polled`, `observed`, `ci` fields of
`AppState`; `task[i]` one poll for each workspace and one command of a client, `loop`
the polling loop, `naming` an automatic rename in progress. A branch has at most one
pull request. A time of merge is kept as the set of workspaces that existed then.

Actions. A poll, `load_scm_detail` and `scm_refresh` run `Lookup` (with the
reconciliation of the branch), `ResolveSome`/`ResolveNone`/`ResolveFails` (provider and
branch lock; without a provider the row is deleted, then `Evict` removes the entry), `Lock`, `Fetch`, `Store`, `Upsert`; `scm_create_pr` and `scm_merge_pr`
run `Lookup`, a `Resolve` and `Act`, and with `scm_refresh` end in `Uncache`, `Unrow`.
The loop runs `Seed`, `Tick`, `Handle`/`HandleNone` for each result, `Sleep`, and
`ArchiveRead`, `ArchiveTree`, `ArchiveCommit`, `CiAfterArchive` for a result that
archives. `CreateWorkspace`, `AutoRenameBegin`/`AutoRenameRow`/`AutoRenameGit`,
`SyncBranch`, `ArchiveByUser`, `RestoreByUser` are the other writers of the row, and
`Select` (`notify_workspace_selected`) makes a workspace due; then what agents and the
forge do, and `Restart`.

The statements on the cache table may fail: the upsert and the deletions do nothing,
and the entry is written or removed all the same (`Upsert`, `Unrow`, `ResolveNone`);
the seed may find no table, or rows whose request or checks do not parse (`Seed`,
`Parsed`). Left out are errors of the two statements of `Lookup`'s reconciliation and
of the tables of workspaces, and a panic of a plugin call.

Merged into one step: the row's read and git's answer in `Lookup`, the two calls of a
fetch, the read of the entry and its write in `Store`; the creation of a workspace (its
worktree, its row and its inputs, undone on an error); `ArchiveByUser`
(`ops/workspace.rs:887-911`: the worktree is removed, then the branch deleted, then the
row written or deleted), and `RestoreByUser`. An automatic rename tries one name, not
the second and the third. Agents that an archive stops belong to `ChatSession`.

| Run | Checks | Shows |
|---|---|---|
| `scm_polling` | `TypeOK`, `NeverUnmerges`, `OutageKeepsPr`, `ArchiveHasEvidence`, `OneFixPerFailure`, `MergedIsArchived` | two workspaces, two branch names, two of: commands, renames, archives, merges, CI changes, failures, restarts |
| `scm_collision` (violation) | `CollisionDeclined` | a new workspace on a reused branch name is archived for a merge older than itself |

Bounds. Two workspaces and two names let a name be reused and two polls meet a
command on one branch. `Events` counts all that users, agents, the forge and failures
do; `Init` starts with any combination of pull requests, so two events reach a merge
with an outage, or a rename with a restart. The counterexample of `scm_collision` needs
three (archive, merge, create), on one branch name. Clients call after the seed, which
runs during setup. Time limits run out only where the code looks at them (`Expire`,
`Elapse`).

`OutageKeepsPr` is the claim of `merge_scm_results`, that a failed list falls back to the
entry, carried over to the table: what was stored survives outages and restarts as long
as the row has its entry. It excepts the branches in `hist.torn`, whose row has lost it:

- the entry was removed while a fetch was about to store it, or while another
  workspace had a row of the branch (after a rename, a refresh for one removes the
  entry that the row of the other relies on), or the deletion of the row failed;
- the seed could not open or read the table or parse the row, or found two rows of the
  branch that say different things.

In each of these the loss is real: the next list that fails finds no entry and overwrites
the stored request with nothing. The comments say otherwise: "there's nothing to
clobber" without a prior cache (`scm.rs:1129-1132`), that an error of the seed is "the same
state we had before this seed existed" (`scm.rs:1229-1231`), and that `pull_request: None`
is returned only when the call succeeded (`scm.rs:1093-1095`). The proof below shows that
there is no other way.

Fairness. Tasks, the loop and a rename go on; `SF` on `Rest` says that the loop
sleeps longer than the cache lives and that the poll interval of a workspace passes.
The users' other steps owe nothing.

### What is proved (`ScmPollingProofs`)

For any workspaces, branches and number of events, from `ScmAssumption` only: `Typed`
(`TypeOK`), `ArchivesHaveEvidence` (`ArchiveHasEvidence`), `OneFix`
(`OneFixPerFailure`), `MergesStay` (`NeverUnmerges`), `OutagesLoseNothing`
(`OutageKeepsPr`). Beside the types (`Typing`) and the shape of a task (`TaskShape`: from
`Lock` on it holds the lock that the table has for its branch) the invariant is

- `Exclusion`: one task at a time between taking and releasing the lock of a branch. It
  depends on `Prunable`, which keeps an entry that anybody holds or awaits.
- `Copies`, `MergeIsKnown`, `Witnessed`: every pull request kept anywhere is one of its
  branch, one that says merged did merge, and what a workspace observed was so.
  `NeverUnmerges` and `ArchiveHasEvidence` follow, with `WhyNamed` for the archive in
  progress.
- `RowsBacked`: a row with a pull request has the entry of its branch behind it, unless
  its deletion is next or the branch is in `hist.torn`; `NoneKnown`: a task that goes on
  with nothing after a failed list found nothing to keep. `OutageKeepsPr` follows.
- `FixCounted`: the number of sessions, against the last status seen.

A step by one task leaves the others alone: the lemmas `Bystander`, `Move` and `Leave`
say so once, and each action then has a lemma of its own. `MergedIsArchived` is liveness
and stays with TLC.

## Findings

`chat_stop`, `checkpoints_restore` and `scm_collision` show the code doing what a
comment or a document of the repository says it does not; `PROJECT.json` quotes the
lines. The sections above name what was met besides.

## Out of the prover's reach

Liveness under fairness and `ENABLED` stay with TLC: `OverdueFires`, `TurnSettles`,
`ProbationResolves`, `Settles`, `MergedIsArchived`. So does what a recursive
definition computes: the induction theorems of the library take an operator as a
parameter, which no installed prover instantiates. (Where a proof needs a least number it
uses that a set of naturals has one, which takes a set.)

Every other property the passing runs check, each invariant and each action property,
is stated by a theorem for every value of the constants the assumptions admit;
`NoHungAgent` for the behaviours in which no message is sent over a running turn.

## Not modelled

The parts listed with status `not_modelled` in `PROJECT.json`: those in the plan
above, and those that are I/O around a library (terminal, tray, audio, git, Lua,
TLS, mDNS), generated, or user interface.

## Running

    tlc -workers 2 -config MCSchedulerDisturbed.cfg MCScheduler
    tlc -workers 2 -config MCScmPolling.cfg MCScmPolling
    tlapm SchedulerProofs.tla
    tlapm ChatSessionProofs.tla
    tlapm McpSupervisorProofs.tla
    tlapm BootProbationProofs.tla
    tlapm CodexAppServerProofs.tla
    tlapm CheckpointsProofs.tla
    tlapm CheckpointsUndoProofs.tla
    tlapm ScmPollingProofs.tla

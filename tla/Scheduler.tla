------------------------------ MODULE Scheduler ------------------------------
(***************************************************************************)
(* The native agent scheduler: the agent_scheduled_tasks table              *)
(* (src/src/db/scheduling.rs), the single background loop that fires due     *)
(* rows and the commands that create, pause, resume, run and delete them     *)
(* (src/src-tauri/src/commands/scheduling.rs), and the two workspace         *)
(* operations that touch the table (archive and delete,                      *)
(* src/src/ops/workspace.rs).                                                *)
(*                                                                           *)
(* The loop and every command are separate tokio tasks over one SQLite file: *)
(* each step below is one statement or one awaited call, and everything      *)
(* interleaves between two steps.                                            *)
(***************************************************************************)
EXTENDS Integers, Sequences, FiniteSets

CONSTANTS
    Tasks,        \* ids of scheduled tasks (uuids; never reused)
    Workspaces,   \* ids of workspaces
    Clients,      \* GUI, IPC and CLI callers, each inside at most one command
    Loop,         \* the scheduler loop, as a dispatcher of prompts
    Wakeups,      \* the wakeups callers may schedule
    Routines,     \* the cron routines callers may create
    Managed,      \* the workspaces that get archived, restored or deleted
    Horizon,      \* bound: the clock saturates here; stands for every later time
    MinWait,      \* the loop's shortest sleep (250 ms)
    MaxWait,      \* the loop's longest sleep (60 s)
    MaxArms,      \* bound: armings (creation and resumes) of one task
    MaxFaults     \* bound: database errors, transient send errors and crashes

Time == 0 .. Horizon
NoTime == -1
TimeOrNone == Time \cup {NoTime}

ASSUME BoundsAssumption ==
    /\ Horizon \in Nat
    /\ MinWait \in Nat /\ MaxWait \in Nat /\ MinWait <= MaxWait
    /\ MaxArms \in Nat /\ MaxFaults \in Nat

ASSUME InputsAssumption ==
    /\ Wakeups \subseteq [ws: Workspaces, newSession: BOOLEAN, fireAt: Time]
    /\ Routines \subseteq [ws: Workspaces, newSession: BOOLEAN, recurring: BOOLEAN,
                          cron: SUBSET Time]
    /\ Managed \subseteq Workspaces
    /\ Loop \notin Clients /\ IsFiniteSet(Clients)
    /\ Tasks # {} /\ IsFiniteSet(Tasks) /\ Workspaces # {}

Dispatchers == Clients \cup {Loop}

VARIABLES
    now,       \* Utc::now(), in ticks
    up,        \* whether the app process is running
    stored,    \* ids present in agent_scheduled_tasks
    row,       \* the columns of each row (a deleted row keeps its last value)
    lastRun,   \* newest row of agent_scheduled_task_runs per task
    ws,        \* workspaces.status and worktree_path, as one of WsStates
    wsOp,      \* the archive or restore in progress on each workspace
    blank,     \* active chat sessions created for a fire and still empty
    loop,      \* local state of start_scheduler / run_due_tasks_once
    job,       \* local state of the command or fire each dispatcher is inside
    faults,    \* faults injected so far
    hist       \* history: armings, prompts delivered, last fire, user pause

vars == <<now, up, stored, row, lastRun, ws, wsOp, blank, loop, job, faults, hist>>

\* "ready" is active with a worktree, "bare" active without one.
WsStates == {"ready", "bare", "archived", "deleted"}
Reasons == {"none", "paused", "terminal_dispatch_error",
            "workspace_unavailable", "workspace_archived"}
Errors == {"none", "transient", "terminal"}

TaskRow == [kind: {"wakeup", "cron"}, recurring: BOOLEAN, newSession: BOOLEAN,
            ws: Workspaces, fireAt: TimeOrNone, cron: SUBSET Time,
            enabled: BOOLEAN, next: TimeOrNone, lastFired: TimeOrNone,
            failures: Nat, reason: Reasons]

LoopState == [pc: {"off", "sweep", "load", "fire", "enter", "wait"},
              now: Time, due: Seq(Tasks), wait: 0 .. MaxWait, wake: Time]

JobState == [pc: {"idle", "resume", "create", "send", "rollback", "record", "book"},
             task: Tasks, err: Errors, next: Time]

BlankRow == [kind |-> "wakeup", recurring |-> FALSE, newSession |-> FALSE,
             ws |-> CHOOSE w \in Workspaces : TRUE, fireAt |-> NoTime, cron |-> {},
             enabled |-> FALSE, next |-> NoTime, lastFired |-> NoTime,
             failures |-> 0, reason |-> "none"]

IdleJob == [pc |-> "idle", task |-> CHOOSE t \in Tasks : TRUE, err |-> "none", next |-> 0]

Init ==
    /\ now = 0
    /\ up = TRUE
    /\ stored = {}
    /\ row = [t \in Tasks |-> BlankRow]
    /\ lastRun = [t \in Tasks |-> "never"]
    /\ ws = [w \in Workspaces |-> "ready"]
    /\ wsOp = [w \in Workspaces |-> "none"]
    /\ blank = [w \in Workspaces |-> 0]
    /\ loop = [pc |-> "sweep", now |-> 0, due |-> <<>>, wait |-> 0, wake |-> 0]
    /\ job = [d \in Dispatchers |-> IdleJob]
    /\ faults = 0
    /\ hist = [t \in Tasks |-> [arms |-> 0, sent |-> 0, fired |-> NoTime, halted |-> FALSE]]

-----------------------------------------------------------------------------
\* Time and cron expressions.

\* A time beyond the bound is the bound: Horizon stands for every later time.
Later(t) == IF t < Horizon THEN t ELSE Horizon

\* Mutant: a match at `from` itself is taken again.
NextCronInclusive(cron, from) ==
    LET after == {m \in cron : m >= from}
    IN  IF after = {} THEN NoTime ELSE CHOOSE m \in after : \A n \in after : m <= n

\* next_cron_run_utc: the first match strictly after `from`, or none in the next year.
NextCron(cron, from) ==
    LET after == {m \in cron : m > from}
    IN  IF after = {} THEN NoTime ELSE CHOOSE m \in after : \A n \in after : m <= n

\* resume_fire_time: NoTime is the Err case.
ResumeFireTime(t) ==
    IF row[t].kind = "cron" THEN NextCron(row[t].cron, now)
    ELSE IF row[t].lastFired # NoTime /\ row[t].reason = "none" THEN NoTime
    ELSE IF row[t].fireAt > now THEN row[t].fireAt ELSE now

\* Mutant: the sleep is not clamped to the maximum.
ClampWaitUnbounded(next) ==
    IF next = NoTime \/ next < now THEN MaxWait
    ELSE IF next - now < MinWait THEN MinWait ELSE next - now

\* Clamp of the sleep; an overdue row gives a negative span, hence the default.
ClampWait(next) ==
    IF next = NoTime \/ next < now THEN MaxWait
    ELSE IF next - now < MinWait THEN MinWait
    ELSE IF next - now > MaxWait THEN MaxWait
    ELSE next - now

-----------------------------------------------------------------------------
\* SQL predicates and updates.

Available(t) == ws[row[t].ws] = "ready"

DueAt(t, time) ==
    t \in stored /\ row[t].enabled /\ row[t].next # NoTime /\ row[t].next <= time

\* Mutant: next_fire_at is not cleared.
DisableKeepingNext(r, why) == [r EXCEPT !.enabled = FALSE, !.reason = why]

Disable(r, why) == [r EXCEPT !.enabled = FALSE, !.next = NoTime, !.reason = why]

DisableFailed(r, why) == [Disable(r, why) EXCEPT !.failures = @ + 1]

\* scheduler_notify.notify_waiters(): wakes the loop only if it already waits.
Notify == loop' = IF loop.pc = "wait" THEN [loop EXCEPT !.pc = "sweep", !.wake = 0] ELSE loop

Healthy == UNCHANGED faults
Faulty == faults < MaxFaults /\ faults' = faults + 1

-----------------------------------------------------------------------------
\* Commands of the GUI, the IPC socket and the agents' MCP tools. The write and
\* the notification that ends each of them are one step: the loop cannot tell
\* a later notification from an early wake-up.

Insert(t, r) ==
    /\ up /\ hist[t].arms = 0
    /\ ws[r.ws] # "deleted"
    /\ stored' = stored \cup {t}
    /\ row' = [row EXCEPT ![t] = r]
    /\ hist' = [hist EXCEPT ![t].arms = 1]
    /\ Notify
    /\ UNCHANGED <<now, up, lastRun, ws, wsOp, blank, job, faults>>

ScheduleWakeup(t) ==
    \E i \in Wakeups :
        Insert(t, [BlankRow EXCEPT !.ws = i.ws, !.newSession = i.newSession,
                                   !.fireAt = i.fireAt, !.enabled = TRUE, !.next = i.fireAt])

CreateCronRoutine(t) ==
    \E i \in Routines :
        /\ NextCron(i.cron, now) # NoTime
        /\ Insert(t, [BlankRow EXCEPT !.kind = "cron", !.ws = i.ws, !.cron = i.cron,
                                      !.newSession = i.newSession, !.recurring = i.recurring,
                                      !.enabled = TRUE, !.next = NextCron(i.cron, now)])

DeleteRoutine(t) ==
    /\ up /\ t \in stored
    /\ stored' = stored \ {t}
    /\ Notify
    /\ UNCHANGED <<now, up, row, lastRun, ws, wsOp, blank, job, faults, hist>>

PauseRoutine(t) ==
    /\ up /\ t \in stored
    /\ row' = [row EXCEPT ![t] = Disable(@, "paused")]
    /\ hist' = [hist EXCEPT ![t].halted = TRUE]
    /\ Notify
    /\ UNCHANGED <<now, up, stored, lastRun, ws, wsOp, blank, job, faults>>

\* resume_scheduled_routine reads the row and computes the fire time ...
ResumeRead(c, t) ==
    /\ up /\ job[c].pc = "idle" /\ t \in stored /\ hist[t].arms < MaxArms
    /\ ResumeFireTime(t) # NoTime
    /\ job' = [job EXCEPT ![c] = [IdleJob EXCEPT !.pc = "resume", !.task = t,
                                                 !.next = ResumeFireTime(t)]]
    /\ UNCHANGED <<now, up, stored, row, lastRun, ws, wsOp, blank, loop, faults, hist>>

\* ... and then re-arms whatever the row has become (0 rows if it is gone).
ResumeWrite(c) ==
    LET t == job[c].task IN
    /\ job[c].pc = "resume" /\ hist[t].arms < MaxArms
    /\ job' = [job EXCEPT ![c] = IdleJob]
    /\ IF t \in stored
       THEN /\ row' = [row EXCEPT ![t].enabled = TRUE, ![t].next = job[c].next,
                                  ![t].reason = "none", ![t].failures = 0]
            /\ hist' = [hist EXCEPT ![t].arms = @ + 1, ![t].fired = NoTime,
                                    ![t].halted = FALSE]
            /\ Notify
       ELSE UNCHANGED <<row, hist, loop>>
    /\ UNCHANGED <<now, up, stored, lastRun, ws, wsOp, blank, faults>>

\* The first step of dispatch_task_prompt_inner.
Dispatch(t) == [IdleJob EXCEPT !.pc = IF row[t].newSession THEN "create" ELSE "send",
                               !.task = t]

RunRoutine(c, t) ==
    /\ up /\ job[c].pc = "idle" /\ t \in stored
    /\ job' = [job EXCEPT ![c] = Dispatch(t)]
    /\ UNCHANGED <<now, up, stored, row, lastRun, ws, wsOp, blank, loop, faults, hist>>

-----------------------------------------------------------------------------
\* Workspaces, as far as they reach the table.

\* archive(): the tasks are disabled first, the status flips afterwards.
ArchiveDisable(w) ==
    /\ up /\ ws[w] = "ready" /\ wsOp[w] = "none"
    /\ wsOp' = [wsOp EXCEPT ![w] = "archiving"]
    /\ row' = [t \in Tasks |->
                 IF t \in stored /\ row[t].ws = w /\ row[t].enabled
                 THEN Disable(row[t], "workspace_archived") ELSE row[t]]
    /\ UNCHANGED <<now, up, stored, lastRun, ws, blank, loop, job, faults, hist>>

ArchiveFlip(w) ==
    /\ wsOp[w] = "archiving"
    /\ wsOp' = [wsOp EXCEPT ![w] = "none"]
    /\ ws' = [ws EXCEPT ![w] = IF @ = "deleted" THEN @ ELSE "archived"]
    /\ UNCHANGED <<now, up, stored, row, lastRun, blank, loop, job, faults, hist>>

RestoreClaim(w) ==
    /\ up /\ ws[w] = "archived" /\ wsOp[w] = "none"
    /\ ws' = [ws EXCEPT ![w] = "bare"]
    /\ wsOp' = [wsOp EXCEPT ![w] = "restoring"]
    /\ UNCHANGED <<now, up, stored, row, lastRun, blank, loop, job, faults, hist>>

RestoreDone(w) ==
    /\ wsOp[w] = "restoring"
    /\ wsOp' = [wsOp EXCEPT ![w] = "none"]
    /\ \E s \in {"ready", "archived"} :
          ws' = [ws EXCEPT ![w] = IF @ = "deleted" THEN @ ELSE s]
    /\ UNCHANGED <<now, up, stored, row, lastRun, blank, loop, job, faults, hist>>

\* The foreign keys remove the workspace's sessions, tasks and runs with it.
DeleteWorkspace(w) ==
    /\ up /\ ws[w] # "deleted"
    /\ ws' = [ws EXCEPT ![w] = "deleted"]
    /\ stored' = {t \in stored : row[t].ws # w}
    /\ blank' = [blank EXCEPT ![w] = 0]
    /\ UNCHANGED <<now, up, row, lastRun, wsOp, loop, job, faults, hist>>

-----------------------------------------------------------------------------
\* The scheduler loop.

\* Every ordering of the due rows that ORDER BY next_fire_at allows.
DueLists(time) ==
    LET due == {t \in Tasks : DueAt(t, time) /\ Available(t)}
    IN  {s \in [1 .. Cardinality(due) -> due] :
           /\ \A t \in due : \E i \in DOMAIN s : s[i] = t
           /\ \A i, j \in DOMAIN s : i < j => row[s[i]].next <= row[s[j]].next}

SweepDisabled ==
    [t \in Tasks |-> IF DueAt(t, now) /\ ~Available(t)
                     THEN DisableFailed(row[t], "workspace_unavailable") ELSE row[t]]

\* disable_due_agent_scheduled_tasks_without_worktrees; its failure is only logged.
Sweep ==
    /\ loop.pc = "sweep"
    /\ loop' = [loop EXCEPT !.pc = "load", !.now = now]
    /\ \/ Healthy /\ row' = SweepDisabled
       \/ Faulty /\ UNCHANGED row
    /\ UNCHANGED <<now, up, stored, lastRun, ws, wsOp, blank, job, hist>>

\* The database cannot be opened: the pass ends with the longest sleep.
SweepCannotOpen ==
    /\ loop.pc = "sweep"
    /\ Faulty
    /\ loop' = [loop EXCEPT !.pc = "enter", !.wait = MaxWait]
    /\ UNCHANGED <<now, up, stored, row, lastRun, ws, wsOp, blank, job, hist>>

LoadDue ==
    /\ loop.pc = "load"
    /\ \/ Healthy /\ \E s \in DueLists(loop.now) : loop' = [loop EXCEPT !.pc = "fire", !.due = s]
       \/ Faulty /\ loop' = [loop EXCEPT !.pc = "fire", !.due = <<>>]
    /\ UNCHANGED <<now, up, stored, row, lastRun, ws, wsOp, blank, job, hist>>

LoopReady == loop.pc = "fire" /\ job[Loop].pc = "idle"

\* Mutant: a one-shot is not disarmed when it fires.
MarkedRowStillArmed(t) == [row[t] EXCEPT !.lastFired = loop.now]

\* mark_agent_scheduled_task_fired: the UPDATE of a row that is still due.
MarkedRow(t) ==
    IF row[t].kind = "cron" /\ row[t].recurring
    THEN [row[t] EXCEPT !.lastFired = loop.now, !.next = NextCron(row[t].cron, loop.now)]
    ELSE [row[t] EXCEPT !.lastFired = loop.now, !.next = NoTime, !.enabled = FALSE]

\* Mutant: the due list is trusted, `enabled` is not checked again.
CanMarkStale(t) == t \in stored /\ row[t].next <= loop.now

CanMark(t) == DueAt(t, loop.now)

MarkAndDispatch ==
    LET t == Head(loop.due) IN
    /\ LoopReady /\ loop.due # <<>>
    /\ CanMark(t)
    /\ row' = [row EXCEPT ![t] = MarkedRow(t)]
    /\ loop' = [loop EXCEPT !.due = Tail(@)]
    /\ job' = [job EXCEPT ![Loop] = Dispatch(t)]
    /\ hist' = [hist EXCEPT ![t].fired = loop.now]
    /\ Healthy
    /\ UNCHANGED <<now, up, stored, lastRun, ws, wsOp, blank>>

\* The UPDATE matched no row, or failed: the task is skipped in this pass.
MarkSkips ==
    /\ LoopReady /\ loop.due # <<>>
    /\ \/ ~CanMark(Head(loop.due)) /\ Healthy
       \/ Faulty
    /\ loop' = [loop EXCEPT !.due = Tail(@)]
    /\ UNCHANGED <<now, up, stored, row, lastRun, ws, wsOp, blank, job, hist>>

\* next_agent_schedule_fire_at: the earliest armed row of an available workspace.
NextFireAt ==
    LET armed == {row[t].next : t \in {u \in stored : row[u].enabled
                                          /\ row[u].next # NoTime /\ Available(u)}}
    IN  IF armed = {} THEN NoTime ELSE CHOOSE n \in armed : \A m \in armed : n <= m

PlanWait ==
    /\ LoopReady /\ loop.due = <<>>
    /\ \/ Healthy /\ loop' = [loop EXCEPT !.pc = "enter", !.now = 0, !.wait = ClampWait(NextFireAt)]
       \/ Faulty /\ loop' = [loop EXCEPT !.pc = "enter", !.now = 0, !.wait = MaxWait]
    /\ UNCHANGED <<now, up, stored, row, lastRun, ws, wsOp, blank, job, hist>>

\* Mutant: the longest sleep is taken for none, the loop waits to be notified.
EnterWaitNotifyOnly ==
    /\ loop.pc = "enter"
    /\ loop' = [loop EXCEPT !.pc = "wait", !.wait = 0,
                            !.wake = IF loop.wait = MaxWait THEN Horizon + 1
                                     ELSE Later(now + loop.wait)]
    /\ UNCHANGED <<now, up, stored, row, lastRun, ws, wsOp, blank, job, faults, hist>>

\* select! polls notified() and sleep(wait) for the first time: a notification
\* sent before this step is lost.
EnterWait ==
    /\ loop.pc = "enter"
    /\ loop' = [loop EXCEPT !.pc = "wait", !.wait = 0, !.wake = Later(now + loop.wait)]
    /\ UNCHANGED <<now, up, stored, row, lastRun, ws, wsOp, blank, job, faults, hist>>

SleepOver ==
    /\ loop.pc = "wait" /\ loop.wake <= now
    /\ loop' = [loop EXCEPT !.pc = "sweep", !.wake = 0]
    /\ UNCHANGED <<now, up, stored, row, lastRun, ws, wsOp, blank, job, faults, hist>>

-----------------------------------------------------------------------------
\* dispatch_task_prompt, for the loop ("scheduled") and a client ("manual").

\* create_chat_session: an error (a vanished workspace) is not a terminal one.
CreateSession(d) ==
    LET w == row[job[d].task].ws IN
    /\ job[d].pc = "create"
    /\ \/ /\ ws[w] # "deleted" /\ Healthy
          /\ blank' = [blank EXCEPT ![w] = @ + 1]
          /\ job' = [job EXCEPT ![d].pc = "send"]
       \/ /\ \/ ws[w] = "deleted" /\ Healthy
             \/ Faulty
          /\ job' = [job EXCEPT ![d].pc = "record", ![d].err = "transient"]
          /\ UNCHANGED blank
    /\ UNCHANGED <<now, up, stored, row, lastRun, ws, wsOp, loop, hist>>

\* send_chat_message up to the point where the turn has started: it rejects a
\* missing session, workspace or worktree, and may fail for other reasons.
SendOutcomes(w) ==
    IF ws[w] # "ready" THEN {"terminal"} ELSE {"none", "transient"}

\* Mutant: the empty session is not rolled back.
AfterSendNoRollback(d, err) == "record"

AfterSend(d, err) ==
    IF err # "none" /\ row[job[d].task].newSession THEN "rollback" ELSE "record"

Send(d) ==
    LET t == job[d].task
        w == row[t].ws
    IN
    /\ job[d].pc = "send"
    /\ \E err \in SendOutcomes(w) :
          /\ IF err = "transient" THEN Faulty ELSE Healthy
          /\ job' = [job EXCEPT ![d].pc = AfterSend(d, err), ![d].err = err]
          /\ blank' = IF err = "none" /\ row[t].newSession
                      THEN [blank EXCEPT ![w] = @ - 1] ELSE blank
          /\ hist' = IF err = "none" /\ d = Loop
                     THEN [hist EXCEPT ![t].sent = @ + 1] ELSE hist
    /\ UNCHANGED <<now, up, stored, row, lastRun, ws, wsOp, loop>>

\* archive_chat_session of the empty session; skipped if the database is unavailable.
Rollback(d) ==
    LET w == row[job[d].task].ws IN
    /\ job[d].pc = "rollback"
    /\ job' = [job EXCEPT ![d].pc = "record"]
    /\ \/ /\ Healthy
          /\ blank' = IF ws[w] = "deleted" THEN blank ELSE [blank EXCEPT ![w] = @ - 1]
       \/ Faulty /\ UNCHANGED blank
    /\ UNCHANGED <<now, up, stored, row, lastRun, ws, wsOp, loop, hist>>

\* record_agent_scheduled_task_run; the insert fails if the task is gone.
RecordRun(d) ==
    LET t == job[d].task IN
    /\ job[d].pc = "record"
    /\ \/ /\ Healthy
          /\ lastRun' = IF t \in stored
                        THEN [lastRun EXCEPT ![t] = IF job[d].err = "none" THEN "ok" ELSE "error"]
                        ELSE lastRun
       \/ Faulty /\ UNCHANGED lastRun
    /\ job' = [job EXCEPT ![d] = IF d = Loop /\ @.err # "none"
                                 THEN [@ EXCEPT !.pc = "book"] ELSE IdleJob]
    /\ UNCHANGED <<now, up, stored, row, ws, wsOp, blank, loop, hist>>

\* The failure bookkeeping of mark_and_dispatch_due_task: keyed by id alone.
BookedRow(t, err) ==
    IF err = "terminal" THEN DisableFailed(row[t], "terminal_dispatch_error")
    ELSE [row[t] EXCEPT !.failures = @ + 1]

Bookkeep ==
    LET t == job[Loop].task IN
    /\ job[Loop].pc = "book"
    /\ \/ /\ Healthy
          /\ row' = IF t \in stored THEN [row EXCEPT ![t] = BookedRow(t, job[Loop].err)] ELSE row
       \/ Faulty /\ UNCHANGED row
    /\ job' = [job EXCEPT ![Loop] = IdleJob]
    /\ UNCHANGED <<now, up, stored, lastRun, ws, wsOp, blank, loop, hist>>

DispatchStep(d) == CreateSession(d) \/ Send(d) \/ Rollback(d) \/ RecordRun(d)

-----------------------------------------------------------------------------
\* The environment.

Tick ==
    /\ now < Horizon
    /\ now' = now + 1
    /\ UNCHANGED <<up, stored, row, lastRun, ws, wsOp, blank, loop, job, faults, hist>>

\* Quitting or crashing loses everything but the database.
Crash ==
    /\ up /\ Faulty
    /\ up' = FALSE
    /\ loop' = [loop EXCEPT !.pc = "off", !.now = 0, !.due = <<>>, !.wait = 0, !.wake = 0]
    /\ job' = [d \in Dispatchers |-> IdleJob]
    /\ wsOp' = [w \in Workspaces |-> "none"]
    /\ UNCHANGED <<now, stored, row, lastRun, ws, blank, hist>>

Start ==
    /\ ~up
    /\ up' = TRUE
    /\ loop' = [loop EXCEPT !.pc = "sweep"]
    /\ UNCHANGED <<now, stored, row, lastRun, ws, wsOp, blank, job, faults, hist>>

LoopStep ==
    Sweep \/ SweepCannotOpen \/ LoadDue \/ MarkAndDispatch \/ MarkSkips
    \/ PlanWait \/ EnterWait \/ SleepOver \/ Bookkeep

Next ==
    \/ \E t \in Tasks : \/ ScheduleWakeup(t) \/ CreateCronRoutine(t)
                        \/ DeleteRoutine(t) \/ PauseRoutine(t)
    \/ \E c \in Clients : \/ ResumeWrite(c)
                          \/ \E t \in Tasks : ResumeRead(c, t) \/ RunRoutine(c, t)
    \/ \E w \in Managed : \/ ArchiveDisable(w) \/ ArchiveFlip(w) \/ RestoreClaim(w)
                          \/ RestoreDone(w) \/ DeleteWorkspace(w)
    \/ LoopStep
    \/ \E d \in Dispatchers : DispatchStep(d)
    \/ Tick \/ Crash \/ Start

\* The loop is a tokio task that is always polled again, a dispatch always
\* returns, the clock advances and the app is eventually started again.
Fairness ==
    /\ WF_vars(LoopStep) /\ WF_vars(Tick) /\ WF_vars(Start)
    /\ \A d \in Dispatchers : WF_vars(DispatchStep(d))

Spec == Init /\ [][Next]_vars
FairSpec == Spec /\ Fairness

-----------------------------------------------------------------------------
\* Type correctness of every variable.
TypeOK ==
    /\ now \in Time /\ up \in BOOLEAN
    /\ stored \in SUBSET Tasks
    /\ row \in [Tasks -> TaskRow]
    /\ lastRun \in [Tasks -> {"never", "ok", "error"}]
    /\ ws \in [Workspaces -> WsStates]
    /\ wsOp \in [Workspaces -> {"none", "archiving", "restoring"}]
    /\ blank \in [Workspaces -> Int]
    /\ loop \in LoopState
    /\ job \in [Dispatchers -> JobState]
    /\ faults \in 0 .. MaxFaults
    /\ hist \in [Tasks -> [arms: Nat, sent: Nat, fired: TimeOrNone, halted: BOOLEAN]]

\* A row is armed or off, never in between: what is switched off has no fire
\* time left (a stale next_fire_at would fire on resume of something else), what
\* is armed carries no disabled_reason, and it has a fire time unless it is a
\* recurring routine that fired its last match within a year. Eight different
\* UPDATEs of db/scheduling.rs, from five actors, maintain this.
ArmedIsClean ==
    \A t \in stored :
        /\ ~row[t].enabled => row[t].next = NoTime
        /\ row[t].enabled => row[t].reason = "none"
        /\ row[t].enabled /\ row[t].next = NoTime => row[t].recurring /\ row[t].lastFired # NoTime

\* A one-shot task delivers at most one scheduled prompt per arming (creation or
\* resume), whatever pauses, failures, restarts and stale due lists interleave:
\* mark_agent_scheduled_task_fired claims the row before the prompt is sent.
OneShotOnce ==
    \A t \in Tasks : ~row[t].recurring => hist[t].sent <= hist[t].arms

\* A recurring routine never fires twice for one cron match: between two fires
\* of one arming lies a match of its expression, and matches missed while the
\* app was closed or busy are coalesced into one fire.
RecurringCoalesced ==
    [][\A t \in Tasks :
         hist'[t].fired # hist[t].fired /\ hist'[t].fired # NoTime /\ hist[t].fired # NoTime
           => \E m \in row[t].cron : hist[t].fired < m /\ m <= hist'[t].fired]_vars

\* A task the user paused does not fire until a resume is committed, even when
\* the pause lands after the loop has loaded the task into its due list.
PausedNeverFires ==
    [][\A t \in Tasks : row'[t].lastFired # row[t].lastFired => ~hist[t].halted]_vars

NewSessionFires(w) ==
    {d \in Dispatchers : /\ job[d].pc \in {"send", "rollback"}
                         /\ row[job[d].task].newSession /\ row[job[d].task].ws = w}

\* A failing routine does not accrete blank tabs: every empty session belongs to
\* a fire still in flight, or to one that a crash or a database error cut short
\* (a crash cuts short at most one fire per dispatcher).
NoBlankTabs ==
    \A w \in Workspaces :
        blank[w] <= Cardinality(NewSessionFires(w)) + faults * Cardinality(Dispatchers)

Overdue(t) == DueAt(t, now) /\ Available(t)

\* An overdue task of an available workspace is fired (or paused or deleted)
\* eventually: notifications lost while the loop was busy, a restart, database
\* errors and the failure of other tasks only delay it.
OverdueFires == \A t \in Tasks : Overdue(t) ~> ~Overdue(t)

-----------------------------------------------------------------------------
\* The inductive invariant behind the safety properties (see SchedulerProofs).

Armed(t) == IF t \in stored /\ row[t].enabled THEN 1 ELSE 0
Claimed(t) == IF job[Loop].task = t /\ job[Loop].pc \in {"create", "send"} THEN 1 ELSE 0

\* An id that was never inserted is nobody's.
UnbornIsBlank ==
    \A t \in Tasks : hist[t].arms = 0 =>
        t \notin stored /\ ~row[t].recurring /\ hist[t].fired = NoTime /\ ~hist[t].halted

\* An arming of a one-shot is spent once: on an armed row, a claimed fire or a
\* delivered prompt.
ArmingSpentOnce ==
    \A t \in Tasks : ~row[t].recurring =>
        hist[t].sent + Claimed(t) + Armed(t) <= hist[t].arms

\* A routine that has fired is armed for a later match of its expression.
ArmedForLaterMatch ==
    \A t \in stored : row[t].enabled /\ hist[t].fired # NoTime /\ row[t].next # NoTime =>
        row[t].next \in row[t].cron /\ row[t].next > hist[t].fired

HaltedIsOff == \A t \in stored : hist[t].halted => ~row[t].enabled

Inv == TypeOK /\ ArmedIsClean /\ UnbornIsBlank /\ ArmingSpentOnce
       /\ ArmedForLaterMatch /\ HaltedIsOff

=============================================================================

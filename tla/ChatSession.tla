----------------------------- MODULE ChatSession -----------------------------
(***************************************************************************)
(* One chat tab driving the Claude Code harness: the AgentSessionState entry *)
(* of the tab (src/src-tauri/src/state.rs), the send_chat_message calls that  *)
(* spawn, reuse and replace the tab's CLI process, the stream task each call  *)
(* leaves behind (src/src-tauri/src/commands/chat/send.rs), the Stop, Reset   *)
(* and answer commands (lifecycle.rs, interaction.rs) and the toggle of an    *)
(* MCP server (commands/mcp.rs).                                              *)
(*                                                                           *)
(* Every access to the entry is under the write guard of AppState.agents:    *)
(* one action below is one critical section, or one step between two of them. *)
(* A send that keeps the guard over several sections is the value of `lock'.  *)
(***************************************************************************)
EXTENDS Naturals, Sequences, FiniteSets

CONSTANTS
    Turns,       \* calls of send_chat_message; also the pid a call may create
    None,        \* no pid, an absent or empty session id
    Overlap,     \* may a call start while another turn is running
    Background,  \* do agents start background tasks
    Budget       \* bounds: how many of each rare event happen

Rare == {"fault", "toggle", "restart", "reset"}

ASSUME BudgetAssumption ==
    Budget \in [Rare -> Nat] /\ Overlap \in BOOLEAN /\ Background \in BOOLEAN

(* Session ids are v4 uuids, named here by the call that drew them and by the *)
(* place it drew them at: the new entry, the spawn, the spawn after a failed  *)
(* --resume, the reset after an authentication failure.                       *)
SidKinds == {"entry", "spawn", "retry", "auth"}
Sids == Turns \X SidKinds
ASSUME NoneAssumption == None \notin Turns /\ None \notin Sids

SidOrNone == Sids \cup {None}
Pids == Turns \cup {None}
Counts == 0 .. 2        \* turn_count; 2 stands for "more than 1"
Versions == 0 .. Budget["toggle"]

VARIABLES
    ses,          \* the tab's entry in AppState.agents
    lock,         \* the call that holds AppState.agents across actions
    db,           \* chat_sessions.session_id and turn_count of the tab
    mcp,          \* version of the repository's MCP rows, and the toggle command
    turn,         \* local state of each call and of the stream task it leaves
    proc,         \* the CLI processes
    replies,      \* control responses written to a process and not yet read
    kills,        \* pids a Stop or Reset has decided to kill and not yet killed
    transcripts,  \* session ids the CLI has a transcript for
    reset,        \* progress of reset_agent_session
    stopped,      \* history: the conversation persisted when Stop was pressed
    left          \* rare events still to come

vars == <<ses, lock, db, mcp, turn, proc, replies, kills, transcripts, reset,
          stopped, left>>

-----------------------------------------------------------------------------
(* State. *)

Events ==
    [kind: {"init", "task", "result", "auth", "exit"}, ask: {None}]
        \cup [kind: {"ask"}, ask: Turns]
Event(k) == [kind |-> k, ask |-> None]

Session ==
    [on: BOOLEAN, sid: SidOrNone, turns: Counts, active: Pids, ps: Pids,
     dirty: BOOLEAN, pending: SUBSET Turns, bg: BOOLEAN]

(* No entry in the map. *)
NoSession ==
    [on |-> FALSE, sid |-> None, turns |-> 0, active |-> None, ps |-> None,
     dirty |-> FALSE, pending |-> {}, bg |-> FALSE]

Holding == {"entered", "clean", "counted", "ready"}
Released == {"drained", "stale", "torn", "flagDrift", "envDrift"}
Steps == {"new", "read", "configured", "respawn", "minted", "spawning",
          "clearing", "spawned", "prompted", "streaming", "saving", "auth",
          "authClear", "done", "failed"} \cup Holding \cup Released

TurnState ==
    [pc: Steps, persisted: BOOLEAN, cfg: Versions, due: Versions,
     sid: SidOrNone, resume: BOOLEAN, pid: Pids, sub: Pids, init: BOOLEAN,
     deferred: BOOLEAN, save: Counts, inbox: Seq(Events)]

NewTurn ==
    [pc |-> "new", persisted |-> FALSE, cfg |-> 0, due |-> 0, sid |-> None,
     resume |-> FALSE, pid |-> None, sub |-> None, init |-> FALSE,
     deferred |-> FALSE, save |-> 0, inbox |-> <<>>]

Process ==
    [st: {"none", "live", "killed", "gone"}, sid: SidOrNone, resume: BOOLEAN,
     cfg: Versions, phase: {"idle", "working", "asking"}, queue: Seq(Turns),
     asked: BOOLEAN]

NoProcess ==
    [st |-> "none", sid |-> None, resume |-> FALSE, cfg |-> 0,
     phase |-> "idle", queue |-> <<>>, asked |-> FALSE]

Init ==
    /\ ses = NoSession
    /\ lock = None
    /\ db = [sid |-> None, turns |-> 0]
    /\ mcp = [version |-> 0, marked |-> 0, missed |-> {}]
    /\ turn = [t \in Turns |-> NewTurn]
    /\ proc = [p \in Turns |-> NoProcess]
    /\ replies = {}
    /\ kills = {}
    /\ transcripts = {}
    /\ reset = "idle"
    /\ stopped = None
    /\ left = Budget

-----------------------------------------------------------------------------
(* Helpers. *)

At(t, pc) == turn[t].pc = pc
Goto(t, pc) == turn' = [turn EXCEPT ![t].pc = pc]
Acquirable == lock = None

(* The call returns an error, or its stream task ends: its locals, process    *)
(* handle and receiver are dropped.                                           *)
Over(pc) == [NewTurn EXCEPT !.pc = pc]
Failed(t) == [turn EXCEPT ![t] = Over("failed")]
Done(t) == [turn EXCEPT ![t] = Over("done")]

Spend(kind) == left[kind] > 0 /\ left' = [left EXCEPT ![kind] = @ - 1]

Forgotten == [sid |-> None, turns |-> 0]   \* clear_chat_session_state
Saved(s) == [sid |-> s.sid, turns |-> s.turns]   \* save_chat_session_state

(* drain_pending_permissions and deny_drained_permissions: without a process *)
(* the requests are dropped, with one each is denied over its stdin.          *)
Denials(s) ==
    IF s.ps = None THEN {} ELSE {[to |-> s.ps, ask |-> a] : a \in s.pending}

Drained(s) == [s EXCEPT !.pending = {}]

ShouldDefer(s) == s.ps # None /\ s.bg   \* should_defer_persistent_restart

(* The teardown shared by the dirty-config and the drift branches. *)
Torn(s) == [s EXCEPT !.pending = {}, !.ps = None, !.active = None]

ShouldResume(t, s) == s.sid # None /\ (turn[t].persisted \/ s.turns > 1)

ResolveSpawnSid(t, saved, resume) == IF resume THEN saved ELSE <<t, "spawn">>

(* What is left of a process that has exited: the id it was started on. *)
Gone(r) == [NoProcess EXCEPT !.st = "gone", !.sid = r.sid, !.resume = r.resume]

Kill(ps, S) == [p \in Turns |->
    IF p \in S /\ ps[p].st = "live" THEN [ps[p] EXCEPT !.st = "killed"] ELSE ps[p]]

-----------------------------------------------------------------------------
(* send_chat_message, up to the choice between reuse and spawn. *)

Between == {"new", "streaming", "saving", "auth", "authClear", "done", "failed"}
Idle == ses.active = None /\ \A u \in Turns : turn[u].pc \in Between

(* The tab's row is read; only "is there a session id" is kept. *)
SendRead(t) ==
    /\ At(t, "new")
    /\ Overlap \/ Idle
    /\ turn' = [turn EXCEPT ![t].pc = "read", ![t].persisted = db.sid # None,
                            ![t].due = mcp.marked]
    /\ stopped' = None
    /\ UNCHANGED <<ses, lock, db, mcp, proc, replies, kills, transcripts, reset,
                   left>>

(* The MCP rows are read before the guard is taken. *)
SendConfig(t) ==
    /\ At(t, "read")
    /\ turn' = [turn EXCEPT ![t].pc = "configured", ![t].cfg = mcp.version]
    /\ UNCHANGED <<ses, lock, db, mcp, proc, replies, kills, transcripts, reset,
                   stopped, left>>

(* or_insert_with: the entry, restored from the row or new. *)
Entry(t) ==
    IF ses.on THEN ses
    ELSE IF db.sid # None
         THEN [NoSession EXCEPT !.on = TRUE, !.sid = db.sid, !.turns = db.turns]
         ELSE [NoSession EXCEPT !.on = TRUE, !.sid = <<t, "entry">>]

(* Requests left by the previous turn are denied, and the process of a turn  *)
(* that has no persistent session is stopped; both release the guard.         *)
SendEnter(t) ==
    /\ At(t, "configured") /\ Acquirable
    /\ LET s == Entry(t)
           stale == IF s.ps = None /\ s.active # None THEN {s.active} ELSE {}
           release == Denials(s) # {} \/ stale # {}
       IN  /\ ses' = [Drained(s) EXCEPT !.active = IF s.ps = None THEN None ELSE @]
           /\ replies' = replies \cup Denials(s)
           /\ proc' = Kill(proc, stale)
           /\ lock' = IF release THEN None ELSE t
           /\ Goto(t, IF stale # {} THEN "stale"
                      ELSE IF release THEN "drained" ELSE "entered")
    /\ UNCHANGED <<db, mcp, kills, transcripts, reset, stopped, left>>

Resumes == [drained |-> "entered", stale |-> "entered", torn |-> "clean",
            flagDrift |-> "counted", envDrift |-> "ready"]

(* The guard is taken again; the entry may be gone by now ("Session lost").  *)
(* After the stop of a stale process active_pid is cleared once more.         *)
SendRelock(t) ==
    /\ turn[t].pc \in Released /\ Acquirable
    /\ IF ses.on
       THEN lock' = t /\ Goto(t, Resumes[turn[t].pc])
       ELSE lock' = None /\ turn' = Failed(t)
    /\ ses' = IF At(t, "stale") /\ ses.on THEN [ses EXCEPT !.active = None] ELSE ses
    /\ UNCHANGED <<db, mcp, proc, replies, kills, transcripts, reset,
                   stopped, left>>

(* A changed MCP config tears the process down, unless background tasks run. *)
SendDirty(t) ==
    /\ At(t, "entered")
    /\ LET tear == ses.dirty /\ ~ShouldDefer(ses)
           release == tear /\ ses.ps # None
       IN  /\ ses' = IF tear THEN [Torn(ses) EXCEPT !.dirty = FALSE] ELSE ses
           /\ replies' = IF tear THEN replies \cup Denials(ses) ELSE replies
           /\ proc' = IF release THEN Kill(proc, {ses.ps}) ELSE proc
           /\ lock' = IF release THEN None ELSE t
           /\ turn' = [turn EXCEPT ![t].pc = IF release THEN "torn" ELSE "clean",
                                   ![t].deferred = ses.dirty /\ ~tear]
    /\ UNCHANGED <<db, mcp, kills, transcripts, reset, stopped, left>>

Counted(s) == [s EXCEPT !.turns = IF @ < 2 THEN @ + 1 ELSE 2]

(* The process was started with other flags or another environment than the *)
(* call asks for, or not: a teardown of the entry s, unless it is deferred.   *)
Drift(t, s, released, kept) ==
    \/ /\ s.ps # None /\ ~ShouldDefer(s)
       /\ ses' = Torn(s)
       /\ replies' = replies \cup Denials(s)
       /\ proc' = Kill(proc, {s.ps})
       /\ lock' = None
       /\ Goto(t, released)
    \/ /\ ses' = s
       /\ Goto(t, kept)
       /\ UNCHANGED <<replies, proc, lock>>

(* The turn is counted, and the caller's flags are compared. *)
SendCount(t) ==
    /\ At(t, "clean")
    /\ Drift(t, Counted(ses), "flagDrift", "counted")
    /\ UNCHANGED <<db, mcp, kills, transcripts, reset, stopped, left>>

(* The environment is resolved under the guard, and compared. *)
SendEnv(t) ==
    /\ At(t, "counted")
    /\ Drift(t, ses, "envDrift", "ready")
    /\ UNCHANGED <<db, mcp, kills, transcripts, reset, stopped, left>>

(* A database or settings error is a plain `?': before the guard, or under it *)
(* with the turn already counted.                                             *)
SendError(t) ==
    /\ turn[t].pc \in {"read", "configured", "counted"}
    /\ Spend("fault")
    /\ turn' = Failed(t)
    /\ lock' = IF At(t, "counted") THEN None ELSE lock
    /\ UNCHANGED <<ses, db, mcp, proc, replies, kills, transcripts, reset, stopped>>

-----------------------------------------------------------------------------
(* send_chat_message: the process for the turn. *)

(* Subscribe, then write the prompt: what send_turn_with_uuid leaves behind. *)
Subscribed(t, p) == [turn EXCEPT ![t].pid = p, ![t].sub = p]
Prompted(t, p) == [proc EXCEPT ![p].queue = Append(@, t)]

(* Mutant: a reuse that would take the prompt of a process that has exited. *)
SendReuseUnchecked(t) ==
    /\ At(t, "ready") /\ ses.ps # None
    /\ ses' = [ses EXCEPT !.active = ses.ps]
    /\ proc' = Prompted(t, ses.ps)
    /\ turn' = [Subscribed(t, ses.ps) EXCEPT ![t].pc = "streaming"]
    /\ db' = Saved(ses)
    /\ lock' = None
    /\ UNCHANGED <<mcp, replies, kills, transcripts, reset, stopped, left>>

(* The write succeeds while the process is there to hold the pipe open. *)
SendReuse(t) ==
    /\ At(t, "ready") /\ ses.ps # None
    /\ proc[ses.ps].st # "gone"
    /\ ses' = [ses EXCEPT !.active = ses.ps]
    /\ proc' = Prompted(t, ses.ps)
    /\ turn' = [Subscribed(t, ses.ps) EXCEPT ![t].pc = "streaming"]
    /\ db' = Saved(ses)
    /\ lock' = None
    /\ UNCHANGED <<mcp, replies, kills, transcripts, reset, stopped, left>>

Launching(t, pc) ==
    LET r == ShouldResume(t, ses)
    IN  [turn EXCEPT ![t].pc = pc, ![t].resume = r,
                     ![t].sid = ResolveSpawnSid(t, ses.sid, r)]

(* The write failed: the process is dropped and a respawn begins. *)
SendRespawn(t) ==
    /\ At(t, "ready") /\ ses.ps # None
    /\ proc[ses.ps].st # "live"
    /\ ses' = [ses EXCEPT !.ps = None, !.active = None]
    /\ turn' = Launching(t, "respawn")
    /\ lock' = None
    /\ UNCHANGED <<db, mcp, proc, replies, kills, transcripts, reset, stopped,
                   left>>

SendMint(t) ==
    /\ At(t, "respawn") /\ Acquirable
    /\ ses' = IF ses.on /\ ~turn[t].resume THEN [ses EXCEPT !.sid = turn[t].sid]
              ELSE ses
    /\ Goto(t, "minted")
    /\ UNCHANGED <<lock, db, mcp, proc, replies, kills, transcripts, reset,
                   stopped, left>>

SendFresh(t) ==
    /\ At(t, "ready") /\ ses.ps = None
    /\ turn' = Launching(t, "spawning")
    /\ ses' = IF turn'[t].resume THEN ses ELSE [ses EXCEPT !.sid = turn'[t].sid]
    /\ lock' = None
    /\ UNCHANGED <<db, mcp, proc, replies, kills, transcripts, reset, stopped,
                   left>>

Launched(t, sid, resume) ==
    [proc EXCEPT ![t] = [NoProcess EXCEPT !.st = "live", !.sid = sid,
                                          !.resume = resume, !.cfg = turn[t].cfg]]

Spawn(t) ==
    /\ turn[t].pc \in {"spawning", "minted"}
    /\ proc' = Launched(t, turn[t].sid, turn[t].resume)
    /\ Goto(t, "spawned")
    /\ UNCHANGED <<ses, lock, db, mcp, replies, kills, transcripts, reset,
                   stopped, left>>

(* Mutant: the retry reuses the id whose --resume failed. *)
RetrySidSaved(t) == turn[t].sid
RetrySid(t) == <<t, "retry">>

(* The spawn with --resume fails and one without it is tried under a new id. *)
SpawnRetry(t) ==
    /\ turn[t].pc \in {"spawning", "minted"} /\ turn[t].resume
    /\ Spend("fault")
    /\ proc' = Launched(t, RetrySid(t), FALSE)
    /\ turn' = [turn EXCEPT ![t].pc = "spawned", ![t].sid = RetrySid(t)]
    /\ UNCHANGED <<ses, lock, db, mcp, replies, kills, transcripts, reset, stopped>>

(* The MCP bridge cannot start, or the retry fails too: a plain `?'. *)
SpawnError(t) ==
    /\ \/ turn[t].pc \in {"respawn", "spawning"}
       \/ At(t, "minted") /\ turn[t].resume
    /\ Spend("fault")
    /\ turn' = Failed(t)
    /\ UNCHANGED <<ses, lock, db, mcp, proc, replies, kills, transcripts, reset,
                   stopped>>

(* The spawn fails for good: fail_after_clearing_session_state. *)
SpawnFails(t) ==
    /\ turn[t].pc \in {"spawning", "minted"}
    /\ Spend("fault")
    /\ db' = Forgotten
    /\ Goto(t, "clearing")
    /\ UNCHANGED <<ses, lock, mcp, proc, replies, kills, transcripts, reset,
                   stopped>>

SpawnCleared(t) ==
    /\ At(t, "clearing") /\ Acquirable
    /\ ses' = IF ses.on THEN [ses EXCEPT !.sid = None, !.turns = 0] ELSE ses
    /\ turn' = Failed(t)
    /\ UNCHANGED <<lock, db, mcp, proc, replies, kills, transcripts, reset,
                   stopped, left>>

(* The entry is looked up and the prompt written to the new process. *)
Prompt(t) ==
    /\ At(t, "spawned") /\ Acquirable
    /\ ses.on /\ proc[t].st # "gone"
    /\ proc' = Prompted(t, t)
    /\ turn' = [Subscribed(t, t) EXCEPT ![t].pc = "prompted"]
    /\ UNCHANGED <<ses, lock, db, mcp, replies, kills, transcripts, reset,
                   stopped, left>>

PromptFails(t) ==
    /\ At(t, "spawned") /\ Acquirable
    /\ ~ses.on \/ proc[t].st # "live"
    /\ turn' = Failed(t)
    /\ UNCHANGED <<ses, lock, db, mcp, proc, replies, kills, transcripts, reset,
                   stopped, left>>

(* The process becomes the tab's, the turn its active one; both are saved. *)
Store(t) ==
    /\ At(t, "prompted") /\ Acquirable
    /\ IF ses.on
       THEN /\ ses' = [ses EXCEPT !.ps = t, !.active = t, !.sid = turn[t].sid]
            /\ db' = Saved(ses')
            /\ Goto(t, "streaming")
       ELSE /\ turn' = Failed(t)
            /\ UNCHANGED <<ses, db>>
    /\ UNCHANGED <<lock, mcp, proc, replies, kills, transcripts, reset, stopped,
                   left>>

-----------------------------------------------------------------------------
(* The stream task of a turn. *)

Arrived(t, kind) ==
    /\ At(t, "streaming") /\ Acquirable
    /\ turn[t].inbox # <<>> /\ Head(turn[t].inbox).kind = kind

Popped(t, pc) == [turn EXCEPT ![t].pc = pc, ![t].inbox = Tail(@)]

Owns(t) == ses.on /\ (ses.ps = turn[t].pid \/ ses.active = turn[t].pid)

(* The canonical session id of the init event; the row is written after the  *)
(* guard is dropped, with the count read under it.                            *)
OnInit(t) ==
    /\ Arrived(t, "init")
    /\ ses' = IF Owns(t) THEN [ses EXCEPT !.sid = proc[turn[t].pid].sid] ELSE ses
    /\ LET n == IF Owns(t) THEN ses.turns ELSE 0
       IN  turn' = [Popped(t, IF n > 0 THEN "saving" ELSE "streaming")
                    EXCEPT ![t].init = TRUE, ![t].save = n]
    /\ UNCHANGED <<lock, db, mcp, proc, replies, kills, transcripts, reset,
                   stopped, left>>

InitSave(t) ==
    /\ At(t, "saving")
    /\ db' = [sid |-> proc[turn[t].pid].sid, turns |-> turn[t].save]
    /\ Goto(t, "streaming")
    /\ UNCHANGED <<ses, lock, mcp, proc, replies, kills, transcripts, reset,
                   stopped, left>>

(* A control request is queued for the user; without an entry it is only    *)
(* shown.                                                                     *)
OnAsk(t) ==
    /\ Arrived(t, "ask")
    /\ ses' = IF ses.on
              THEN [ses EXCEPT !.pending = @ \cup {Head(turn[t].inbox).ask}]
              ELSE ses
    /\ turn' = Popped(t, "streaming")
    /\ UNCHANGED <<lock, db, mcp, proc, replies, kills, transcripts, reset,
                   stopped, left>>

OnTask(t) ==
    /\ Arrived(t, "task")
    /\ ses' = IF ses.on THEN [ses EXCEPT !.bg = TRUE] ELSE ses
    /\ turn' = Popped(t, "streaming")
    /\ UNCHANGED <<lock, db, mcp, proc, replies, kills, transcripts, reset,
                   stopped, left>>

(* The last background task of the session reports its end. *)
TasksOver ==
    /\ ses.bg /\ ses.ps # None /\ Acquirable
    /\ proc[ses.ps].st = "live"
    /\ ses' = [ses EXCEPT !.bg = FALSE]
    /\ UNCHANGED <<lock, db, mcp, turn, proc, replies, kills, transcripts, reset,
                   stopped, left>>

OnResult(t) ==
    /\ Arrived(t, "result") \/ Arrived(t, "auth")
    /\ ses' = IF ses.on /\ ses.active = turn[t].pid /\ ses.ps # None
              THEN [ses EXCEPT !.active = None] ELSE ses
    /\ turn' = IF Head(turn[t].inbox).kind = "auth" THEN Popped(t, "auth") ELSE Done(t)
    /\ UNCHANGED <<lock, db, mcp, proc, replies, kills, transcripts, reset,
                   stopped, left>>

(* reset_persistent_session_after_auth_failure *)
AuthReset(t) ==
    /\ At(t, "auth") /\ Acquirable
    /\ ses' = IF Owns(t)
              THEN [ses EXCEPT !.active = None, !.ps = None, !.turns = 0,
                               !.sid = <<t, "auth">>, !.bg = FALSE]
              ELSE ses
    /\ turn' = IF Owns(t) THEN [turn EXCEPT ![t].pc = "authClear"] ELSE Done(t)
    /\ UNCHANGED <<lock, db, mcp, proc, replies, kills, transcripts, reset,
                   stopped, left>>

AuthClear(t) ==
    /\ At(t, "authClear")
    /\ db' = Forgotten
    /\ proc' = Kill(proc, {turn[t].pid})
    /\ turn' = Done(t)
    /\ UNCHANGED <<ses, lock, mcp, replies, kills, transcripts, reset, stopped,
                   left>>

(* Mutant: the exit leaves active_pid set. *)
ExitedKeepsActive(s) == [s EXCEPT !.ps = None, !.bg = FALSE]
Exited(s) == [s EXCEPT !.active = None, !.ps = None, !.bg = FALSE]

(* The process exited. A turn that saw no init event discards the entry and  *)
(* the row; any other only what its own process still owns.                   *)
OnExit(t) ==
    /\ Arrived(t, "exit")
    /\ IF ~turn[t].init
       THEN ses' = NoSession /\ db' = Forgotten
       ELSE /\ ses' = IF ses.on /\ ses.active = turn[t].pid
                      THEN Exited(ses) ELSE ses
            /\ UNCHANGED db
    /\ turn' = Done(t)
    /\ UNCHANGED <<lock, mcp, proc, replies, kills, transcripts, reset, stopped,
                   left>>

-----------------------------------------------------------------------------
(* The other commands on the tab. *)

(* take_stop_snapshot, then the denials; the kill follows. *)
StopAgent ==
    /\ ses.on /\ Acquirable
    /\ ses.active # None \/ ses.pending # {}
    /\ ses' = [Drained(ses) EXCEPT !.active = None]
    /\ replies' = replies \cup Denials(ses)
    /\ kills' = kills \cup ({ses.active} \ {None})
    /\ stopped' = db.sid
    /\ UNCHANGED <<lock, db, mcp, turn, proc, transcripts, reset, left>>

(* Mutant: the removed entry leaves its requests behind. *)
RemovedKeepsPending(s) == [NoSession EXCEPT !.pending = s.pending]
Removed(s) == NoSession

(* reset_agent_session removes the entry, kills the active process, and then *)
(* clears the row.                                                            *)
ResetAgentSession ==
    /\ reset = "idle" /\ Acquirable
    /\ Spend("reset")
    /\ ses' = Removed(ses)
    /\ replies' = replies \cup Denials(ses)
    /\ kills' = kills \cup ({ses.active} \ {None})
    /\ reset' = "removed"
    /\ stopped' = None
    /\ UNCHANGED <<lock, db, mcp, turn, proc, transcripts>>

ResetClear ==
    /\ reset = "removed" /\ kills = {}
    /\ db' = Forgotten
    /\ reset' = "idle"
    /\ UNCHANGED <<ses, lock, mcp, turn, proc, replies, kills, transcripts,
                   stopped, left>>

(* agent::stop_agent, for Stop and Reset. *)
KillAgent(p) ==
    /\ p \in kills
    /\ proc' = Kill(proc, {p})
    /\ kills' = kills \ {p}
    /\ UNCHANGED <<ses, lock, db, mcp, turn, replies, transcripts, reset,
                   stopped, left>>

(* Mutant: an answer clears every pending request. *)
AnsweredAll(s, a) == [s EXCEPT !.pending = {}]
(* submit_agent_answer and submit_approval_response: only the request answered   *)
(* leaves the map, once the process that can read the answer is known.        *)
Answered(s, a) == [s EXCEPT !.pending = @ \ {a}]

SubmitAnswer(a) ==
    /\ ses.on /\ Acquirable /\ ses.ps # None /\ a \in ses.pending
    /\ ses' = Answered(ses, a)
    /\ replies' = replies \cup {[to |-> ses.ps, ask |-> a]}
    /\ UNCHANGED <<lock, db, mcp, turn, proc, kills, transcripts, reset,
                   stopped, left>>

(* submit_approval_response takes the request out before it looks for the    *)
(* process: without one the request is lost and the command fails.            *)
SubmitApprovalFails(a) ==
    /\ ses.on /\ Acquirable /\ ses.ps = None /\ a \in ses.pending
    /\ ses' = Answered(ses, a)
    /\ UNCHANGED <<lock, db, mcp, turn, proc, replies, kills, transcripts, reset,
                   stopped, left>>

(* set_mcp_server_enabled writes the rows, then marks the live entries. *)
ToggleServer ==
    /\ mcp.version = mcp.marked
    /\ Spend("toggle")
    /\ mcp' = [mcp EXCEPT !.version = @ + 1]
    /\ UNCHANGED <<ses, lock, db, turn, proc, replies, kills, transcripts, reset,
                   stopped>>

(* History: calls that have read the rows but hold no process with them yet. *)
Window == {t \in Turns : turn[t].pc \notin Between \cup {"read"}}

(* Mutant: the entry is not marked. *)
MarkDirtyForgets ==
    /\ mcp.marked # mcp.version /\ Acquirable
    /\ mcp' = [mcp EXCEPT !.marked = mcp.version, !.missed = @ \cup Window]
    /\ UNCHANGED <<ses, lock, db, turn, proc, replies, kills, transcripts, reset,
                   stopped, left>>

MarkDirty ==
    /\ mcp.marked # mcp.version /\ Acquirable
    /\ mcp' = [mcp EXCEPT !.marked = mcp.version, !.missed = @ \cup Window]
    /\ ses' = IF ses.on THEN [ses EXCEPT !.dirty = TRUE] ELSE ses
    /\ UNCHANGED <<lock, db, turn, proc, replies, kills, transcripts, reset,
                   stopped, left>>

(* The app quits and starts again: the row and the transcripts remain. *)
AppRestart ==
    /\ Spend("restart")
    /\ ses' = NoSession
    /\ lock' = None
    /\ turn' = [t \in Turns |-> IF turn[t].pc \in {"new", "done", "failed"}
                                THEN turn[t] ELSE Over("failed")]
    /\ proc' = [p \in Turns |-> IF proc[p].st = "none" THEN proc[p]
                                ELSE Gone(proc[p])]
    /\ replies' = {}
    /\ kills' = {}
    /\ mcp' = [mcp EXCEPT !.marked = mcp.version]
    /\ reset' = "idle"
    /\ stopped' = None
    /\ UNCHANGED <<db, transcripts>>

-----------------------------------------------------------------------------
(* The CLI process (external), and the tasks that read it. *)

(* Every turn subscribed to p gets the event; Result and ProcessExited end   *)
(* the forwarding of all of them.                                             *)
Ends == {"result", "auth", "exit"}
Broadcast(p, e) ==
    [t \in Turns |-> IF turn[t].sub # p THEN turn[t]
                     ELSE [turn[t] EXCEPT !.inbox = Append(@, e),
                                          !.sub = IF e.kind \in Ends THEN None ELSE @]]

Live(p) == proc[p].st = "live"
Known(p) == proc[p].resume => proc[p].sid \in transcripts

CliOnly == <<ses, lock, db, mcp, kills, reset, stopped>>

CliInit(p) ==
    /\ Live(p) /\ proc[p].phase = "idle" /\ proc[p].queue # <<>> /\ Known(p)
    /\ proc' = [proc EXCEPT ![p].phase = "working"]
    /\ transcripts' = transcripts \cup {proc[p].sid}
    /\ turn' = Broadcast(p, Event("init"))
    /\ UNCHANGED <<CliOnly, replies, left>>

CliAsk(p) ==
    /\ Live(p) /\ proc[p].phase = "working" /\ ~proc[p].asked
    /\ proc' = [proc EXCEPT ![p].phase = "asking", ![p].asked = TRUE]
    /\ turn' = Broadcast(p, [kind |-> "ask", ask |-> Head(proc[p].queue)])
    /\ UNCHANGED <<CliOnly, replies, transcripts, left>>

CliReply(p) ==
    /\ Live(p) /\ proc[p].phase = "asking"
    /\ [to |-> p, ask |-> Head(proc[p].queue)] \in replies
    /\ proc' = [proc EXCEPT ![p].phase = "working"]
    /\ replies' = replies \ {[to |-> p, ask |-> Head(proc[p].queue)]}
    /\ UNCHANGED <<CliOnly, turn, transcripts, left>>

CliTask(p) ==
    /\ Background /\ Live(p) /\ proc[p].phase = "working" /\ ~proc[p].asked
    /\ proc' = [proc EXCEPT ![p].asked = TRUE]
    /\ turn' = Broadcast(p, Event("task"))
    /\ UNCHANGED <<CliOnly, replies, transcripts, left>>

CliResult(p) ==
    /\ Live(p) /\ proc[p].phase = "working"
    /\ proc' = [proc EXCEPT ![p].phase = "idle", ![p].queue = Tail(@),
                            ![p].asked = FALSE]
    /\ \/ turn' = Broadcast(p, Event("result")) /\ UNCHANGED left
       \/ turn' = Broadcast(p, Event("auth")) /\ Spend("fault")
    /\ UNCHANGED <<CliOnly, replies, transcripts>>

(* The handles of p are dropped, so its stdin closes: no entry holds it and  *)
(* no call is still setting it up.                                            *)
Dropped(p) == ses.ps # p /\ turn[p].pc \notin {"spawned", "prompted"}

(* It stops by itself: its stdin closed, it has no transcript to resume, or *)
(* it crashes.                                                                *)
CliStops(p) ==
    /\ Live(p)
    /\ proc' = Kill(proc, {p})
    /\ \/ Dropped(p) \/ ~Known(p)
    /\ UNCHANGED <<CliOnly, turn, replies, transcripts, left>>

CliCrashes(p) ==
    /\ Live(p)
    /\ Spend("fault")
    /\ proc' = Kill(proc, {p})
    /\ UNCHANGED <<CliOnly, turn, replies, transcripts>>

(* The exit watcher reaps the child, waits for its stderr, and broadcasts. *)
ProcExited(p) ==
    /\ proc[p].st = "killed"
    /\ proc' = [proc EXCEPT ![p] = Gone(@)]
    /\ turn' = Broadcast(p, Event("exit"))
    /\ replies' = {r \in replies : r.to # p}
    /\ UNCHANGED <<CliOnly, transcripts, left>>

-----------------------------------------------------------------------------
Send(t) ==
    \/ SendRead(t) \/ SendConfig(t) \/ SendEnter(t) \/ SendRelock(t)
    \/ SendDirty(t) \/ SendCount(t) \/ SendEnv(t) \/ SendError(t) \/ SendReuse(t)
    \/ SendRespawn(t) \/ SendMint(t) \/ SendFresh(t) \/ Spawn(t) \/ SpawnRetry(t)
    \/ SpawnError(t) \/ SpawnFails(t) \/ SpawnCleared(t) \/ Prompt(t)
    \/ PromptFails(t) \/ Store(t)

Stream(t) ==
    \/ OnInit(t) \/ InitSave(t) \/ OnAsk(t) \/ OnTask(t) \/ OnResult(t)
    \/ AuthReset(t) \/ AuthClear(t) \/ OnExit(t)

Cli(p) ==
    \/ CliInit(p) \/ CliAsk(p) \/ CliReply(p) \/ CliTask(p) \/ CliResult(p)
    \/ CliStops(p) \/ CliCrashes(p) \/ ProcExited(p)

Next ==
    \/ \E t \in Turns : Send(t) \/ Stream(t) \/ Cli(t) \/ KillAgent(t)
    \/ \E a \in Turns : SubmitAnswer(a) \/ SubmitApprovalFails(a)
    \/ TasksOver \/ StopAgent \/ ResetAgentSession \/ ResetClear
    \/ ToggleServer \/ MarkDirty \/ AppRestart

Spec == Init /\ [][Next]_vars

(* What eventually happens by itself: a call goes on once it has started, a  *)
(* stream task handles its events, a kill is delivered, a child is reaped,    *)
(* and the CLI works on its prompts. Users, faults and toggles owe nothing.   *)
Proceeds(t) ==
    /\ WF_vars(Send(t) /\ ~At(t, "new"))
    /\ WF_vars(Stream(t))
    /\ WF_vars(KillAgent(t))
    /\ WF_vars(ProcExited(t))
    /\ WF_vars(CliInit(t) \/ CliReply(t) \/ CliResult(t) \/ CliStops(t))

FairSpec == Spec /\ \A t \in Turns : Proceeds(t)

-----------------------------------------------------------------------------
(* Properties. *)

(* Every variable has its type, an absent entry has no residue of the one    *)
(* that was removed, and the guard is held exactly by a call inside it.       *)
TypeOK ==
    /\ ses \in Session /\ (~ses.on => ses = NoSession)
    /\ lock \in Pids
    /\ db \in [sid: SidOrNone, turns: Counts]
    /\ mcp \in [version: Versions, marked: Versions, missed: SUBSET Turns]
    /\ turn \in [Turns -> TurnState]
    /\ proc \in [Turns -> Process]
    /\ replies \subseteq [to: Turns, ask: Turns]
    /\ kills \subseteq Turns
    /\ transcripts \subseteq Sids
    /\ reset \in {"idle", "removed"}
    /\ stopped \in SidOrNone
    /\ left \in [Rare -> Nat]
    /\ \A t \in Turns : turn[t].pc \in Holding <=> lock = t

(* active_pid is only ever the pid of persistent_session: whatever the order *)
(* of teardowns, failed reuses, exits and respawns, no step leaves the entry  *)
(* with the pid of a process it no longer holds, so the branch of             *)
(* send_chat_message that kills a "stale process" by pid (a pid the kernel    *)
(* may have given to somebody else) is never taken.                           *)
ActiveIsPersistent == ses.active # None => ses.ps = ses.active

(* No CLI is started without --resume on an id that has a transcript, the    *)
(* tab's or any earlier one's, whatever call minted, kept or replaced it:     *)
(* resolve_spawn_session_id's doc says that start would silently erase the    *)
(* conversation.                                                              *)
Starts(p) == proc[p].st = "none" /\ proc'[p].st # "none"
FreshSidFresh ==
    [][\A p \in Turns :
           Starts(p) /\ ~proc'[p].resume => proc'[p].sid \notin transcripts]_vars

(* Where the answer to the request process p is blocked on may come from. *)
AnswerOnItsWay(p) ==
    LET a == Head(proc[p].queue)
    IN  \/ a \in ses.pending
        \/ [to |-> p, ask |-> a] \in replies
        \/ \E t \in Turns : \E i \in DOMAIN turn[t].inbox : turn[t].inbox[i].ask = a

(* The tab's process is never blocked on a permission request nobody can     *)
(* answer any more: the request is on its way to the user, waiting for them,  *)
(* or its answer is in the pipe.                                              *)
NoHungAgent ==
    \A p \in Turns :
        Live(p) /\ p \notin kills /\ proc[p].phase = "asking" /\ ses.ps = p
            => AnswerOnItsWay(p)

(* Stop "deliberately preserves the persisted Claude resume UUID"            *)
(* (stop_agent): until the next message or a reset the row keeps it.          *)
StopKeepsConversation == stopped # None => db.sid = stopped

(* "the config change takes effect on the next send_chat_message": a call    *)
(* made after set_mcp_server_enabled has returned runs on a process started   *)
(* with the rows that command wrote, unless background tasks defer it. The     *)
(* command misses a process whose call had read the old rows and not yet       *)
(* stored it.                                                                  *)
ConfigCurrent ==
    \A t \in Turns :
        LET p == turn[t].pid
        IN  At(t, "streaming") /\ ~turn[t].deferred /\ Live(p) /\ p \notin kills
            /\ p \notin mcp.missed
                => proc[p].cfg >= turn[t].due

(* Every call that starts ends, unless its agent is waiting for the user:    *)
(* no interleaving of Stop, Reset, teardowns and crashes leaves a stream task *)
(* that waits for an event that will not come.                                *)
TurnSettles ==
    \A t \in Turns :
        ~At(t, "new") ~> \/ turn[t].pc \in {"done", "failed"}
                         \/ t \in ses.pending
=============================================================================

------------------------------ MODULE Checkpoints ------------------------------
(***************************************************************************)
(* Conversation checkpoints and the operations that use them: the checkpoint  *)
(* written when a turn ends (chat.rs, snapshot.rs, db/checkpoint.rs), rollback *)
(* and clear (commands/chat/checkpoint.rs), fork (fork.rs), archive, restore   *)
(* and delete of a workspace, and the startup maintenance of the snapshots     *)
(* (checkpoint_backfill.rs).                                                   *)
(*                                                                           *)
(* A turn has a number; in workspace w its message and its checkpoint are the *)
(* key <<w, n>>. A fork copies <<Source, n>> to <<Fork, n>>. The bytes of a     *)
(* worktree are a version; turn n may write version n. A transaction, or one    *)
(* autocommitted statement, is one action; whatever the code does in several    *)
(* is several actions. One user operation runs at a time beside the turns and   *)
(* the maintenance.                                                             *)
(***************************************************************************)
EXTENDS Naturals, FiniteSets

CONSTANTS
    N,        \* bound: turns
    Keep,     \* checkpoint_retention_count
    Events,   \* bound: new turns, user operations and restarts together
    None

ASSUME CheckpointsAssumption ==
    /\ N \in Nat \ {0} /\ Keep \in Nat \ {0} /\ Events \in Nat
    /\ None \notin Nat /\ None \notin {"a", "b", "f", "source", "fork"}

Source == "source"
Fork == "fork"
Workspaces == {Source, Fork}
Tabs == {"a", "b", "f"}
WsOf(t) == IF t = "f" THEN Fork ELSE Source
Turns == 1 .. N
Keys == Workspaces \X Turns

Base == 0                     \* the files of the branch
Versions == 0 .. N
Empty == N + 1                \* a worktree with no files
Gone == N + 2                 \* no worktree
Broken == N + 3               \* a reference to a blob that is not there

VARIABLES
    msg,      \* chat_messages: the tab of a message, or None
    cp,       \* conversation_checkpoints
    file,     \* checkpoint_files
    blobs,    \* checkpoint_blobs
    ws, wt,   \* workspaces.status, and the worktree on disk
    mem,      \* turns in the transcript the next message resumes
    prelude,  \* pending_history_prelude: turns put in front of the next message
    task,     \* stream tasks: a turn, then its create_turn_checkpoint
    op,       \* the user operation
    maint,    \* the maintenance task
    next,     \* number of the next turn
    left,     \* events still to come
    upto,     \* the last turn whose message was there when a turn ended
    raced,    \* history: tabs where an operation or a turn met an unfinished task
    forgot    \* history: tabs with a turn that never reached the agent, or was lost

tables == <<msg, cp, file, blobs>>
memory == <<mem, prelude>>
bounds == <<next, left, upto>>
history == <<raced, forgot>>
vars == <<tables, ws, wt, memory, task, op, maint, bounds, history>>

NoCp == [tab |-> None, idx |-> 0, at |-> 0]
NoFile == [form |-> "none", v |-> Base]
NoTask == [pc |-> "none", tab |-> None, idx |-> 0, v |-> Base]
NoOp == [kind |-> "none", pc |-> "none", tab |-> None, ws |-> None, n |-> 0,
         idx |-> 0, files |-> FALSE, has |-> FALSE, list |-> {}, cur |-> 0, read |-> NoFile]

(* A database that predates the blob table: one turn of tab a, bytes inline.  *)
Init ==
    /\ msg = [k \in Keys |-> IF k = <<Source, 1>> THEN "a" ELSE None]
    /\ cp = [k \in Keys |-> IF k = <<Source, 1>> THEN [NoCp EXCEPT !.tab = "a"] ELSE NoCp]
    /\ file = [k \in Keys |->
                IF k = <<Source, 1>> THEN [form |-> "inline", v |-> 1] ELSE NoFile]
    /\ blobs = {}
    /\ ws = [w \in Workspaces |-> IF w = Source THEN "active" ELSE "free"]
    /\ wt = [w \in Workspaces |-> IF w = Source THEN 1 ELSE Gone]
    /\ mem = [t \in Tabs |-> IF t = "a" THEN {1} ELSE {}]
    /\ prelude = [t \in Tabs |-> {}]
    /\ task = [n \in Turns |-> NoTask]
    /\ op = NoOp
    /\ maint = [pc |-> "backfill", rows |-> {}, ids |-> {}]
    /\ next = 2 /\ left = Events /\ upto = [n \in Turns |-> n]
    /\ raced = {} /\ forgot = {}

-----------------------------------------------------------------------------
(* Queries. *)

TabsOf(w) == {t \in Tabs : WsOf(t) = w}
KeysOf(w) == {k \in Keys : k[1] = w}

(* active_pid; a turn that is not over; one whose checkpoint may still come.   *)
Running(t) == \E n \in Turns : task[n].tab = t /\ task[n].pc = "run"
Sending(t) == {n \in Turns : task[n].tab = t /\ task[n].pc = "send"}
Unfinished(t) == \E n \in Turns : task[n].tab = t /\ task[n].pc # "dying"
OpOn(t) == op.tab = t /\ op.kind \in {"rollback", "clear"}
Race(t, met) ==
    /\ raced' = IF met THEN raced \cup {t} ELSE raced
    /\ UNCHANGED forgot

(* has_file_state *)
Held(k) == file[k].form # "none"

(* get_checkpoint_files *)
Content(k) ==
    CASE file[k].form = "none" -> None
      [] file[k].form = "inline" -> file[k].v
      [] OTHER -> IF file[k].v \in blobs THEN file[k].v ELSE Broken

Unreferenced(f, bs) == {v \in bs : \A k \in Keys : f[k] # [form |-> "ref", v |-> v]}
GcOrphanBlobs(f, bs) == bs \ Unreferenced(f, bs)

(* Rows of deleted checkpoints cascade; blobs are collected when rows went.   *)
DeleteFiles(gone) ==
    LET f == [k \in Keys |-> IF k \in gone THEN NoFile ELSE file[k]]
    IN  /\ file' = f
        /\ blobs' = IF \E k \in gone : Held(k) THEN GcOrphanBlobs(f, blobs) ELSE blobs

(* Mutant: no ON DELETE CASCADE. *)
DeleteCheckpointsOnly(gone) ==
    /\ cp' = [k \in Keys |-> IF k \in gone THEN NoCp ELSE cp[k]]
    /\ UNCHANGED <<file, blobs>>

DeleteCheckpoints(gone) ==
    /\ cp' = [k \in Keys |-> IF k \in gone THEN NoCp ELSE cp[k]]
    /\ DeleteFiles(gone)

MaxOf(S) == CHOOSE i \in S : \A j \in S : j <= i

(* created_at is datetime('now'), in seconds: not before that of any row, and  *)
(* maybe the same. Only the order within a workspace matters.                   *)
Stamp(k, row) ==
    LET used == {cp[j].at : j \in {j \in KeysOf(k[1]) : cp[j].tab # None}} IN
    \E at \in IF used = {} THEN {0} ELSE {MaxOf(used), MaxOf(used) + 1} :
        cp' = [cp EXCEPT ![k] = [row EXCEPT !.at = at]]

-----------------------------------------------------------------------------
(* A turn: send_chat_message up to the Result event. The number of the turn    *)
(* stands for its messages. The row of a fork or of a workspace being restored *)
(* has no worktree to start in before the operation is over.                   *)

(* persist_user_send *)
StartTurn(t) ==
    /\ next <= N /\ left > 0
    /\ ws[WsOf(t)] = "active" /\ wt[WsOf(t)] # Gone
    /\ ~ (op.kind \in {"fork", "restore"} /\ op.ws = WsOf(t))
    /\ ~ Running(t) /\ Sending(t) = {}
    /\ msg' = [msg EXCEPT ![<<WsOf(t), next>>] = t]
    /\ task' = [task EXCEPT ![next] = [NoTask EXCEPT !.pc = "send", !.tab = t]]
    /\ next' = next + 1 /\ left' = left - 1
    /\ Race(t, Unfinished(t) \/ OpOn(t))
    /\ UNCHANGED <<cp, file, blobs, ws, wt, memory, op, maint, upto>>

Forgets(t) == forgot' = forgot \cup {t} /\ UNCHANGED raced

(* The prelude is taken and the prompt written, to a process that resumes or   *)
(* knows the conversation, or to a fresh one when resuming fails.              *)
SendTurn(n) ==
    LET t == task[n].tab IN
    /\ task[n].pc = "send" /\ wt[WsOf(t)] # Gone
    /\ task' = [task EXCEPT ![n].pc = "run"]
    /\ prelude' = [prelude EXCEPT ![t] = {}]
    /\ \/ /\ mem' = [mem EXCEPT ![t] = @ \cup prelude[t] \cup {n}]
          /\ UNCHANGED <<left, history>>
       \/ /\ mem[t] # {} /\ left > 0 /\ left' = left - 1
          /\ mem' = [mem EXCEPT ![t] = prelude[t] \cup {n}]
          /\ Forgets(t)
    /\ UNCHANGED <<tables, ws, wt, op, maint, next, upto>>

(* An error after the message is persisted: before the prelude is taken, after *)
(* it, or with the session state cleared (fail_after_clearing_session_state).   *)
FailTurn(n) ==
    LET t == task[n].tab IN
    /\ task[n].pc = "send"
    /\ (wt[WsOf(t)] = Gone /\ UNCHANGED left) \/ (left > 0 /\ left' = left - 1)
    /\ task' = [task EXCEPT ![n] = NoTask]
    /\ \/ UNCHANGED memory
       \/ /\ prelude' = [prelude EXCEPT ![t] = {}]
          /\ \E kept \in {mem[t], {}} : mem' = [mem EXCEPT ![t] = kept]
    /\ Forgets(t)
    /\ UNCHANGED <<tables, ws, wt, op, maint, next, upto>>

(* The Result event: active_pid is cleared and create_turn_checkpoint reads    *)
(* latest_checkpoint. The index is counted over the workspace, not the tab.     *)
EndTurn(n) ==
    LET w == WsOf(task[n].tab)
        used == {cp[k].idx : k \in {k \in KeysOf(w) : cp[k].tab # None}}
    IN
    /\ task[n].pc = "run"
    /\ wt' = IF wt[w] = Gone THEN wt ELSE [wt EXCEPT ![w] = n]
    /\ task' = [task EXCEPT ![n].pc = "insert",
                            ![n].idx = IF used = {} THEN 0 ELSE 1 + MaxOf(used)]
    /\ upto' = [upto EXCEPT ![n] = next - 1]
    /\ UNCHANGED <<tables, ws, memory, op, maint, next, left, history>>

InsertCheckpoint(n) ==
    LET t == task[n].tab  k == <<WsOf(t), n>> IN
    /\ task[n].pc = "insert"
    /\ IF ws[WsOf(t)] \in {"active", "archived"}
       THEN /\ Stamp(k, [tab |-> t, idx |-> task[n].idx, at |-> 0])
            /\ task' = [task EXCEPT ![n].pc = "collect", ![n].idx = 0]
       ELSE /\ task' = [task EXCEPT ![n] = NoTask]   \* foreign key: the row is gone
            /\ UNCHANGED cp
    /\ UNCHANGED <<msg, file, blobs, ws, wt, memory, op, maint, bounds, history>>

(* collect_worktree_files; an empty or missing worktree yields no snapshot.   *)
CollectFiles(n) ==
    LET w == WsOf(task[n].tab) IN
    /\ task[n].pc = "collect"
    /\ task' = [task EXCEPT ![n] = IF wt[w] \in Versions
                                   THEN [@ EXCEPT !.pc = "save", !.v = wt[w]]
                                   ELSE NoTask]
    /\ UNCHANGED <<tables, ws, wt, memory, op, maint, bounds, history>>

Newer(j, k) == \/ cp[j].at > cp[k].at
               \/ cp[j].at = cp[k].at /\ cp[j].idx > cp[k].idx

(* Mutant: OFFSET one too far. *)
RetainedOneMore(w, f, kept) ==
    LET held == {k \in KeysOf(w) : f[k].form # "none"} IN
    /\ kept \subseteq held
    /\ Cardinality(kept) = IF Cardinality(held) <= Keep THEN Cardinality(held) ELSE Keep + 1
    /\ \A i \in kept, j \in held \ kept : ~ Newer(j, i)

(* prune_checkpoint_files_tx: all but the Keep most recent; on a full tie the  *)
(* random id decides.                                                          *)
Retained(w, f, kept) ==
    LET held == {k \in KeysOf(w) : f[k].form # "none"} IN
    /\ kept \subseteq held
    /\ Cardinality(kept) = IF Cardinality(held) < Keep THEN Cardinality(held) ELSE Keep
    /\ \A i \in kept, j \in held \ kept : ~ Newer(j, i)

(* insert_checkpoint_files_and_prune *)
SaveSnapshot(n) ==
    LET w == WsOf(task[n].tab)
        k == <<w, n>>
        v == task[n].v
        f == [file EXCEPT ![k] = [form |-> "ref", v |-> v]]
        bs == blobs \cup {v}
    IN
    /\ task[n].pc = "save"
    /\ cp[k].tab # None
    /\ \E kept \in SUBSET KeysOf(w) :
        /\ Retained(w, f, kept)
        /\ LET g == [j \in Keys |-> IF j[1] = w /\ j \notin kept THEN NoFile ELSE f[j]]
           IN  /\ file' = g
               /\ blobs' = IF g = f THEN bs ELSE GcOrphanBlobs(g, bs)
    /\ task' = [task EXCEPT ![n] = NoTask]
    /\ UNCHANGED <<msg, cp, ws, wt, memory, op, maint, bounds, history>>

(* The checkpoint was deleted meanwhile: the foreign key rejects its files.    *)
SaveRejected(n) ==
    /\ task[n].pc = "save"
    /\ cp[<<WsOf(task[n].tab), n>>].tab = None
    /\ task' = [task EXCEPT ![n] = NoTask]
    /\ UNCHANGED <<tables, ws, wt, memory, op, maint, bounds, history>>

LosePreludes(tabs) ==
    /\ prelude' = [t \in Tabs |-> IF t \in tabs THEN {} ELSE prelude[t]]
    /\ forgot' = forgot \cup {t \in tabs : prelude[t] # {}}

(* A process that is killed before it has initialised is still to be noticed.  *)
Killed(n, early) ==
    IF early THEN [NoTask EXCEPT !.pc = "dying", !.tab = task[n].tab] ELSE NoTask

KillAgents(tabs) ==
    \E early \in SUBSET {n \in Turns : task[n].tab \in tabs /\ task[n].pc = "run"} :
        task' = [n \in Turns |-> IF task[n].tab \in tabs /\ task[n].pc = "run"
                                 THEN Killed(n, n \in early) ELSE task[n]]

(* The user stops the turn, or the process dies: no Result, no checkpoint.     *)
AgentExits(n) ==
    /\ task[n].pc = "run"
    /\ left > 0 /\ left' = left - 1
    /\ \E early \in BOOLEAN : task' = [task EXCEPT ![n] = Killed(n, early)]
    /\ UNCHANGED <<tables, ws, wt, memory, op, maint, next, upto, history>>

(* ProcessExited without got_init: the entry of the tab is removed, whoever     *)
(* owns it by now, and the session of its row cleared.                          *)
ExitBeforeInit(n) ==
    LET t == task[n].tab IN
    /\ task[n].pc = "dying"
    /\ task' = [task EXCEPT ![n] = NoTask]
    /\ mem' = [mem EXCEPT ![t] = {}]
    /\ prelude' = [prelude EXCEPT ![t] = {}]
    /\ Forgets(t)
    /\ UNCHANGED <<tables, ws, wt, op, maint, bounds>>

-----------------------------------------------------------------------------
(* rollback_to_checkpoint and clear_conversation share their shape: guard,     *)
(* files, messages, checkpoints, agent.                                        *)

Begin(o) == op = NoOp /\ left > 0 /\ left' = left - 1 /\ op' = o

RollbackBegin(t, n, files) ==
    LET k == <<WsOf(t), n>> IN
    /\ cp[k].tab = t
    /\ ~ Running(t)
    /\ Begin([NoOp EXCEPT !.kind = "rollback", !.pc = "files", !.tab = t, !.ws = WsOf(t),
                          !.n = n, !.idx = cp[k].idx, !.files = files, !.has = Held(k)])
    /\ Race(t, Unfinished(t))
    /\ UNCHANGED <<tables, ws, wt, memory, task, maint, next, upto>>

ClearBegin(t, files) ==
    /\ ws[WsOf(t)] \in {"active", "archived"}
    /\ ~ Running(t)
    /\ Begin([NoOp EXCEPT !.kind = "clear", !.pc = "files", !.tab = t, !.ws = WsOf(t),
                          !.files = files])
    /\ Race(t, Unfinished(t))
    /\ UNCHANGED <<tables, ws, wt, memory, task, maint, next, upto>>

(* restore_snapshot: every file that is not in the rows it reads is deleted.   *)
RestoreSnapshot(k) == IF Held(k) THEN Content(k) ELSE Empty

UndoFiles ==
    LET k == <<op.ws, op.n>> IN
    /\ op.pc = "files" /\ op.kind \in {"rollback", "clear"}
    /\ IF op.files /\ (ws[op.ws] # "active" \/ wt[op.ws] = Gone)
       THEN op' = NoOp /\ UNCHANGED wt
       ELSE /\ op' = [op EXCEPT !.pc = "messages", !.files = FALSE, !.has = FALSE]
            /\ wt' = CASE op.files /\ op.kind = "clear" -> [wt EXCEPT ![op.ws] = Base]
                       [] op.files /\ op.has -> [wt EXCEPT ![op.ws] = RestoreSnapshot(k)]
                       [] OTHER -> wt
    /\ UNCHANGED <<tables, ws, memory, task, maint, bounds, history>>

(* Mutant: delete_messages_after, which is scoped to the workspace. *)
DiscardedOfWorkspace(k) ==
    /\ k[1] = op.ws
    /\ op.kind = "rollback" => k[2] > op.n /\ msg[<<op.ws, op.n>>] # None

(* delete_session_messages_after, delete_chat_messages_for_session; without    *)
(* the anchor row the comparison is with NULL and nothing is deleted.          *)
Discarded(k) ==
    /\ msg[k] = op.tab
    /\ op.kind = "rollback" => k[2] > op.n /\ msg[<<op.ws, op.n>>] # None

UndoMessages ==
    /\ op.pc = "messages"
    /\ msg' = [k \in Keys |-> IF Discarded(k) THEN None ELSE msg[k]]
    /\ op' = [op EXCEPT !.pc = "checkpoints"]
    /\ UNCHANGED <<cp, file, blobs, ws, wt, memory, task, maint, bounds, history>>

(* Mutant: the next checkpoint survives. *)
AfterNext(k) ==
    /\ cp[k].tab = op.tab
    /\ op.kind = "rollback" => cp[k].idx > op.idx + 1

(* delete_session_checkpoints_after *)
After(k) ==
    /\ cp[k].tab = op.tab
    /\ op.kind = "rollback" => cp[k].idx > op.idx

UndoCheckpoints ==
    /\ op.pc = "checkpoints"
    /\ DeleteCheckpoints({k \in Keys : After(k)})
    /\ op' = [op EXCEPT !.pc = "agent"]
    /\ UNCHANGED <<msg, ws, wt, memory, task, maint, bounds, history>>

Shown(t) == {k[2] : k \in {k \in Keys : msg[k] = t}}

Remembered(t) == forgot' = forgot \ {t} /\ UNCHANGED raced

(* Mutant: the old session id, and with it the transcript, is kept. *)
RollbackAgentResumes ==
    /\ op.pc = "agent" /\ op.kind = "rollback"
    /\ KillAgents({op.tab})
    /\ Remembered(op.tab)
    /\ op' = NoOp
    /\ UNCHANGED <<tables, ws, wt, memory, maint, bounds>>

(* apply_migration_to_session: a fresh session id, what survived as prelude,   *)
(* and the process of a turn that started meanwhile is killed.                 *)
RollbackAgent ==
    /\ op.pc = "agent" /\ op.kind = "rollback"
    /\ mem' = [mem EXCEPT ![op.tab] = {}]
    /\ prelude' = [prelude EXCEPT ![op.tab] = Shown(op.tab)]
    /\ KillAgents({op.tab})
    /\ Remembered(op.tab)
    /\ op' = NoOp
    /\ UNCHANGED <<tables, ws, wt, maint, bounds>>

(* The entry is removed and the row cleared; no process is killed.            *)
ClearAgent ==
    /\ op.pc = "agent" /\ op.kind = "clear"
    /\ mem' = [mem EXCEPT ![op.tab] = {}]
    /\ prelude' = [prelude EXCEPT ![op.tab] = {}]
    /\ Remembered(op.tab)
    /\ op' = NoOp
    /\ UNCHANGED <<tables, ws, wt, task, maint, bounds>>

-----------------------------------------------------------------------------
(* fork_workspace_at_checkpoint *)

ForkBegin(n) ==
    LET k == <<Source, n>> IN
    /\ ws[Fork] = "free"
    /\ cp[k].tab # None
    /\ ws[Source] = "active" /\ wt[Source] # Gone
    /\ Begin([NoOp EXCEPT !.kind = "fork", !.pc = "files", !.tab = cp[k].tab, !.ws = Fork,
                          !.n = n, !.idx = cp[k].idx, !.has = Held(k)])
    /\ wt' = [wt EXCEPT ![Fork] = Base]
    /\ UNCHANGED <<tables, ws, memory, task, maint, next, upto, history>>

ForkFiles ==
    /\ op.kind = "fork" /\ op.pc = "files"
    /\ wt' = IF op.has THEN [wt EXCEPT ![Fork] = RestoreSnapshot(<<Source, op.n>>)] ELSE wt
    /\ op' = [op EXCEPT !.pc = "row"]
    /\ UNCHANGED <<tables, ws, memory, task, maint, bounds, history>>

(* insert_workspace, and the messages of copy_history: every tab's, up to the  *)
(* anchor by time, all into the one tab of the fork. The anchor is the last     *)
(* message of its turn, so turns of other tabs that began before it come along. *)
ForkMessages ==
    /\ op.kind = "fork" /\ op.pc = "row"
    /\ ws' = [ws EXCEPT ![Fork] = "active"]
    /\ msg' = [k \in Keys |->
                IF k[1] = Fork /\ k[2] <= upto[op.n] /\ msg[<<Source, k[2]>>] # None
                   /\ msg[<<Source, op.n>>] # None
                THEN "f" ELSE msg[k]]
    /\ op' = [op EXCEPT !.pc = "list"]
    /\ UNCHANGED <<cp, file, blobs, wt, memory, task, maint, bounds, history>>

(* list_checkpoints_up_to; n of the operation stays the fork point.            *)
ForkList ==
    /\ op.kind = "fork" /\ op.pc = "list"
    /\ op' = [op EXCEPT !.pc = "copy",
                        !.list = {<<m, Held(<<Source, m>>)>> : m \in
                            {m \in Turns : /\ cp[<<Source, m>>].tab # None
                                           /\ cp[<<Source, m>>].idx <= op.idx}}]
    /\ UNCHANGED <<tables, ws, wt, memory, task, maint, bounds, history>>

ForkFailed ==
    /\ op' = NoOp
    /\ wt' = [wt EXCEPT ![Fork] = Gone]

IsNext(e) == \A d \in op.list : cp[<<Source, e[1]>>].idx <= cp[<<Source, d[1]>>].idx

(* One checkpoint of the list: its row, and the read of its files. Of two turns *)
(* with one index either may have ended first, and its anchor been copied or not.*)
ForkCheckpoint(e) ==
    LET from == <<Source, e[1]>>  to == <<Fork, e[1]>> IN
    /\ op.kind = "fork" /\ op.pc = "copy"
    /\ e \in op.list /\ IsNext(e)
    /\ \/ /\ msg[to] = None \/ (e[1] # op.n /\ cp[from].idx = op.idx)
          /\ ForkFailed /\ UNCHANGED cp   \* InconsistentHistory
       \/ /\ msg[to] # None
          /\ Stamp(to, [cp[from] EXCEPT !.tab = "f"])
          /\ op' = IF e[2] /\ Held(from)
                   THEN [op EXCEPT !.pc = "insert", !.read = file[from], !.list = @ \ {e},
                                   !.cur = e[1]]
                   ELSE [op EXCEPT !.list = @ \ {e}]
          /\ UNCHANGED wt
    /\ UNCHANGED <<msg, file, blobs, ws, memory, task, maint, bounds, history>>

(* insert_checkpoint_files: a reference is copied as it is, inline bytes are   *)
(* hashed into the blob table. The foreign key rejects a collected blob.       *)
ForkInsertFiles ==
    LET to == <<Fork, op.cur>>  v == op.read.v IN
    /\ op.kind = "fork" /\ op.pc = "insert"
    /\ IF op.read.form = "inline" \/ v \in blobs
       THEN /\ file' = [file EXCEPT ![to] = [form |-> "ref", v |-> v]]
            /\ blobs' = blobs \cup {v}
            /\ op' = [op EXCEPT !.pc = "copy", !.cur = 0, !.read = NoFile]
            /\ UNCHANGED wt
       ELSE ForkFailed /\ UNCHANGED <<file, blobs>>
    /\ UNCHANGED <<msg, cp, ws, memory, task, maint, bounds, history>>

(* copy_claude_session: the whole transcript of the source tab.               *)
ForkTranscript ==
    /\ op.kind = "fork" /\ op.pc = "copy" /\ op.list = {}
    /\ mem[op.tab] # {}
    /\ mem' = [mem EXCEPT !["f"] = mem[op.tab]]
    /\ op' = NoOp
    /\ UNCHANGED <<tables, ws, wt, prelude, task, maint, bounds, history>>

(* seed_fork_history_prelude, where there is no transcript to copy.           *)
ForkPrelude ==
    /\ op.kind = "fork" /\ op.pc = "copy" /\ op.list = {}
    /\ prelude' = [prelude EXCEPT !["f"] = Shown("f")]
    /\ op' = NoOp
    /\ UNCHANGED <<tables, ws, wt, mem, task, maint, bounds, history>>

-----------------------------------------------------------------------------
(* Archive, delete and restore of a workspace. *)

(* The agents are stopped first, then the worktree is removed.                *)
RemoveBegin(w, kind) ==
    /\ kind \in {"archive", "delete"}
    /\ ws[w] = "active" \/ (kind = "delete" /\ ws[w] = "archived")
    /\ Begin([NoOp EXCEPT !.kind = kind, !.pc = "worktree", !.ws = w])
    /\ KillAgents(TabsOf(w))
    /\ LosePreludes(TabsOf(w))
    /\ UNCHANGED <<tables, ws, wt, mem, maint, next, upto, raced>>

RemoveWorktree ==
    /\ op.pc = "worktree" /\ op.kind \in {"archive", "delete"}
    /\ wt' = [wt EXCEPT ![op.ws] = Gone]
    /\ op' = [op EXCEPT !.pc = "row"]
    /\ UNCHANGED <<tables, ws, memory, task, maint, bounds, history>>

(* git refuses to remove a worktree with changes; the error is ignored.       *)
RemoveWorktreeFails ==
    /\ op.pc = "worktree" /\ op.kind = "archive"
    /\ op' = [op EXCEPT !.pc = "row"]
    /\ UNCHANGED <<tables, ws, wt, memory, task, maint, bounds, history>>

ArchiveRow ==
    /\ op.pc = "row" /\ op.kind = "archive"
    /\ ws' = [ws EXCEPT ![op.ws] = "archived"]
    /\ op' = [op EXCEPT !.pc = "purge"]
    /\ UNCHANGED <<tables, wt, memory, task, maint, bounds, history>>

(* Mutant: the blobs of w go, shared or not. *)
PurgedBlobsAll(w, f) == blobs \ {file[k].v : k \in {k \in KeysOf(w) : file[k].form = "ref"}}

(* purge_workspace_checkpoint_files: of the blobs of w, those that no other    *)
(* row references.                                                             *)
PurgedBlobs(w, f) ==
    LET candidates == {file[k].v : k \in {k \in KeysOf(w) : file[k].form = "ref"}}
    IN  blobs \ (candidates \cap Unreferenced(f, blobs))

PurgeFiles ==
    LET f == [k \in Keys |-> IF k[1] = op.ws THEN NoFile ELSE file[k]] IN
    /\ op.pc = "purge"
    /\ file' = f
    /\ blobs' = PurgedBlobs(op.ws, f)
    /\ op' = NoOp
    /\ UNCHANGED <<msg, cp, ws, wt, memory, task, maint, bounds, history>>

PurgeFails ==   \* only logged
    /\ op.pc = "purge"
    /\ op' = NoOp
    /\ UNCHANGED <<tables, ws, wt, memory, task, maint, bounds, history>>

(* delete_workspace_with_summary: everything cascades.                        *)
DeleteRow ==
    /\ op.pc = "row" /\ op.kind = "delete"
    /\ ws' = [ws EXCEPT ![op.ws] = "deleted"]
    /\ msg' = [k \in Keys |-> IF k[1] = op.ws THEN None ELSE msg[k]]
    /\ DeleteCheckpoints(KeysOf(op.ws))
    /\ mem' = [t \in Tabs |-> IF t \in TabsOf(op.ws) THEN {} ELSE mem[t]]
    /\ op' = NoOp
    /\ UNCHANGED <<wt, prelude, task, maint, bounds, history>>

(* try_claim_archived_for_restore, then git. *)
RestoreClaim(w) ==
    /\ ws[w] = "archived"
    /\ Begin([NoOp EXCEPT !.kind = "restore", !.pc = "git", !.ws = w])
    /\ ws' = [ws EXCEPT ![w] = "active"]
    /\ UNCHANGED <<tables, wt, memory, task, maint, next, upto, history>>

RestoreDone ==
    /\ op.kind = "restore"
    /\ wt' = [wt EXCEPT ![op.ws] = Base]
    /\ op' = NoOp
    /\ UNCHANGED <<tables, ws, memory, task, maint, bounds, history>>

RestoreFails ==
    /\ op.kind = "restore"
    /\ ws' = [ws EXCEPT ![op.ws] = "archived"]
    /\ op' = NoOp
    /\ UNCHANGED <<tables, wt, memory, task, maint, bounds, history>>

-----------------------------------------------------------------------------
(* The maintenance task of a start: run_backfill, run_archived_checkpoint_sweep.*)

(* migrate_legacy_checkpoint_file_batch reads outside its transaction.        *)
BackfillRead ==
    /\ maint.pc = "backfill"
    /\ LET rows == {k \in Keys : file[k].form = "inline"}
       IN  maint' = IF rows = {} THEN [maint EXCEPT !.pc = "sweep"]
                    ELSE [maint EXCEPT !.pc = "write",
                                       !.rows = {<<k, file[k].v>> : k \in rows}]
    /\ UNCHANGED <<tables, ws, wt, memory, task, op, bounds, history>>

BackfillWrite ==
    /\ maint.pc = "write"
    /\ blobs' = blobs \cup {r[2] : r \in maint.rows}
    /\ file' = [k \in Keys |->
                 IF Held(k) /\ \E r \in maint.rows : r[1] = k
                 THEN [form |-> "ref", v |-> file[k].v] ELSE file[k]]
    /\ maint' = [maint EXCEPT !.pc = "sweep", !.rows = {}]   \* no inline row is ever added
    /\ UNCHANGED <<msg, cp, ws, wt, memory, task, op, bounds, history>>

(* Once in the life of the database: the archived workspaces are read, then    *)
(* their rows deleted, whatever became of them meanwhile.                       *)
SweepRead ==
    /\ maint.pc = "sweep"
    /\ LET ids == {w \in Workspaces : ws[w] = "archived"}
       IN  maint' = IF ids = {} THEN [maint EXCEPT !.pc = "done"]
                    ELSE [maint EXCEPT !.pc = "purge", !.ids = ids]
    /\ UNCHANGED <<tables, ws, wt, memory, task, op, bounds, history>>

ArchivedSweep ==
    /\ maint.pc = "purge"
    /\ DeleteFiles({k \in Keys : k[1] \in maint.ids})
    /\ maint' = [maint EXCEPT !.pc = "done", !.ids = {}]
    /\ UNCHANGED <<msg, cp, ws, wt, memory, task, op, bounds, history>>

(* The application exits at any point and starts again: tasks, the operation   *)
(* and the preludes are lost, and what the agent of a turn has not saved yet.   *)
Restart ==
    /\ left > 0 /\ left' = left - 1
    /\ task' = [n \in Turns |-> NoTask]
    /\ op' = NoOp
    /\ prelude' = [t \in Tabs |-> {}]
    /\ \E unsaved \in SUBSET {n \in Turns : task[n].pc = "run"} :
        /\ mem' = [t \in Tabs |-> mem[t] \ {n \in unsaved : task[n].tab = t}]
        /\ forgot' = forgot \cup {t \in Tabs : prelude[t] # {} \/ Sending(t) # {}}
                             \cup {task[n].tab : n \in unsaved}
    /\ maint' = IF maint.pc = "done" THEN maint
                ELSE [pc |-> "backfill", rows |-> {}, ids |-> {}]
    /\ raced' = IF op.kind \in {"rollback", "clear"} THEN raced \cup {op.tab} ELSE raced
    /\ UNCHANGED <<tables, ws, wt, next, upto>>

-----------------------------------------------------------------------------
TurnStep ==
    \/ \E t \in Tabs : StartTurn(t)
    \/ \E n \in Turns : \/ SendTurn(n) \/ FailTurn(n) \/ EndTurn(n)
                        \/ AgentExits(n) \/ ExitBeforeInit(n)
                        \/ InsertCheckpoint(n) \/ CollectFiles(n)
                        \/ SaveSnapshot(n) \/ SaveRejected(n)

UndoStep ==
    \/ \E t \in Tabs, n \in Turns, files \in BOOLEAN : RollbackBegin(t, n, files)
    \/ \E t \in Tabs, files \in BOOLEAN : ClearBegin(t, files)
    \/ UndoFiles \/ UndoMessages \/ UndoCheckpoints \/ RollbackAgent \/ ClearAgent

ForkStep ==
    \/ \E n \in Turns : ForkBegin(n)
    \/ ForkFiles \/ ForkMessages \/ ForkList
    \/ \E e \in op.list : ForkCheckpoint(e)
    \/ ForkInsertFiles \/ ForkTranscript \/ ForkPrelude

WorkspaceStep ==
    \/ \E w \in Workspaces, kind \in {"archive", "delete"} : RemoveBegin(w, kind)
    \/ RemoveWorktree \/ RemoveWorktreeFails \/ ArchiveRow \/ PurgeFiles \/ PurgeFails
    \/ DeleteRow
    \/ \E w \in Workspaces : RestoreClaim(w)
    \/ RestoreDone \/ RestoreFails

MaintenanceStep == BackfillRead \/ BackfillWrite \/ SweepRead \/ ArchivedSweep

Next == TurnStep \/ UndoStep \/ ForkStep \/ WorkspaceStep \/ MaintenanceStep \/ Restart

Spec == Init /\ [][Next]_vars

-----------------------------------------------------------------------------
(* Properties. *)

OpKinds == {"none", "rollback", "clear", "fork", "archive", "delete", "restore"}
OpPcs == {"none", "files", "messages", "checkpoints", "agent", "row", "list", "copy",
          "insert", "worktree", "purge", "git"}
Files == [form: {"none", "inline", "ref"}, v: Versions]

(* Every variable keeps its type; the files of a checkpoint go with its row    *)
(* (ON DELETE CASCADE), and every reference has its blob (foreign keys).       *)
TypeOK ==
    /\ msg \in [Keys -> Tabs \cup {None}]
    /\ cp \in [Keys -> [tab: Tabs \cup {None}, idx: Nat, at: Nat]]
    /\ file \in [Keys -> Files]
    /\ blobs \subseteq Versions
    /\ ws \in [Workspaces -> {"free", "active", "archived", "deleted"}]
    /\ wt \in [Workspaces -> Versions \cup {Empty, Gone}]
    /\ mem \in [Tabs -> SUBSET Turns] /\ prelude \in [Tabs -> SUBSET Turns]
    /\ task \in [Turns -> [pc: {"none", "send", "run", "dying", "insert", "collect", "save"},
                          tab: Tabs \cup {None}, idx: Nat, v: Versions]]
    /\ op \in [kind: OpKinds, pc: OpPcs, tab: Tabs \cup {None},
               ws: Workspaces \cup {None}, n: 0 .. N, idx: Nat, files: BOOLEAN,
               has: BOOLEAN, list: SUBSET (Turns \X BOOLEAN), cur: 0 .. N, read: Files]
    /\ maint \in [pc: {"backfill", "write", "sweep", "purge", "done"},
                  rows: SUBSET (Keys \X Versions), ids: SUBSET Workspaces]
    /\ next \in 1 .. N + 1 /\ left \in 0 .. Events /\ upto \in [Turns -> Turns]
    /\ raced \subseteq Tabs /\ forgot \subseteq Tabs
    /\ \A k \in Keys : Held(k) => cp[k].tab # None

(* The blob table, its garbage collections, the backfill, forks and purges     *)
(* together keep the promise of SnapshotStore: a snapshot is written once and   *)
(* always reads as what was written, until it is dropped.                       *)
Store == INSTANCE SnapshotStore WITH
            snap <- [k \in Keys |-> Content(k)]
StoreSpec == Store!Spec

(* No workspace holds more snapshots than checkpoint_retention_count, whatever *)
(* tabs, late saves and forks add (prune_checkpoint_files_tx, copy_history).    *)
RetentionBound == \A w \in Workspaces : Cardinality({k \in KeysOf(w) : Held(k)}) <= Keep

(* A message or checkpoint of a tab disappears only through a rollback or clear *)
(* of that very tab or the deletion of its workspace ("a rollback in one tab     *)
(* can't prune messages in another").                                            *)
OnlyOwnTab ==
    [][\A k \in Keys :
        /\ msg[k] # None /\ msg'[k] # msg[k] =>
              OpOn(msg[k]) \/ (op.kind = "delete" /\ op.ws = k[1])
        /\ cp[k].tab # None /\ cp'[k] # cp[k] =>
              OpOn(cp[k].tab) \/ (op.kind = "delete" /\ op.ws = k[1])]_vars

(* Every checkpoint points at a message that is there, though indices count    *)
(* over all tabs of the workspace and rollback deletes by index: unless an       *)
(* operation or a new turn met the unfinished task of a turn of the tab. A fork   *)
(* gives the checkpoints of all tabs to one, where index and time may disagree.   *)
AnchorsHold ==
    \A k \in KeysOf(Source) :
        cp[k].tab \notin raced \cup {None} /\ ~ OpOn(cp[k].tab) => msg[k] # None

(* With no operation under way, the agent of a tab continues from exactly the   *)
(* turns the tab shows, but for one that is being sent: rollback and clear        *)
(* discard from its memory what they delete and nothing else, also across         *)
(* archive and restore. A start that fails, an exit before the agent has          *)
(* initialised, an entry dropped with its prelude, and a restart do lose turns    *)
(* (`forgot'), until the next rollback or clear; they never bring discarded ones   *)
(* back.                                                                         *)
MemoryMatches ==
    \A t \in Tabs \ raced :
        (t # "f" /\ ~ OpOn(t) /\ ws[WsOf(t)] # "deleted") =>
            /\ mem[t] \cup prelude[t] \subseteq Shown(t) \ Sending(t)
            /\ t \notin forgot => mem[t] \cup prelude[t] = Shown(t) \ Sending(t)

(* Restoring a checkpoint whose snapshot was pruned leaves the worktree alone    *)
(* ("a safe no-op"): nothing else ever empties a worktree here.                  *)
PrunedRestoreIsNoOp == \A w \in Workspaces : wt[w] # Empty
==============================================================================

------------------------- MODULE CheckpointsUndoProofs -------------------------
(***************************************************************************)
(* Proofs about Checkpoints: what rollback and clear leave of a tab, its        *)
(* messages, its checkpoints and the memory of its agent. The invariant is per  *)
(* tab of the source workspace, for the tabs where no operation and no turn met *)
(* an unfinished task.                                                         *)
(***************************************************************************)
EXTENDS CheckpointsProofs

(* The turns of a tab that are not over, the one whose agent dies aside: one at  *)
(* most, and its message is shown.                                             *)
Live(t) == {n \in Turns : task[n].tab = t /\ task[n].pc # "dying"}
OneTask(t) == \A m, n \in Live(t) : m = n
TaskShown(t) == \A n \in Live(t) : msg[<<Source, n>>] = t \/ ws[Source] = "deleted"

(* Indices of a tab's checkpoints grow with its turns, though they are counted   *)
(* over the workspace; the task will add the largest.                           *)
IndexOrder(t) ==
    \A j, k \in KeysOf(Source) :
        cp[j].tab = t /\ cp[k].tab = t /\ j[2] < k[2] => cp[j].idx < cp[k].idx
TaskLast(t) ==
    \A n \in Live(t), k \in KeysOf(Source) :
        cp[k].tab = t /\ k[2] # n =>
            k[2] < n /\ (task[n].pc = "insert" => cp[k].idx < task[n].idx)

(* An operation on the tab is alone, and its anchor stays.                      *)
OpAlone(t) == OpOn(t) => Live(t) = {}
Anchored(t) ==
    OpOn(t) /\ op.kind = "rollback" /\ op.pc # "agent" =>
        cp[<<Source, op.n>>].tab = t /\ cp[<<Source, op.n>>].idx = op.idx

(* Checkpoints whose message is gone are the ones about to be deleted.          *)
Doomed(t, k) == OpOn(t) /\ op.pc = "checkpoints" /\ (op.kind = "rollback" => k[2] > op.n)
CpShown(t) == \A k \in KeysOf(Source) : cp[k].tab = t => msg[k] = t \/ Doomed(t, k)

(* What the agent resumes from is what is shown, but for a turn that is being    *)
(* sent, or while it is being undone.                                           *)
Match(t) ==
    /\ mem[t] \cup prelude[t] \subseteq Shown(t) \ Sending(t)
    /\ t \notin forgot => mem[t] \cup prelude[t] = Shown(t) \ Sending(t)
Undoing(t) == OpOn(t) /\ op.pc \in {"checkpoints", "agent"}
Remembers(t) == ws[Source] # "deleted" => Match(t) \/ Undoing(t)
Cleared(t) == Undoing(t) /\ op.kind = "clear" => Shown(t) = {}

TabInv(t) ==
    /\ OneTask(t) /\ TaskShown(t) /\ IndexOrder(t) /\ TaskLast(t)
    /\ OpAlone(t) /\ Anchored(t) /\ CpShown(t) /\ Remembers(t) /\ Cleared(t)

(* Rows carry a tab of their own workspace, and a workspace that is archived,    *)
(* restored or about to be deleted is not yet deleted.                          *)
Home ==
    \A k \in Keys : /\ msg[k] # None => WsOf(msg[k]) = k[1]
                    /\ cp[k].tab # None => WsOf(cp[k].tab) = k[1]
LiveOps ==
    op.kind \in {"archive", "delete", "restore"} => ws[op.ws] \in {"active", "archived"}

Undo == Struct /\ Home /\ LiveOps /\ \A t \in {"a", "b"} \ raced : TabInv(t)

-----------------------------------------------------------------------------
LEMMA SourceTabs ==
    /\ \A t \in {"a", "b"} : t \in Tabs /\ WsOf(t) = Source /\ t # None /\ t # "f"
    /\ \A t \in Tabs : WsOf(t) = Source => t \in {"a", "b"}
    /\ \A k \in KeysOf(Source) : k \in Keys /\ k = <<Source, k[2]>> /\ k[2] \in Turns
    /\ \A n \in Turns : <<Source, n>> \in KeysOf(Source) /\ <<Source, n>> \in Keys
BY ConstantFacts, KeyFacts DEF Tabs, WsOf, KeysOf, Source, Fork

LEMMA InitUndo == Init => Undo
<1> SUFFICES ASSUME Init PROVE Undo
  OBVIOUS
<1>1. Struct
  BY InitStruct
<1>2. Home /\ LiveOps
  BY ConstantFacts, KeyFacts, SourceTabs DEF Init, Home, LiveOps, NoCp, NoOp
<1>3. ASSUME NEW t \in {"a", "b"} PROVE TabInv(t)
  <2>1. ~ OpOn(t)
    BY SourceTabs DEF Init, OpOn, NoOp
  <2>2. \A n \in Turns : task[n].tab # t
    BY SourceTabs, NoTaskFacts DEF Init
  <2>3. \A k \in KeysOf(Source) : cp[k].tab = t => k = <<Source, 1>> /\ msg[k] = t
    BY SourceTabs DEF Init, NoCp
  <2>4. IndexOrder(t)
    BY <2>3, ConstantFacts DEF IndexOrder, Turns
  <2>5. Shown(t) = IF t = "a" THEN {1} ELSE {}
    <3>1. \A k \in Keys : msg[k] = t <=> k = <<Source, 1>> /\ t = "a"
      BY SourceTabs DEF Init
    <3>2. <<Source, 1>> \in Keys /\ <<Source, 1>>[2] = 1
      BY SourceTabs, ConstantFacts
    <3> QED
      BY <3>1, <3>2 DEF Shown
  <2>6. Match(t)
    BY <2>2, <2>5, SourceTabs DEF Match, Sending, Init
  <2> QED
    BY <2>1, <2>2, <2>3, <2>4, <2>6 DEF TabInv, Live, OneTask, TaskShown, TaskLast, OpAlone, Anchored,
       CpShown, Remembers, Cleared, Undoing
<1> QED
  BY <1>1, <1>2, <1>3 DEF Undo

-----------------------------------------------------------------------------
(* The parts that are not about one tab. *)

LEMMA HomeStep ==
    ASSUME Struct, Home, Next
    PROVE  Home'
<1>1. ASSUME NEW k \in Keys, msg'[k] # None, msg'[k] # msg[k] PROVE WsOf(msg'[k]) = k[1]
  <2>1. CASE \E t \in Tabs : StartTurn(t)
    <3>1. PICK t \in Tabs : StartTurn(t)
      BY <2>1
    <3>2. msg' = [msg EXCEPT ![<<WsOf(t), next>>] = t]
      BY <3>1 DEF StartTurn
    <3>3. k = <<WsOf(t), next>> /\ msg'[k] = t
      BY <1>1, <3>2 DEF Struct, TablesType
    <3> QED
      BY <3>3
  <2>2. CASE ForkMessages
    BY <1>1, <2>2 DEF ForkMessages, WsOf
  <2> QED
    BY <1>1, <2>1, <2>2, Writers DEF InsertCheckpoint, SaveSnapshot, UndoMessages, UndoCheckpoints,
       ForkInsertFiles, ForkCheckpoint, PurgeFiles, DeleteRow, BackfillWrite, ArchivedSweep
<1>2. ASSUME NEW k \in Keys, cp'[k].tab # None, cp'[k] # cp[k] PROVE WsOf(cp'[k].tab) = k[1]
  <2>1. CASE \E n \in Turns : InsertCheckpoint(n)
    <3>1. PICK n \in Turns : InsertCheckpoint(n)
      BY <2>1
    <3> DEFINE j == <<WsOf(task[n].tab), n>>
               row == [tab |-> task[n].tab, idx |-> task[n].idx, at |-> 0]
    <3>2. j \in Keys /\ task[n] \in TaskRecords
      BY <3>1, TaskFacts DEF InsertCheckpoint
    <3>3. Stamp(j, row) /\ row \in [tab: Tabs \cup {None}, idx: Nat, at: Nat] /\ row.tab = task[n].tab
      BY <1>2, <3>1, <3>2 DEF InsertCheckpoint, TaskRecords
    <3> HIDE DEF j, row
    <3>4. cp'[j].tab = task[n].tab /\ (k # j => cp'[k] = cp[k])
      BY <3>2, <3>3, StampType DEF Struct, TablesType
    <3> QED
      BY <1>2, <3>4 DEF j
  <2>2. CASE UndoCheckpoints
    <3> DEFINE gone == {j \in Keys : After(j)}
    <3>1. DeleteCheckpoints(gone) /\ gone \in SUBSET Keys
      BY <2>2 DEF UndoCheckpoints
    <3> HIDE DEF gone
    <3> QED
      BY <1>2, <3>1, DeleteCheckpointsFacts
  <2>3. CASE DeleteRow
    <3>1. DeleteCheckpoints(KeysOf(op.ws)) /\ KeysOf(op.ws) \in SUBSET Keys
      BY <2>3 DEF DeleteRow, KeysOf
    <3> QED
      BY <1>2, <3>1, DeleteCheckpointsFacts
  <2>4. CASE \E e \in op.list : ForkCheckpoint(e)
    <3>1. PICK e \in op.list : ForkCheckpoint(e)
      BY <2>4
    <3>2. op' # NoOp
      BY <1>2, <3>1, ForkCheckpointFails DEF tables
    <3>3. cp'[<<Fork, e[1]>>].tab = "f" /\ \A j \in Keys : j # <<Fork, e[1]>> => cp'[j] = cp[j]
      BY <3>1, <3>2, ForkCheckpointFacts
    <3> QED
      BY <1>2, <3>3 DEF WsOf
  <2> QED
    BY <1>2, <2>1, <2>2, <2>3, <2>4, Writers DEF StartTurn, SaveSnapshot, UndoMessages, ForkMessages,
       ForkInsertFiles, PurgeFiles, BackfillWrite, ArchivedSweep
<1> QED
  BY <1>1, <1>2 DEF Home

LEMMA LiveOpsStep ==
    ASSUME Struct, LiveOps, Next
    PROVE  LiveOps'
<1>1. op \in OpRecords /\ ws \in [Workspaces -> {"free", "active", "archived", "deleted"}]
  BY DEF Struct, OpType, WorktreeType
<1>2. CASE op' = op /\ ws' = ws
  BY <1>2 DEF LiveOps
<1>3. CASE op' = NoOp
  BY <1>3, NoOpFacts DEF LiveOps
<1>4. CASE TurnStep \/ MaintenanceStep
  BY <1>2, <1>4 DEF TurnStep, StartTurn, SendTurn, FailTurn, EndTurn, AgentExits, ExitBeforeInit,
     InsertCheckpoint, CollectFiles, SaveSnapshot, SaveRejected,
     MaintenanceStep, BackfillRead, BackfillWrite, SweepRead, ArchivedSweep
<1>5. CASE UndoStep
  <2>1. ASSUME NEW t \in Tabs, NEW n \in Turns, NEW files \in BOOLEAN,
               RollbackBegin(t, n, files) \/ ClearBegin(t, files)
        PROVE  LiveOps'
    BY <2>1 DEF RollbackBegin, ClearBegin, Begin, NoOp, LiveOps
  <2>2. CASE UndoFiles \/ UndoMessages \/ UndoCheckpoints
    <3>1. op.kind \in {"rollback", "clear"}
      BY <2>2, UndoOpOn DEF UndoFiles, UndoMessages, UndoCheckpoints
    <3>2. op' = NoOp \/ op'.kind = op.kind
      BY <1>1, <2>2 DEF UndoFiles, UndoMessages, UndoCheckpoints, OpRecords
    <3> QED
      BY <1>3, <3>1, <3>2 DEF LiveOps
  <2>3. CASE RollbackAgent \/ ClearAgent
    BY <1>3, <2>3 DEF RollbackAgent, ClearAgent
  <2> QED
    BY <1>5, <2>1, <2>2, <2>3, ConstantFacts DEF UndoStep
<1>6. CASE ForkStep
  <2>1. ASSUME NEW n \in Turns, ForkBegin(n) PROVE LiveOps'
    BY <2>1 DEF ForkBegin, Begin, NoOp, LiveOps
  <2>2. CASE ForkFiles \/ ForkMessages \/ ForkList \/ ForkInsertFiles \/ \E e \in op.list : ForkCheckpoint(e)
    <3>1. op.kind = "fork" /\ (op' = NoOp \/ op'.kind = op.kind)
      BY <1>1, <2>2 DEF ForkFiles, ForkMessages, ForkList, ForkInsertFiles, ForkCheckpoint, ForkFailed, OpRecords
    <3> QED
      BY <1>3, <3>1 DEF LiveOps
  <2>3. CASE ForkTranscript \/ ForkPrelude
    BY <1>3, <2>3 DEF ForkTranscript, ForkPrelude
  <2> QED
    BY <1>6, <2>1, <2>2, <2>3 DEF ForkStep
<1>7. CASE WorkspaceStep
  <2>1. ASSUME NEW w \in Workspaces, NEW kind \in {"archive", "delete"}, RemoveBegin(w, kind) PROVE LiveOps'
    <3>1. op'.ws = w /\ ws' = ws /\ ws[w] \in {"active", "archived"}
      BY <2>1 DEF RemoveBegin, Begin, NoOp
    <3> QED
      BY <3>1 DEF LiveOps
  <2>2. ASSUME NEW w \in Workspaces, RestoreClaim(w) PROVE LiveOps'
    <3>1. op'.ws = w /\ ws'[w] = "active"
      BY <1>1, <2>2 DEF RestoreClaim, Begin, NoOp
    <3> QED
      BY <3>1 DEF LiveOps
  <2>3. CASE RemoveWorktree \/ RemoveWorktreeFails
    <3>1. op'.ws = op.ws /\ op'.kind = op.kind /\ ws' = ws
      BY <1>1, <2>3 DEF RemoveWorktree, RemoveWorktreeFails, OpRecords
    <3> QED
      BY <3>1 DEF LiveOps
  <2>4. CASE ArchiveRow
    <3>1. op.ws \in Workspaces
      BY <2>4 DEF ArchiveRow, Struct, OpShape
    <3>2. op'.ws = op.ws /\ ws'[op.ws] = "archived"
      BY <1>1, <2>4, <3>1 DEF ArchiveRow, OpRecords
    <3> QED
      BY <3>2 DEF LiveOps
  <2>5. CASE PurgeFiles \/ PurgeFails \/ DeleteRow \/ RestoreDone \/ RestoreFails
    BY <1>3, <2>5 DEF PurgeFiles, PurgeFails, DeleteRow, RestoreDone, RestoreFails
  <2> QED
    BY <1>7, <2>1, <2>2, <2>3, <2>4, <2>5 DEF WorkspaceStep
<1>8. CASE Restart
  BY <1>3, <1>8 DEF Restart
<1> QED
  BY <1>4, <1>5, <1>6, <1>7, <1>8 DEF Next

(* A deleted workspace stays deleted. *)
LEMMA DeletedStays ==
    ASSUME Struct, LiveOps, Next, ws'[Source] # "deleted"
    PROVE  ws[Source] # "deleted"
<1>1. ws \in [Workspaces -> {"free", "active", "archived", "deleted"}]
  BY DEF Struct, WorktreeType
<1>2. CASE ws' = ws
  BY <1>2
<1>3. CASE ForkMessages
  BY <1>1, <1>3, ConstantFacts DEF ForkMessages
<1>4. CASE ArchiveRow \/ DeleteRow \/ RestoreFails
  <2>1. op.kind \in {"archive", "delete", "restore"} /\ op.ws \in Workspaces
    BY <1>4 DEF ArchiveRow, DeleteRow, RestoreFails, Struct, OpShape
  <2>2. op.ws # Source => ws'[Source] = ws[Source]
    BY <1>1, <1>4, <2>1, ConstantFacts DEF ArchiveRow, DeleteRow, RestoreFails
  <2> QED
    BY <2>1, <2>2 DEF LiveOps
<1>5. CASE \E w \in Workspaces : RestoreClaim(w)
  BY <1>1, <1>5, ConstantFacts DEF RestoreClaim
<1>6. CASE TurnStep \/ MaintenanceStep
  BY <1>2, <1>6 DEF TurnStep, StartTurn, SendTurn, FailTurn, EndTurn, AgentExits, ExitBeforeInit,
     InsertCheckpoint, CollectFiles, SaveSnapshot, SaveRejected,
     MaintenanceStep, BackfillRead, BackfillWrite, SweepRead, ArchivedSweep
<1>7. CASE UndoStep
  BY <1>2, <1>7 DEF UndoStep, RollbackBegin, ClearBegin, UndoFiles, UndoMessages, UndoCheckpoints,
     RollbackAgent, ClearAgent
<1>8. CASE ForkStep
  BY <1>2, <1>3, <1>8 DEF ForkStep, ForkBegin, ForkFiles, ForkList, ForkCheckpoint, ForkInsertFiles,
     ForkTranscript, ForkPrelude
<1>9. CASE WorkspaceStep
  BY <1>2, <1>4, <1>5, <1>9 DEF WorkspaceStep, RemoveBegin, RemoveWorktree, RemoveWorktreeFails, PurgeFiles,
     PurgeFails, RestoreDone
<1>10. CASE Restart
  BY <1>2, <1>10 DEF Restart
<1> QED
  BY <1>6, <1>7, <1>8, <1>9, <1>10 DEF Next

(* The frame of a tab: a step that is not about it may end its task, and may     *)
(* lose a part of its memory if that is remembered.                             *)
TasksKept(t) == Sending(t)' = Sending(t) /\ \A n \in Live(t)' : n \in Live(t) /\ task'[n] = task[n]
MemoryKept(t) ==
    /\ mem'[t] \cup prelude'[t] \subseteq mem[t] \cup prelude[t]
    /\ Sending(t)' \subseteq Sending(t)
    /\ t \notin forgot' => /\ t \notin forgot /\ mem'[t] = mem[t] /\ prelude'[t] = prelude[t]
                           /\ Sending(t)' = Sending(t)
TabFrame(t) ==
    /\ \A k \in Keys : msg'[k] = t <=> msg[k] = t
    /\ \A k \in KeysOf(Source) : cp'[k].tab = t => cp'[k] = cp[k]
    /\ \A n \in Live(t)' : n \in Live(t) /\ task'[n] = task[n]
    /\ OpOn(t)' <=> OpOn(t)
    /\ OpOn(t) => op' = op /\ \A k \in KeysOf(Source) : cp[k].tab = t => cp'[k] = cp[k]
    /\ MemoryKept(t)

LEMMA MemorySame ==
    ASSUME NEW t, mem'[t] = mem[t], prelude'[t] = prelude[t], Sending(t)' = Sending(t), forgot \subseteq forgot'
    PROVE  MemoryKept(t)
BY DEF MemoryKept

LEMMA FrameStep ==
    ASSUME Struct, NEW t \in {"a", "b"}, TabInv(t), TabFrame(t),
           ws'[Source] # "deleted" => ws[Source] # "deleted"
    PROVE  TabInv(t)'
<1>1. Shown(t)' = Shown(t)
  BY DEF TabFrame, Shown
<1>2. OneTask(t)' /\ TaskLast(t)' /\ IndexOrder(t)'
  BY DEF TabFrame, TabInv, OneTask, TaskLast, IndexOrder
<1>3. TaskShown(t)'
  BY SourceTabs DEF TabFrame, TabInv, TaskShown, Live
<1>4. OpAlone(t)'
  BY DEF TabFrame, TabInv, OpAlone
<1>5. Anchored(t)'
  <2>1. OpOn(t) /\ op.kind = "rollback" => op.n \in Turns
    BY DEF Struct, OpShape
  <2> QED
    BY <2>1, SourceTabs DEF TabFrame, TabInv, Anchored
<1>6. CpShown(t)'
  BY SourceTabs DEF TabFrame, TabInv, CpShown, Doomed
<1>7. Remembers(t)'
  <2>1. Match(t) => Match(t)'
    BY <1>1 DEF TabFrame, MemoryKept, Match
  <2>2. Undoing(t) => Undoing(t)'
    BY DEF TabFrame, Undoing
  <2> QED
    BY <2>1, <2>2 DEF TabInv, Remembers
<1>8. Cleared(t)'
  BY <1>1 DEF TabFrame, TabInv, Cleared, Undoing
<1> QED
  BY <1>2, <1>3, <1>4, <1>5, <1>6, <1>7, <1>8 DEF TabInv

-----------------------------------------------------------------------------
(* The steps of the tab itself: its turns. *)

LEMMA OwnStart ==
    ASSUME Struct, NEW t \in {"a", "b"}, TabInv(t), StartTurn(t), t \notin raced'
    PROVE  TabInv(t)'
<1>1. /\ ~ Unfinished(t) /\ ~ OpOn(t) /\ ws[Source] = "active" /\ WsOf(t) = Source /\ next \in Turns
      /\ msg' = [msg EXCEPT ![<<Source, next>>] = t]
      /\ task' = [task EXCEPT ![next] = [NoTask EXCEPT !.pc = "send", !.tab = t]]
      /\ UNCHANGED <<cp, ws, op, forgot, mem, prelude>>
  <2>1. WsOf(t) = Source /\ Race(t, Unfinished(t) \/ OpOn(t))
    BY SourceTabs DEF StartTurn
  <2>2. ~ (Unfinished(t) \/ OpOn(t)) /\ forgot' = forgot
    BY <2>1 DEF Race
  <2>3. next \in Turns
    BY ConstantFacts DEF StartTurn, Struct, BoundsType, Turns
  <2> QED
    BY <2>1, <2>2, <2>3 DEF StartTurn, memory
<1>2. <<Source, next>> \in Keys /\ t \in Tabs
  BY <1>1, SourceTabs
<1>3. /\ msg'[<<Source, next>>] = t /\ \A k \in Keys : k # <<Source, next>> => msg'[k] = msg[k]
      /\ task'[next].tab = t /\ task'[next].pc = "send"
      /\ \A n \in Turns : n # next => task'[n] = task[n]
  BY <1>1, <1>2 DEF Struct, TablesType, TaskType, NoTask
<1>4. \A n \in Live(t)' : n = next
  BY <1>1, <1>3 DEF Unfinished, Live
<1>5. \A k \in KeysOf(Source) : cp[k].tab = t => k[2] < next
  BY <1>1, SourceTabs DEF Struct, TurnKeys, Turns
<1>6. ~ OpOn(t)' /\ OneTask(t)' /\ TaskShown(t)' /\ OpAlone(t)' /\ Anchored(t)' /\ Cleared(t)'
  BY <1>1, <1>3, <1>4 DEF OpOn, OneTask, TaskShown, OpAlone, Anchored, Cleared, Undoing
<1>7. IndexOrder(t)' /\ TaskLast(t)'
  BY <1>1, <1>3, <1>4, <1>5 DEF TabInv, IndexOrder, TaskLast
<1>8. CpShown(t)'
  BY <1>1, <1>3, SourceTabs DEF TabInv, CpShown, Doomed
<1>9. Remembers(t)'
  <2>1. Match(t)
    BY <1>1 DEF TabInv, Remembers, Undoing
  <2>2. msg[<<Source, next>>] = None
    BY <1>1, <1>2, KeyFacts DEF Struct, TurnKeys, Turns
  <2>3. Shown(t)' = Shown(t) \cup {next} /\ next \notin Shown(t)
    <3>1. \A k \in Keys : msg'[k] = t <=> (msg[k] = t \/ k = <<Source, next>>)
      BY <1>3, <2>2, SourceTabs
    <3>2. \A i : i \in Shown(t)' <=> \E k \in Keys : msg'[k] = t /\ k[2] = i
      BY DEF Shown
    <3>3. \A i : i \in Shown(t) <=> \E k \in Keys : msg[k] = t /\ k[2] = i
      BY DEF Shown
    <3>4. <<Source, next>>[2] = next
      OBVIOUS
    <3>5. \A k \in Keys : msg[k] = t => k[2] # next
      BY <1>1, SourceTabs DEF Struct, TurnKeys, Turns
    <3> QED
      BY <1>2, <3>1, <3>2, <3>3, <3>4, <3>5
  <2>4. Sending(t) = {} /\ Sending(t)' = {next}
    <3>1. \A n \in Turns : task[n].tab = t => task[n].pc # "send"
      BY <1>1 DEF Unfinished
    <3> QED
      BY <1>1, <1>3, <3>1 DEF Sending
  <2>5. Match(t)'
    BY <1>1, <2>1, <2>3, <2>4 DEF Match
  <2> QED
    BY <2>5 DEF Remembers
<1> QED
  BY <1>6, <1>7, <1>8, <1>9 DEF TabInv

(* A task of the tab that is neither started nor ended: nothing but its record    *)
(* changes, and the memory if it is sent.                                       *)
LEMMA OwnTaskMoves ==
    ASSUME Struct, NEW t \in {"a", "b"}, TabInv(t), NEW n \in Live(t), task'[n].tab = t, task'[n].pc # "dying",
           \A m \in Turns : m # n => task'[m] = task[m],
           TaskLast(t)', UNCHANGED <<msg, cp, ws, op>>, Remembers(t)'
    PROVE  TabInv(t)'
<1>1. Live(t)' = Live(t)
  BY DEF Live
<1>2. (OpOn(t)' <=> OpOn(t)) /\ Shown(t)' = Shown(t)
  BY DEF OpOn, Shown
<1>3. OneTask(t)' /\ TaskShown(t)' /\ IndexOrder(t)' /\ OpAlone(t)' /\ Anchored(t)' /\ CpShown(t)'
  BY <1>1, <1>2 DEF TabInv, OneTask, TaskShown, IndexOrder, OpAlone, Anchored, CpShown, Doomed
<1>4. Cleared(t)'
  BY <1>2 DEF TabInv, Cleared, Undoing
<1> QED
  BY <1>3, <1>4 DEF TabInv

LEMMA SameMemory ==
    ASSUME NEW t, Remembers(t), UNCHANGED <<msg, ws, op, mem, prelude, forgot>>, Sending(t)' = Sending(t)
    PROVE  Remembers(t)'
BY DEF Remembers, Match, Shown, Undoing, OpOn

LEMMA OwnSend ==
    ASSUME Struct, NEW t \in {"a", "b"}, TabInv(t), NEW n \in Turns, task[n].tab = t, SendTurn(n)
    PROVE  TabInv(t)'
<1>1. /\ task[n].pc = "send" /\ task' = [task EXCEPT ![n].pc = "run"]
      /\ prelude' = [prelude EXCEPT ![t] = {}]
      /\ \/ mem' = [mem EXCEPT ![t] = @ \cup prelude[t] \cup {n}] /\ forgot' = forgot
         \/ mem' = [mem EXCEPT ![t] = prelude[t] \cup {n}] /\ t \in forgot'
      /\ UNCHANGED <<msg, cp, ws, op>>
  BY DEF SendTurn, Forgets, tables, history
<1>2. t \in Tabs /\ n \in Live(t)
  BY <1>1, SourceTabs DEF Live
<1>3. task'[n].tab = t /\ task'[n].pc = "run" /\ \A m \in Turns : m # n => task'[m] = task[m]
  BY <1>1 DEF Struct, TaskType, TaskRecords
<1>4. \A m \in Live(t) : m = n
  BY <1>2 DEF TabInv, OneTask
<1>5. Sending(t) = {n} /\ Sending(t)' = {}
  <2>1. \A m \in Turns : task[m].tab = t /\ task[m].pc = "send" => m = n
    BY <1>4 DEF Live
  <2> QED
    BY <1>1, <1>3, <2>1 DEF Sending
<1>6. /\ prelude'[t] = {}
      /\ \/ mem'[t] = mem[t] \cup prelude[t] \cup {n} /\ forgot' = forgot
         \/ mem'[t] = prelude[t] \cup {n} /\ t \in forgot'
  BY <1>1, <1>2 DEF Struct, MemoryType
<1>7. Shown(t)' = Shown(t) /\ (Undoing(t)' <=> Undoing(t))
  BY <1>1 DEF Shown, Undoing, OpOn
<1>8. Remembers(t)'
  <2>1. CASE ws[Source] = "deleted" \/ Undoing(t)
    BY <1>1, <1>7, <2>1 DEF Remembers
  <2>2. CASE ws[Source] # "deleted" /\ ~ Undoing(t)
    <3>1. Match(t)
      BY <2>2 DEF TabInv, Remembers
    <3>2. n \in Shown(t)
      <4>1. msg[<<Source, n>>] = t /\ <<Source, n>> \in Keys /\ <<Source, n>>[2] = n
        BY <1>2, <2>2, SourceTabs DEF TabInv, TaskShown
      <4> QED
        BY <4>1 DEF Shown
    <3>3. Match(t)'
      BY <1>5, <1>6, <1>7, <3>1, <3>2 DEF Match
    <3> QED
      BY <3>3 DEF Remembers
  <2> QED
    BY <2>1, <2>2
<1>9. TaskLast(t)'
  <2>1. \A m \in Live(t)' : m = n
    BY <1>3, <1>4 DEF Live
  <2> QED
    BY <1>1, <1>2, <1>3, <2>1 DEF TabInv, TaskLast
<1> QED
  BY <1>1, <1>2, <1>3, <1>8, <1>9, OwnTaskMoves

LEMMA OwnEnd ==
    ASSUME Struct, NEW t \in {"a", "b"}, TabInv(t), NEW n \in Turns, task[n].tab = t, EndTurn(n)
    PROVE  TabInv(t)'
<1> DEFINE S == {k \in KeysOf(Source) : cp[k].tab # None}
           used == {cp[k].idx : k \in S}
           i == IF used = {} THEN 0 ELSE 1 + MaxOf(used)
<1>1. WsOf(t) = Source
  BY SourceTabs
<1>2. task' = [task EXCEPT ![n].pc = "insert", ![n].idx = i]
  BY <1>1 DEF EndTurn
<1>3. \A k \in S : cp[k].idx < i
  <2>1. S \in SUBSET Keys /\ CpType
    BY DEF KeysOf, Struct, TablesType
  <2>2. \A k \in S : cp[k].idx \in Nat
    BY <2>1 DEF CpType
  <2>3. S # {} => used # {}
    OBVIOUS
  <2> HIDE DEF S
  <2>4. S # {} => MaxOf(used) \in Nat /\ \A k \in S : cp[k].idx <= MaxOf(used)
    BY <2>1, UsedMax
  <2> HIDE DEF used
  <2> QED
    BY <2>2, <2>3, <2>4
<1> HIDE DEF i
<1>4. /\ task'[n].tab = t /\ task'[n].idx = i /\ task'[n].pc = "insert" /\ n \in Live(t)
      /\ \A m \in Turns : m # n => task'[m] = task[m]
  BY <1>2 DEF Struct, TaskType, TaskRecords, EndTurn, Live
<1>5. UNCHANGED <<msg, cp, ws, op, mem, prelude, forgot>>
  BY DEF EndTurn, tables, history, memory
<1>6. TaskLast(t)'
  <2>1. \A k \in KeysOf(Source) : cp[k].tab = t => k \in S
    BY SourceTabs
  <2>2. \A m \in Live(t)' : m = n
    BY <1>4 DEF TabInv, OneTask, Live
  <2> HIDE DEF S
  <2> QED
    BY <1>3, <1>4, <1>5, <2>1, <2>2 DEF TabInv, TaskLast
<1>7. Remembers(t)'
  <2>1. Sending(t)' = Sending(t)
    BY <1>4 DEF Sending, EndTurn
  <2> QED
    BY <1>5, <2>1, SameMemory DEF TabInv
<1> QED
  BY <1>4, <1>5, <1>6, <1>7, OwnTaskMoves

LEMMA OwnCollect ==
    ASSUME Struct, NEW t \in {"a", "b"}, TabInv(t), NEW n \in Turns, task[n].tab = t, CollectFiles(n),
           task'[n] # NoTask
    PROVE  TabInv(t)'
<1> DEFINE v == wt[WsOf(task[n].tab)]
<1>1. task[n].pc = "collect" /\ task' = [task EXCEPT ![n] = [task[n] EXCEPT !.pc = "save", !.v = v]]
  BY DEF CollectFiles, Struct, TaskType
<1> HIDE DEF v
<1>2. /\ task'[n].tab = t /\ task'[n].pc = "save" /\ n \in Live(t)
      /\ \A m \in Turns : m # n => task'[m] = task[m]
  BY <1>1 DEF Struct, TaskType, TaskRecords, Live
<1>3. UNCHANGED <<msg, cp, ws, op, mem, prelude, forgot>>
  BY DEF CollectFiles, tables, history, memory
<1>4. TaskLast(t)'
  BY <1>1, <1>2, <1>3 DEF TabInv, TaskLast, Live
<1>5. Remembers(t)'
  <2>1. Sending(t)' = Sending(t)
    BY <1>1, <1>2 DEF Sending
  <2> QED
    BY <1>3, <2>1, SameMemory DEF TabInv
<1> QED
  BY <1>2, <1>3, <1>4, <1>5, OwnTaskMoves

LEMMA OwnInsert ==
    ASSUME Struct, NEW t \in {"a", "b"}, TabInv(t), NEW n \in Turns, task[n].tab = t, InsertCheckpoint(n),
           task'[n] # NoTask
    PROVE  TabInv(t)'
<1> DEFINE j == <<Source, n>>
           row == [tab |-> t, idx |-> task[n].idx, at |-> 0]
<1>1. /\ task[n].pc = "insert" /\ ws[Source] # "deleted" /\ Stamp(j, row)
      /\ task' = [task EXCEPT ![n].pc = "collect", ![n].idx = 0]
      /\ UNCHANGED <<msg, ws, op, mem, prelude, forgot>>
  BY SourceTabs DEF InsertCheckpoint, Struct, TaskType, history, memory
<1>2. row \in [tab: Tabs \cup {None}, idx: Nat, at: Nat] /\ row.tab = t /\ row.idx = task[n].idx /\ j \in KeysOf(Source)
  BY SourceTabs DEF Struct, TaskType, TaskRecords
<1>3. cp'[j].tab = t /\ cp'[j].idx = task[n].idx /\ \A k \in Keys : k # j => cp'[k] = cp[k]
  <2> HIDE DEF row, j
  <2> QED
    BY <1>1, <1>2, SourceTabs, StampType DEF Struct, TablesType
<1>4. /\ task'[n].tab = t /\ task'[n].pc = "collect" /\ n \in Live(t)
      /\ \A m \in Turns : m # n => task'[m] = task[m]
  BY <1>1 DEF Struct, TaskType, TaskRecords, Live
<1>5. (\A m \in Live(t) : m = n) /\ Live(t)' = Live(t) /\ Sending(t)' = Sending(t)
  <2>1. \A m \in Live(t) : m = n
    BY <1>4 DEF TabInv, OneTask
  <2>2. Live(t)' = Live(t)
    BY <1>1, <1>4 DEF Live
  <2>3. Sending(t)' = Sending(t)
    BY <1>1, <1>4 DEF Sending
  <2> QED
    BY <2>1, <2>2, <2>3
<1>6. msg[j] = t /\ ~ OpOn(t)
  BY <1>1, <1>4 DEF TabInv, TaskShown, OpAlone
<1>7. ~ OpOn(t)'
  BY <1>1, <1>6 DEF OpOn
<1>8. OneTask(t)' /\ TaskShown(t)' /\ OpAlone(t)' /\ Anchored(t)' /\ Cleared(t)' /\ Remembers(t)'
  <2>1. Remembers(t)'
    BY <1>1, <1>5, SameMemory DEF TabInv
  <2> QED
    BY <1>1, <1>4, <1>5, <1>6, <1>7, <2>1
       DEF TabInv, OneTask, TaskShown, OpAlone, Anchored, Cleared, Undoing
<1>9. CpShown(t)'
  BY <1>1, <1>3, <1>6, SourceTabs DEF TabInv, CpShown, Doomed
<1>10. \A k \in KeysOf(Source) : k # j /\ cp[k].tab = t => k[2] # n /\ k[2] < n /\ cp[k].idx < task[n].idx
  BY <1>1, <1>4, SourceTabs DEF TabInv, TaskLast
<1>11. TaskLast(t)'
  BY <1>3, <1>4, <1>5, <1>10, SourceTabs DEF TaskLast
<1>12. IndexOrder(t)'
  <2>1. ASSUME NEW k \in KeysOf(Source), NEW l \in KeysOf(Source), cp'[k].tab = t, cp'[l].tab = t, k[2] < l[2]
        PROVE  cp'[k].idx < cp'[l].idx
    <3>1. CASE k # j /\ l # j
      BY <1>3, <2>1, <3>1, SourceTabs DEF TabInv, IndexOrder
    <3>2. CASE k # j /\ l = j
      BY <1>3, <1>10, <2>1, <3>2, SourceTabs
    <3>3. CASE k = j /\ l # j
      <4>1. l[2] < n /\ n < l[2] /\ l[2] \in Nat /\ n \in Nat
        BY <1>3, <1>10, <2>1, <3>3, SourceTabs DEF Turns
      <4> QED
        BY <4>1
    <3>4. CASE k = j /\ l = j
      BY <2>1, <3>4, SourceTabs DEF Turns
    <3> QED
      BY <3>1, <3>2, <3>3, <3>4
  <2> QED
    BY <2>1 DEF IndexOrder
<1> QED
  BY <1>8, <1>9, <1>11, <1>12 DEF TabInv

-----------------------------------------------------------------------------
(* The steps of the tab itself: rollback and clear. *)

LEMMA OwnBegin ==
    ASSUME Struct, NEW t \in {"a", "b"}, TabInv(t), NEW n \in Turns, NEW files \in BOOLEAN,
           RollbackBegin(t, n, files) \/ ClearBegin(t, files), t \notin raced'
    PROVE  TabInv(t)'
<1>1. /\ ~ Unfinished(t) /\ op = NoOp /\ WsOf(t) = Source
      /\ UNCHANGED <<tables, ws, memory, task, forgot>>
      /\ op'.tab = t /\ op'.pc = "files" /\ op'.kind \in {"rollback", "clear"}
      /\ op'.kind = "rollback" => op'.n = n /\ cp[<<Source, n>>].tab = t /\ op'.idx = cp[<<Source, n>>].idx
  <2>1. CASE RollbackBegin(t, n, files)
    BY <2>1, SourceTabs DEF RollbackBegin, Begin, Race, NoOp
  <2>2. CASE ClearBegin(t, files)
    BY <2>2, SourceTabs DEF ClearBegin, Begin, Race, NoOp
  <2> QED
    BY <2>1, <2>2
<1>2. ~ OpOn(t)
  BY <1>1, NoOpFacts DEF OpOn
<1>3. Live(t)' = {}
  BY <1>1 DEF Unfinished, Live
<1>4. msg' = msg /\ cp' = cp /\ Shown(t)' = Shown(t) /\ (Match(t)' <=> Match(t))
  BY <1>1 DEF tables, memory, Shown, Match, Sending
<1>5. ~ Undoing(t)' /\ ~ Undoing(t)
  BY <1>1, <1>2 DEF Undoing
<1>6. OneTask(t)' /\ TaskShown(t)' /\ TaskLast(t)' /\ OpAlone(t)' /\ Cleared(t)'
  BY <1>1, <1>3, <1>5 DEF OneTask, TaskShown, TaskLast, OpAlone, Cleared
<1>7. IndexOrder(t)' /\ CpShown(t)' /\ Anchored(t)'
  BY <1>1, <1>2, <1>4 DEF TabInv, IndexOrder, CpShown, Doomed, Anchored
<1>8. Remembers(t)'
  BY <1>1, <1>4, <1>5 DEF TabInv, Remembers
<1> QED
  BY <1>6, <1>7, <1>8 DEF TabInv

LEMMA OwnFiles ==
    ASSUME Struct, NEW t \in {"a", "b"}, TabInv(t), UndoFiles, op.tab = t
    PROVE  TabInv(t)'
<1>1. /\ op.pc = "files" /\ OpOn(t) /\ UNCHANGED <<tables, ws, memory, task, forgot>>
      /\ \/ op' = NoOp
         \/ op' = [op EXCEPT !.pc = "messages", !.files = FALSE, !.has = FALSE]
  BY DEF UndoFiles, OpOn, history
<1>2. \/ op' = NoOp /\ ~ OpOn(t)'
      \/ /\ OpOn(t)' /\ op'.pc = "messages" /\ op'.kind = op.kind /\ op'.n = op.n /\ op'.idx = op.idx
  BY <1>1, NoOpFacts DEF OpOn, Struct, OpType, OpRecords
<1>3. msg' = msg /\ cp' = cp /\ task' = task /\ Shown(t)' = Shown(t) /\ (Match(t)' <=> Match(t)) /\ ws' = ws
  BY <1>1 DEF tables, memory, Shown, Match, Sending
<1>4. ~ Undoing(t)' /\ ~ Undoing(t)
  BY <1>1, <1>2 DEF Undoing
<1>5. OneTask(t)' /\ TaskShown(t)' /\ TaskLast(t)' /\ OpAlone(t)' /\ Cleared(t)' /\ IndexOrder(t)'
  BY <1>1, <1>3, <1>4 DEF TabInv, Live, OneTask, TaskShown, TaskLast, OpAlone, Cleared, IndexOrder
<1>6. CpShown(t)' /\ Anchored(t)'
  BY <1>1, <1>2, <1>3 DEF TabInv, CpShown, Doomed, Anchored
<1>7. Remembers(t)'
  BY <1>3, <1>4 DEF TabInv, Remembers
<1> QED
  BY <1>5, <1>6, <1>7 DEF TabInv

LEMMA OwnMessages ==
    ASSUME Struct, NEW t \in {"a", "b"}, TabInv(t), UndoMessages, op.tab = t
    PROVE  TabInv(t)'
<1>1. /\ op.pc = "messages" /\ op.kind \in {"rollback", "clear"} /\ op.ws = Source
      /\ op.kind = "rollback" => op.n \in Turns
      /\ msg' = [k \in Keys |-> IF Discarded(k) THEN None ELSE msg[k]]
      /\ op' = [op EXCEPT !.pc = "checkpoints"]
      /\ UNCHANGED <<cp, ws, memory, task, forgot>>
  BY UndoOpOn, SourceTabs DEF UndoMessages, Struct, OpShape, history
<1>2. op'.tab = t /\ op'.pc = "checkpoints" /\ op'.kind = op.kind /\ op'.n = op.n /\ op'.idx = op.idx
  BY <1>1 DEF Struct, OpType, OpRecords
<1>3. OpOn(t) /\ OpOn(t)' /\ Undoing(t)'
  BY <1>1, <1>2 DEF OpOn, Undoing
<1>4. Live(t)' = {}
  BY <1>1, <1>3 DEF TabInv, OpAlone, Live
<1>5. OneTask(t)' /\ TaskShown(t)' /\ TaskLast(t)' /\ OpAlone(t)' /\ IndexOrder(t)' /\ Remembers(t)'
  BY <1>1, <1>3, <1>4 DEF TabInv, OneTask, TaskShown, TaskLast, OpAlone, IndexOrder, Remembers
<1>6. Anchored(t)'
  BY <1>1, <1>2, <1>3 DEF TabInv, Anchored
<1>7. CpShown(t)'
  <2>1. ASSUME NEW k \in KeysOf(Source), cp[k].tab = t PROVE msg'[k] = t \/ Doomed(t, k)'
    <3>1. msg[k] = t /\ k \in Keys
      BY <1>1, <2>1, SourceTabs DEF TabInv, CpShown, Doomed
    <3>2. CASE Discarded(k)
      BY <1>2, <1>3, <3>2 DEF Discarded, Doomed
    <3>3. CASE ~ Discarded(k)
      BY <1>1, <3>1, <3>3
    <3> QED
      BY <3>2, <3>3
  <2> QED
    BY <1>1, <2>1 DEF CpShown
<1>8. Cleared(t)'
  <2>1. op.kind = "clear" => \A k \in Keys : msg'[k] # t
    BY <1>1, SourceTabs DEF Discarded
  <2> QED
    BY <1>2, <2>1 DEF Cleared, Shown
<1> QED
  BY <1>5, <1>6, <1>7, <1>8 DEF TabInv

(* The deletion by index takes exactly the checkpoints whose message is gone: of  *)
(* one tab, a later turn has a larger index.                                     *)
LEMMA OwnCheckpoints ==
    ASSUME Struct, NEW t \in {"a", "b"}, TabInv(t), UndoCheckpoints, op.tab = t
    PROVE  TabInv(t)'
<1> DEFINE gone == {k \in Keys : After(k)}
<1>1. /\ op.pc = "checkpoints" /\ op.kind \in {"rollback", "clear"}
      /\ op.kind = "rollback" => op.n \in Turns
      /\ DeleteCheckpoints(gone) /\ gone \in SUBSET Keys
      /\ op' = [op EXCEPT !.pc = "agent"]
      /\ UNCHANGED <<msg, ws, memory, task, forgot>>
  BY UndoOpOn DEF UndoCheckpoints, Struct, OpShape, history
<1>2. op'.tab = t /\ op'.pc = "agent" /\ op'.kind = op.kind
  BY <1>1 DEF Struct, OpType, OpRecords
<1>3. OpOn(t) /\ OpOn(t)' /\ Undoing(t)' /\ Undoing(t)
  BY <1>1, <1>2 DEF OpOn, Undoing
<1>4. (\A k \in gone : cp'[k].tab = None) /\ \A k \in Keys \ gone : cp'[k] = cp[k]
  <2> HIDE DEF gone
  <2> QED
    BY <1>1, DeleteCheckpointsFacts
<1>5. \A k \in KeysOf(Source) : cp'[k].tab = t => cp'[k] = cp[k] /\ ~ After(k)
  BY <1>4, SourceTabs
<1>6. Live(t)' = {}
  BY <1>1, <1>3 DEF TabInv, OpAlone, Live
<1>7. OneTask(t)' /\ TaskShown(t)' /\ TaskLast(t)' /\ OpAlone(t)' /\ Remembers(t)' /\ Anchored(t)'
  BY <1>1, <1>2, <1>3, <1>6 DEF OneTask, TaskShown, TaskLast, OpAlone, Remembers, Anchored
<1>8. IndexOrder(t)'
  BY <1>5 DEF TabInv, IndexOrder
<1>9. CpShown(t)'
  <2>1. ASSUME NEW k \in KeysOf(Source), cp'[k].tab = t PROVE msg[k] = t
    <3>1. cp[k].tab = t /\ ~ After(k) /\ k[2] \in Turns
      BY <1>5, <2>1, SourceTabs
    <3>2. op.kind = "rollback" /\ ~ cp[k].idx > op.idx
      BY <1>1, <3>1 DEF After
    <3>3. /\ <<Source, op.n>> \in KeysOf(Source) /\ cp[<<Source, op.n>>].tab = t
          /\ cp[<<Source, op.n>>].idx = op.idx
      BY <1>1, <1>3, <3>2, SourceTabs DEF TabInv, Anchored
    <3>4. ~ op.n < k[2]
      BY <3>1, <3>2, <3>3, SourceTabs DEF TabInv, IndexOrder, Struct, TablesType, CpType
    <3>5. ~ k[2] > op.n
      BY <1>1, <3>1, <3>2, <3>4 DEF Turns
    <3> QED
      BY <3>1, <3>2, <3>5 DEF TabInv, CpShown, Doomed
  <2> QED
    BY <1>1, <2>1 DEF CpShown
<1>10. Cleared(t)'
  BY <1>1, <1>2, <1>3 DEF TabInv, Cleared, Shown
<1> QED
  BY <1>7, <1>8, <1>9, <1>10 DEF TabInv

LEMMA OwnAgent ==
    ASSUME Struct, NEW t \in {"a", "b"}, TabInv(t), RollbackAgent \/ ClearAgent, op.tab = t
    PROVE  TabInv(t)'
<1>1. /\ op.pc = "agent" /\ op.kind \in {"rollback", "clear"} /\ op' = NoOp
      /\ UNCHANGED <<tables, ws>>
      /\ mem'[t] = {} /\ prelude'[t] = IF op.kind = "rollback" THEN Shown(t) ELSE {}
      /\ KillAgents({op.tab}) \/ task' = task
  BY SourceTabs DEF RollbackAgent, ClearAgent, Struct, MemoryType, history
<1>2. \A n \in Turns : task'[n] = task[n] \/ TaskEnds(n)
  BY <1>1, KillAgentsFacts
<1>3. OpOn(t) /\ Undoing(t) /\ ~ OpOn(t)' /\ ~ Undoing(t)'
  BY <1>1, NoOpFacts DEF OpOn, Undoing
<1>4. Live(t)' = {} /\ Sending(t)' = {}
  <2>1. \A n \in Turns : task[n].tab = t => task[n].pc = "dying"
    BY <1>3 DEF TabInv, OpAlone, Live
  <2>2. \A n \in Turns : task'[n].tab = t => task'[n].pc = "dying"
    BY <1>2, <2>1, NoTaskFacts, SourceTabs DEF TaskEnds
  <2> QED
    BY <2>2 DEF Live, Sending
<1>5. msg' = msg /\ cp' = cp /\ Shown(t)' = Shown(t)
  BY <1>1 DEF tables, Shown
<1>6. OneTask(t)' /\ TaskShown(t)' /\ TaskLast(t)' /\ OpAlone(t)' /\ Anchored(t)' /\ Cleared(t)'
  BY <1>3, <1>4 DEF OneTask, TaskShown, TaskLast, OpAlone, Anchored, Cleared
<1>7. IndexOrder(t)' /\ CpShown(t)'
  BY <1>1, <1>5 DEF TabInv, IndexOrder, CpShown, Doomed
<1>8. Match(t)'
  <2>1. op.kind = "clear" => Shown(t) = {}
    BY <1>3 DEF TabInv, Cleared
  <2> QED
    BY <1>1, <1>4, <1>5, <2>1 DEF Match
<1> QED
  BY <1>6, <1>7, <1>8 DEF TabInv, Remembers

LEMMA OwnDelete ==
    ASSUME Struct, NEW t \in {"a", "b"}, TabInv(t), DeleteRow, op.ws = Source
    PROVE  TabInv(t)'
<1>1. /\ op.kind = "delete" /\ op' = NoOp /\ task' = task
      /\ ws' = [ws EXCEPT ![Source] = "deleted"]
      /\ DeleteCheckpoints(KeysOf(Source)) /\ KeysOf(Source) \in SUBSET Keys
  BY DEF DeleteRow, KeysOf
<1>2. ws'[Source] = "deleted" /\ \A k \in KeysOf(Source) : cp'[k].tab # t
  BY <1>1, DeleteCheckpointsFacts, ConstantFacts, SourceTabs DEF Struct, WorktreeType
<1>3. ~ OpOn(t)' /\ ~ Undoing(t)'
  BY <1>1, NoOpFacts DEF OpOn, Undoing
<1> QED
  BY <1>1, <1>2, <1>3 DEF TabInv, Live, OneTask, TaskShown, TaskLast, IndexOrder, OpAlone, Anchored, CpShown,
     Remembers, Cleared

-----------------------------------------------------------------------------
(* The steps of other tabs, of forks, workspaces and the maintenance. *)

LEMMA QuietFrame ==
    ASSUME NEW t \in {"a", "b"}, UNCHANGED <<msg, cp, mem, prelude, forgot>>, TasksKept(t),
           OpOn(t) => op' = op, OpOn(t)' => OpOn(t)
    PROVE  TabFrame(t)
<1>1. OpOn(t)' <=> OpOn(t)
  BY DEF OpOn
<1>2. MemoryKept(t)
  BY MemorySame DEF TasksKept
<1> QED
  BY <1>1, <1>2 DEF TabFrame, TasksKept

(* One task changes, which is of another tab, or ends while it is not being sent. *)
LEMMA OneTaskChanges ==
    ASSUME NEW t \in {"a", "b"}, NEW n \in Turns, \A m \in Turns : m # n => task'[m] = task[m],
           \/ task'[n] = task[n]
           \/ task[n].tab # t /\ task'[n].tab # t
           \/ task[n].pc # "send" /\ (task'[n] = NoTask \/ task'[n].pc = "dying")
    PROVE  TasksKept(t)
<1>1. NoTask.tab # t
  BY NoTaskFacts, SourceTabs
<1>2. \A m \in Live(t)' : m \in Live(t) /\ task'[m] = task[m]
  BY <1>1 DEF Live
<1>3. Sending(t)' = Sending(t)
  BY <1>1 DEF Sending
<1> QED
  BY <1>2, <1>3 DEF TasksKept

(* Agents of any tabs are killed. *)
LEMMA KilledKept ==
    ASSUME Struct, NEW t \in {"a", "b"}, NEW tabs, KillAgents(tabs)
    PROVE  TasksKept(t)
<1>1. \A n \in Turns : task'[n] = task[n] \/ (TaskEnds(n) /\ task[n].pc = "run")
  BY KillAgentsFacts
<1>2. NoTask.tab # t
  BY NoTaskFacts, SourceTabs
<1>3. \A n \in Live(t)' : n \in Live(t) /\ task'[n] = task[n]
  BY <1>1, <1>2 DEF Live, TaskEnds
<1>4. Sending(t)' = Sending(t)
  BY <1>1, <1>2 DEF Sending, TaskEnds
<1> QED
  BY <1>3, <1>4 DEF TasksKept

LEMMA RacedGrows ==
    ASSUME Next
    PROVE  raced \subseteq raced'
<1>1. CASE TurnStep
  BY <1>1 DEF TurnStep, StartTurn, Race, SendTurn, FailTurn, Forgets, EndTurn, AgentExits, ExitBeforeInit,
     InsertCheckpoint, CollectFiles, SaveSnapshot, SaveRejected, history
<1>2. CASE UndoStep
  BY <1>2 DEF UndoStep, RollbackBegin, ClearBegin, Race, UndoFiles, UndoMessages, UndoCheckpoints,
     RollbackAgent, ClearAgent, Remembered, history
<1>3. CASE ForkStep
  BY <1>3 DEF ForkStep, ForkBegin, ForkFiles, ForkMessages, ForkList, ForkCheckpoint, ForkInsertFiles,
     ForkTranscript, ForkPrelude, history
<1>4. CASE WorkspaceStep
  BY <1>4 DEF WorkspaceStep, RemoveBegin, RemoveWorktree, RemoveWorktreeFails, ArchiveRow, PurgeFiles,
     PurgeFails, DeleteRow, RestoreClaim, RestoreDone, RestoreFails, history
<1>5. CASE MaintenanceStep
  BY <1>5 DEF MaintenanceStep, BackfillRead, BackfillWrite, SweepRead, ArchivedSweep, history
<1>6. CASE Restart
  BY <1>6 DEF Restart
<1> QED
  BY <1>1, <1>2, <1>3, <1>4, <1>5, <1>6 DEF Next

LEMMA TabTurnStep ==
    ASSUME Struct, LiveOps, Next, NEW t \in {"a", "b"}, TabInv(t), TurnStep, t \notin raced'
    PROVE  TabInv(t)'
<1> USE DEF history, memory, tables
<1>1. ws' = ws
  BY DEF TurnStep, StartTurn, SendTurn, FailTurn, EndTurn, AgentExits, ExitBeforeInit, InsertCheckpoint,
     CollectFiles, SaveSnapshot, SaveRejected
<1>2. op' = op
  BY DEF TurnStep, StartTurn, SendTurn, FailTurn, EndTurn, AgentExits, ExitBeforeInit, InsertCheckpoint,
     CollectFiles, SaveSnapshot, SaveRejected
<1>3. SUFFICES ASSUME ~ TabInv(t)' PROVE TabFrame(t)
  BY <1>1, FrameStep
<1>4. OpOn(t)' <=> OpOn(t)
  BY <1>2 DEF OpOn
<1>5. ASSUME NEW s \in Tabs, StartTurn(s) PROVE TabFrame(t)
  <2>1. s # t
    BY <1>3, <1>5, OwnStart
  <2> DEFINE j == <<WsOf(s), next>>
  <2>2. /\ msg' = [msg EXCEPT ![j] = s] /\ task' = [task EXCEPT ![next] = [NoTask EXCEPT !.pc = "send", !.tab = s]]
        /\ cp' = cp /\ forgot' = forgot /\ mem' = mem /\ prelude' = prelude /\ next \in Turns
    BY <1>5, ConstantFacts DEF StartTurn, Race, Struct, BoundsType, Turns
  <2>3. j \in Keys /\ j[2] >= next
    BY <2>2, WsOfType, KeyFacts DEF Turns
  <2>4. msg[j] = None /\ task[next].tab # t
    <3>1. ~ next < next
      BY <2>2 DEF Turns
    <3> QED
      BY <2>2, <2>3, <3>1, SourceTabs DEF Struct, TurnKeys
  <2> HIDE DEF j
  <2>5. \A k \in Keys : msg'[k] = t <=> msg[k] = t
    BY <2>1, <2>2, <2>3, <2>4, SourceTabs DEF Struct, TablesType
  <2>6. (\A n \in Turns : n # next => task'[n] = task[n]) /\ task'[next].tab # t
    BY <2>1, <2>2 DEF Struct, TaskType, NoTask
  <2>7. TasksKept(t)
    BY <2>2, <2>4, <2>6, OneTaskChanges
  <2>8. MemoryKept(t)
    BY <2>2, <2>7, MemorySame DEF TasksKept
  <2> QED
    BY <1>2, <1>4, <2>2, <2>5, <2>7, <2>8 DEF TabFrame, TasksKept
<1>6. ASSUME NEW n \in Turns, EndTurn(n) PROVE TabFrame(t)
  <2>1. task[n].tab # t
    BY <1>3, <1>6, OwnEnd
  <2>2. task'[n].tab = task[n].tab /\ \A m \in Turns : m # n => task'[m] = task[m]
    BY <1>6 DEF EndTurn, Struct, TaskType, TaskRecords
  <2>3. UNCHANGED <<msg, cp, mem, prelude, forgot>>
    BY <1>6 DEF EndTurn
  <2>4. TasksKept(t)
    BY <2>1, <2>2, OneTaskChanges
  <2> QED
    BY <1>2, <1>4, <2>3, <2>4, QuietFrame
<1>9. ASSUME NEW n \in Turns, SendTurn(n) PROVE TabFrame(t)
  <2>1. task[n].tab # t /\ task[n].tab \in Tabs
    BY <1>3, <1>9, OwnSend, TaskFacts DEF SendTurn
  <2>2. task'[n].tab = task[n].tab /\ \A m \in Turns : m # n => task'[m] = task[m]
    BY <1>9 DEF SendTurn, Struct, TaskType, TaskRecords
  <2>3. msg' = msg /\ cp' = cp /\ mem'[t] = mem[t] /\ prelude'[t] = prelude[t]
    BY <1>9, <2>1, SourceTabs DEF SendTurn, Struct, MemoryType
  <2>4. TasksKept(t)
    BY <2>1, <2>2, OneTaskChanges
  <2>5. forgot \subseteq forgot'
    BY <1>9 DEF SendTurn, Forgets
  <2>6. MemoryKept(t)
    BY <2>3, <2>4, <2>5, MemorySame DEF TasksKept
  <2> QED
    BY <1>2, <1>4, <2>3, <2>4, <2>6 DEF TabFrame, TasksKept
<1>10. ASSUME NEW n \in Turns, FailTurn(n) PROVE TabFrame(t)
  <2> DEFINE s == task[n].tab
  <2>1. /\ task[n].pc = "send" /\ s \in Tabs /\ s \in forgot' /\ forgot \subseteq forgot'
        /\ msg' = msg /\ cp' = cp
    BY <1>10, TaskFacts DEF FailTurn, Forgets
  <2>2. task'[n] = NoTask /\ \A m \in Turns : m # n => task'[m] = task[m]
    BY <1>10 DEF FailTurn, Struct, TaskType
  <2>3. /\ mem'[t] \cup prelude'[t] \subseteq mem[t] \cup prelude[t]
        /\ s # t => mem'[t] = mem[t] /\ prelude'[t] = prelude[t]
    BY <1>10, <2>1, SourceTabs DEF FailTurn, Struct, MemoryType
  <2>4. NoTask.tab # t
    BY NoTaskFacts, SourceTabs
  <2>5. \A m \in Live(t)' : m \in Live(t) /\ task'[m] = task[m]
    BY <2>2, <2>4 DEF Live
  <2>6. Sending(t)' \subseteq Sending(t) /\ (s # t => Sending(t)' = Sending(t))
    BY <2>2, <2>4 DEF Sending
  <2>7. MemoryKept(t)
    BY <2>1, <2>3, <2>6 DEF MemoryKept
  <2> QED
    BY <1>2, <1>4, <2>1, <2>5, <2>7 DEF TabFrame
<1>11. ASSUME NEW n \in Turns, AgentExits(n) PROVE TabFrame(t)
  <2>1. task[n].pc = "run" /\ UNCHANGED <<msg, cp, mem, prelude, forgot>>
    BY <1>11 DEF AgentExits
  <2>2. PICK early \in BOOLEAN : task' = [task EXCEPT ![n] = Killed(n, early)]
    BY <1>11 DEF AgentExits
  <2>3. /\ task'[n] = Killed(n, early) /\ \A m \in Turns : m # n => task'[m] = task[m]
    BY <2>2 DEF Struct, TaskType
  <2>4. task'[n] = NoTask \/ task'[n].pc = "dying"
    BY <2>1, <2>3, KilledFacts
  <2>5. TasksKept(t)
    BY <2>1, <2>3, <2>4, OneTaskChanges
  <2> QED
    BY <1>2, <1>4, <2>1, <2>5, QuietFrame
<1>12. ASSUME NEW n \in Turns, ExitBeforeInit(n) PROVE TabFrame(t)
  <2> DEFINE s == task[n].tab
  <2>1. /\ task[n].pc = "dying" /\ s \in Tabs /\ s \in forgot' /\ forgot \subseteq forgot'
        /\ msg' = msg /\ cp' = cp
    BY <1>12, TaskFacts DEF ExitBeforeInit, Forgets
  <2>2. task'[n] = NoTask /\ \A m \in Turns : m # n => task'[m] = task[m]
    BY <1>12 DEF ExitBeforeInit, Struct, TaskType
  <2>3. /\ mem'[t] \cup prelude'[t] \subseteq mem[t] \cup prelude[t]
        /\ s # t => mem'[t] = mem[t] /\ prelude'[t] = prelude[t]
    BY <1>12, <2>1, SourceTabs DEF ExitBeforeInit, Struct, MemoryType
  <2>4. TasksKept(t)
    BY <2>1, <2>2, OneTaskChanges
  <2>5. MemoryKept(t)
    BY <2>1, <2>3, <2>4 DEF MemoryKept, TasksKept
  <2> QED
    BY <1>2, <1>4, <2>1, <2>4, <2>5 DEF TabFrame, TasksKept
<1>7. ASSUME NEW n \in Turns, InsertCheckpoint(n) PROVE TabFrame(t)
  <2>1. task'[n] = NoTask \/ task[n].tab # t
    BY <1>3, <1>7, OwnInsert
  <2>2. UNCHANGED <<msg, mem, prelude, forgot>>
    BY <1>7 DEF InsertCheckpoint
  <2>3. \A m \in Turns : m # n => task'[m] = task[m]
    BY <1>7 DEF InsertCheckpoint, Struct, TaskType
  <2>4. CASE ws[WsOf(task[n].tab)] \in {"active", "archived"}
    <3> DEFINE j == <<WsOf(task[n].tab), n>>
               row == [tab |-> task[n].tab, idx |-> task[n].idx, at |-> 0]
    <3>1. task[n].pc = "insert" /\ Stamp(j, row) /\ task' = [task EXCEPT ![n].pc = "collect", ![n].idx = 0]
      BY <1>7, <2>4 DEF InsertCheckpoint
    <3>2. j \in Keys /\ cp[j].tab = None /\ task[n] \in TaskRecords
      BY <3>1, TaskFacts DEF Unrecorded
    <3>3. task'[n].tab = task[n].tab /\ task'[n].pc = "collect"
      BY <3>1, <3>2 DEF Struct, TaskType, TaskRecords
    <3>4. task[n].tab # t
      BY <2>1, <3>3, NoTaskFacts
    <3>5. row \in [tab: Tabs \cup {None}, idx: Nat, at: Nat] /\ row.tab = task[n].tab
      BY <3>2 DEF TaskRecords
    <3> HIDE DEF j, row
    <3>6. cp'[j].tab = task[n].tab /\ \A k \in Keys : k # j => cp'[k] = cp[k]
      BY <3>1, <3>2, <3>5, StampType DEF Struct, TablesType
    <3>7. \A k \in KeysOf(Source) : /\ cp'[k].tab = t => cp'[k] = cp[k]
                                    /\ cp[k].tab = t => cp'[k] = cp[k]
      BY <3>2, <3>4, <3>6, SourceTabs
    <3>8. TasksKept(t)
      BY <2>3, <3>3, <3>4, OneTaskChanges
    <3>9. MemoryKept(t)
      BY <2>2, <3>8, MemorySame DEF TasksKept
    <3> QED
      BY <1>2, <1>4, <2>2, <3>7, <3>8, <3>9 DEF TabFrame, TasksKept
  <2>5. CASE ws[WsOf(task[n].tab)] \notin {"active", "archived"}
    <3>1. task'[n] = NoTask /\ task[n].pc = "insert" /\ cp' = cp
      BY <1>7, <2>5 DEF InsertCheckpoint, Struct, TaskType
    <3>2. TasksKept(t)
      BY <2>3, <3>1, OneTaskChanges
    <3> QED
      BY <1>2, <1>4, <2>2, <3>1, <3>2, QuietFrame
  <2> QED
    BY <2>4, <2>5
<1>8. ASSUME NEW n \in Turns, CollectFiles(n) \/ SaveSnapshot(n) \/ SaveRejected(n) PROVE TabFrame(t)
  <2>1. UNCHANGED <<msg, cp, mem, prelude, forgot>>
    BY <1>8 DEF CollectFiles, SaveSnapshot, SaveRejected
  <2>2. \A m \in Turns : m # n => task'[m] = task[m]
    BY <1>8 DEF CollectFiles, SaveSnapshot, SaveRejected, Struct, TaskType
  <2>3. task[n].pc \in {"collect", "save"}
    BY <1>8 DEF CollectFiles, SaveSnapshot, SaveRejected
  <2>4. TasksKept(t)
    <3>1. CASE task'[n] = NoTask
      BY <2>2, <2>3, <3>1, OneTaskChanges
    <3>2. CASE task'[n] # NoTask
      <4>1. CollectFiles(n)
        BY <1>8, <3>2 DEF SaveSnapshot, SaveRejected, Struct, TaskType
      <4>2. task[n].tab # t
        BY <1>3, <3>2, <4>1, OwnCollect
      <4>3. task'[n].tab = task[n].tab
        BY <3>2, <4>1 DEF CollectFiles, Struct, TaskType, TaskRecords
      <4> QED
        BY <2>2, <4>2, <4>3, OneTaskChanges
    <3> QED
      BY <3>1, <3>2
  <2> QED
    BY <1>2, <1>4, <2>1, <2>4, QuietFrame
<1> QED
  BY <1>5, <1>6, <1>7, <1>8, <1>9, <1>10, <1>11, <1>12 DEF TurnStep

LEMMA TabUndoStep ==
    ASSUME Struct, LiveOps, Next, NEW t \in {"a", "b"}, TabInv(t), UndoStep, t \notin raced'
    PROVE  TabInv(t)'
<1> USE DEF history, memory, tables
<1>1. ws' = ws
  BY DEF UndoStep, RollbackBegin, ClearBegin, UndoFiles, UndoMessages, UndoCheckpoints, RollbackAgent, ClearAgent
<1>2. SUFFICES ASSUME ~ TabInv(t)' PROVE TabFrame(t)
  BY <1>1, FrameStep
<1>3. ASSUME NEW s \in Tabs, NEW n \in Turns, NEW files \in BOOLEAN,
             RollbackBegin(s, n, files) \/ ClearBegin(s, files)
      PROVE  TabFrame(t)
  <2>1. s # t
    BY <1>2, <1>3, OwnBegin
  <2>2. op = NoOp /\ op'.tab = s /\ UNCHANGED <<msg, cp, mem, prelude, forgot, task>>
    BY <1>3 DEF RollbackBegin, ClearBegin, Begin, NoOp, Race
  <2>3. ~ OpOn(t) /\ ~ OpOn(t)'
    BY <2>1, <2>2, NoOpFacts DEF OpOn
  <2>4. TasksKept(t)
    BY <2>2 DEF TasksKept, Live, Sending
  <2> QED
    BY <2>2, <2>3, <2>4, QuietFrame
<1>4. CASE UndoFiles \/ UndoMessages \/ UndoCheckpoints \/ RollbackAgent \/ ClearAgent
  <2>1. op.tab # t /\ op.tab \in Tabs
    BY <1>2, <1>4, OwnFiles, OwnMessages, OwnCheckpoints, OwnAgent, UndoOpOn
       DEF UndoFiles, UndoMessages, UndoCheckpoints, RollbackAgent, ClearAgent, Struct, OpShape
  <2>2. op' = NoOp \/ op'.tab = op.tab
    BY <1>4 DEF UndoFiles, UndoMessages, UndoCheckpoints, RollbackAgent, ClearAgent, Struct, OpType, OpRecords
  <2>3. ~ OpOn(t) /\ ~ OpOn(t)'
    BY <2>1, <2>2, NoOpFacts DEF OpOn
  <2>4. t \in forgot' <=> t \in forgot
    BY <1>4, <2>1 DEF UndoFiles, UndoMessages, UndoCheckpoints, RollbackAgent, ClearAgent, Remembered
  <2>5. mem'[t] = mem[t] /\ prelude'[t] = prelude[t]
    BY <1>4, <2>1, SourceTabs DEF UndoFiles, UndoMessages, UndoCheckpoints, RollbackAgent, ClearAgent,
       Struct, MemoryType
  <2>6. TasksKept(t)
    <3>1. task' = task \/ KillAgents({op.tab})
      BY <1>4 DEF UndoFiles, UndoMessages, UndoCheckpoints, RollbackAgent, ClearAgent
    <3>2. task' = task => TasksKept(t)
      BY DEF TasksKept, Live, Sending
    <3> QED
      BY <3>1, <3>2, KilledKept
  <2>9. MemoryKept(t)
    BY <2>4, <2>5, <2>6 DEF MemoryKept, TasksKept
  <2>7. \A k \in Keys : msg'[k] = t <=> msg[k] = t
    <3>1. CASE msg' = msg
      BY <3>1
    <3>2. CASE UndoMessages
      BY <2>1, <3>2, SourceTabs DEF UndoMessages, Discarded
    <3> QED
      BY <1>4, <3>1, <3>2 DEF UndoFiles, UndoCheckpoints, RollbackAgent, ClearAgent
  <2>8. \A k \in KeysOf(Source) : cp'[k].tab = t => cp'[k] = cp[k]
    <3>1. CASE cp' = cp
      BY <3>1
    <3>2. CASE UndoCheckpoints
      <4> DEFINE gone == {k \in Keys : After(k)}
      <4>1. DeleteCheckpoints(gone) /\ gone \in SUBSET Keys
        BY <3>2 DEF UndoCheckpoints
      <4> HIDE DEF gone
      <4> QED
        BY <4>1, DeleteCheckpointsFacts, SourceTabs
    <3> QED
      BY <1>4, <3>1, <3>2 DEF UndoFiles, UndoMessages, RollbackAgent, ClearAgent
  <2> QED
    BY <2>3, <2>6, <2>7, <2>8, <2>9 DEF TabFrame, TasksKept
<1> QED
  BY <1>3, <1>4, ConstantFacts DEF UndoStep

LEMMA TabForkStep ==
    ASSUME Struct, Home, LiveOps, Next, NEW t \in {"a", "b"}, TabInv(t), ForkStep
    PROVE  TabInv(t)'
<1> USE DEF history, memory, tables
<1>1. ws'[Source] = ws[Source]
  BY ConstantFacts DEF ForkStep, ForkBegin, ForkFiles, ForkMessages, ForkList, ForkCheckpoint, ForkInsertFiles,
     ForkTranscript, ForkPrelude, Struct, WorktreeType
<1>2. SUFFICES TabFrame(t)
  BY <1>1, FrameStep
<1>3. op.kind \notin {"rollback", "clear"} /\ op'.kind \notin {"rollback", "clear"}
  <2>1. ASSUME NEW n \in Turns, ForkBegin(n) PROVE op = NoOp /\ op'.kind = "fork"
    BY <2>1 DEF ForkBegin, Begin, NoOp
  <2>2. CASE ForkFiles \/ ForkMessages \/ ForkList \/ ForkInsertFiles \/ \E e \in op.list : ForkCheckpoint(e)
    BY <2>2, NoOpFacts DEF ForkFiles, ForkMessages, ForkList, ForkInsertFiles, ForkCheckpoint, ForkFailed,
       Struct, OpType, OpRecords
  <2>3. CASE ForkTranscript \/ ForkPrelude
    BY <2>3, NoOpFacts DEF ForkTranscript, ForkPrelude
  <2> QED
    BY <2>1, <2>2, <2>3, NoOpFacts DEF ForkStep
<1>4. ~ OpOn(t) /\ ~ OpOn(t)'
  BY <1>3 DEF OpOn
<1>5. task' = task /\ forgot' = forgot
  BY DEF ForkStep, ForkBegin, ForkFiles, ForkMessages, ForkList, ForkCheckpoint, ForkInsertFiles,
     ForkTranscript, ForkPrelude
<1>6. mem'[t] = mem[t] /\ prelude'[t] = prelude[t]
  BY SourceTabs DEF ForkStep, ForkBegin, ForkFiles, ForkMessages, ForkList, ForkCheckpoint, ForkInsertFiles,
     ForkTranscript, ForkPrelude, Struct, MemoryType
<1>7. \A k \in Keys : msg'[k] = t <=> msg[k] = t
  <2>1. CASE msg' = msg
    BY <2>1
  <2>2. CASE ForkMessages
    <3>1. \A k \in Keys : msg[k] = t => k[1] # Fork
      BY SourceTabs, ConstantFacts DEF Home
    <3> QED
      BY <2>2, <3>1, SourceTabs DEF ForkMessages
  <2> QED
    BY <2>1, <2>2 DEF ForkStep, ForkBegin, ForkFiles, ForkList, ForkCheckpoint, ForkInsertFiles,
       ForkTranscript, ForkPrelude
<1>9. TasksKept(t) /\ MemoryKept(t)
  <2>1. TasksKept(t)
    BY <1>5 DEF TasksKept, Live, Sending
  <2> QED
    BY <1>5, <1>6, <2>1, MemorySame DEF TasksKept
<1>8. \A k \in KeysOf(Source) : cp'[k] = cp[k]
  <2>1. CASE cp' = cp
    BY <2>1
  <2>2. ASSUME NEW e \in op.list, ForkCheckpoint(e), cp' # cp
        PROVE  \A k \in KeysOf(Source) : cp'[k] = cp[k]
    <3>3. op' # NoOp
      BY <2>2, ForkCheckpointFails
    <3>1. \A j \in Keys : j # <<Fork, e[1]>> => cp'[j] = cp[j]
      BY <2>2, <3>3, ForkCheckpointFacts
    <3>2. \A k \in KeysOf(Source) : k \in Keys /\ k # <<Fork, e[1]>>
      BY SourceTabs, KeyFacts, ConstantFacts
    <3> QED
      BY <3>1, <3>2
  <2> QED
    BY <2>1, <2>2 DEF ForkStep, ForkBegin, ForkFiles, ForkMessages, ForkList, ForkCheckpoint, ForkInsertFiles,
       ForkTranscript, ForkPrelude
<1> QED
  BY <1>4, <1>7, <1>8, <1>9 DEF TabFrame, TasksKept

LEMMA LostPrelude ==
    ASSUME Struct, NEW t \in {"a", "b"}, NEW tabs \in SUBSET Tabs, LosePreludes(tabs)
    PROVE  /\ forgot \subseteq forgot'
           /\ prelude'[t] \subseteq prelude[t] /\ (t \notin forgot' => prelude'[t] = prelude[t])
BY SourceTabs DEF LosePreludes

LEMMA TabWorkspaceStep ==
    ASSUME Struct, Home, LiveOps, Next, NEW t \in {"a", "b"}, TabInv(t), WorkspaceStep
    PROVE  TabInv(t)'
<1> USE DEF history, memory, tables
<1>1. SUFFICES ASSUME ~ (DeleteRow /\ op.ws = Source) PROVE TabFrame(t)
  BY DeletedStays, FrameStep, OwnDelete
<1>2. ASSUME NEW w \in Workspaces, NEW kind \in {"archive", "delete"}, RemoveBegin(w, kind) PROVE TabFrame(t)
  <2>1. /\ op = NoOp /\ op'.kind = kind /\ KillAgents(TabsOf(w)) /\ LosePreludes(TabsOf(w))
        /\ msg' = msg /\ cp' = cp /\ mem' = mem
    BY <1>2 DEF RemoveBegin, Begin, NoOp
  <2>2. ~ OpOn(t) /\ ~ OpOn(t)'
    BY <2>1, NoOpFacts DEF OpOn
  <2>3. TasksKept(t)
    BY <2>1, KilledKept
  <2>4. TabsOf(w) \in SUBSET Tabs
    BY DEF TabsOf
  <2>5. /\ forgot \subseteq forgot'
        /\ prelude'[t] \subseteq prelude[t] /\ (t \notin forgot' => prelude'[t] = prelude[t])
    BY <2>1, <2>4, LostPrelude
  <2>6. MemoryKept(t)
    BY <2>1, <2>3, <2>5 DEF MemoryKept, TasksKept
  <2> QED
    BY <2>1, <2>2, <2>3, <2>6 DEF TabFrame, TasksKept
<1>3. ASSUME NEW w \in Workspaces, RestoreClaim(w) PROVE TabFrame(t)
  <2>1. op = NoOp /\ op'.kind = "restore" /\ UNCHANGED <<msg, cp, mem, prelude, forgot, task>>
    BY <1>3 DEF RestoreClaim, Begin, NoOp
  <2>2. ~ OpOn(t) /\ ~ OpOn(t)'
    BY <2>1, NoOpFacts DEF OpOn
  <2>3. TasksKept(t)
    BY <2>1 DEF TasksKept, Live, Sending
  <2> QED
    BY <2>1, <2>2, <2>3, QuietFrame
<1>4. CASE RemoveWorktree \/ RemoveWorktreeFails \/ ArchiveRow \/ PurgeFiles \/ PurgeFails \/ RestoreDone \/ RestoreFails
  <2>1. UNCHANGED <<msg, cp, mem, prelude, forgot, task>>
    BY <1>4 DEF RemoveWorktree, RemoveWorktreeFails, ArchiveRow, PurgeFiles, PurgeFails, RestoreDone, RestoreFails
  <2>2. op.kind \in {"archive", "delete", "restore"}
    BY <1>4, PurgeFilesFacts DEF RemoveWorktree, RemoveWorktreeFails, ArchiveRow, PurgeFails, RestoreDone,
       RestoreFails, Struct, OpType, OpRecords, OpKinds, OpShape, NoOp
  <2>3. op' = NoOp \/ op'.kind = op.kind
    BY <1>4 DEF RemoveWorktree, RemoveWorktreeFails, ArchiveRow, PurgeFiles, PurgeFails, RestoreDone, RestoreFails,
       Struct, OpType, OpRecords
  <2>4. ~ OpOn(t) /\ ~ OpOn(t)'
    BY <2>2, <2>3, NoOpFacts DEF OpOn
  <2>5. TasksKept(t)
    BY <2>1 DEF TasksKept, Live, Sending
  <2> QED
    BY <2>1, <2>4, <2>5, QuietFrame
<1>5. CASE DeleteRow
  <2>1. /\ op.kind = "delete" /\ op' = NoOp /\ op.ws = Fork
        /\ msg' = [k \in Keys |-> IF k[1] = op.ws THEN None ELSE msg[k]]
        /\ DeleteCheckpoints(KeysOf(Fork)) /\ KeysOf(Fork) \in SUBSET Keys
        /\ mem' = [s \in Tabs |-> IF s \in TabsOf(op.ws) THEN {} ELSE mem[s]]
        /\ UNCHANGED <<prelude, task, forgot>>
    BY <1>1, <1>5, ConstantFacts DEF DeleteRow, KeysOf, Struct, OpShape
  <2>2. ~ OpOn(t) /\ ~ OpOn(t)'
    BY <2>1, NoOpFacts DEF OpOn
  <2>3. mem'[t] = mem[t]
    BY <2>1, SourceTabs, ConstantFacts DEF TabsOf
  <2>4. \A k \in Keys : msg'[k] = t <=> msg[k] = t
    <3>1. \A k \in Keys : msg[k] = t => k[1] # Fork
      BY SourceTabs, ConstantFacts DEF Home
    <3> QED
      BY <2>1, <3>1, SourceTabs
  <2>5. \A k \in KeysOf(Source) : cp'[k] = cp[k]
    <3>1. \A k \in KeysOf(Source) : k \in Keys \ KeysOf(Fork)
      BY ConstantFacts DEF KeysOf
    <3> QED
      BY <2>1, <3>1, DeleteCheckpointsFacts
  <2>6. TasksKept(t)
    BY <2>1 DEF TasksKept, Live, Sending
  <2>7. MemoryKept(t)
    BY <2>1, <2>3, <2>6, MemorySame DEF TasksKept
  <2> QED
    BY <2>1, <2>2, <2>4, <2>5, <2>6, <2>7 DEF TabFrame, TasksKept
<1> QED
  BY <1>2, <1>3, <1>4, <1>5 DEF WorkspaceStep

LEMMA TabStep ==
    ASSUME Struct, Home, LiveOps, Next, NEW t \in {"a", "b"}, TabInv(t), t \notin raced'
    PROVE  TabInv(t)'
<1>1. CASE MaintenanceStep
  <2>1. UNCHANGED <<msg, cp, mem, prelude, forgot, task, op, ws>>
    BY <1>1 DEF MaintenanceStep, BackfillRead, BackfillWrite, SweepRead, ArchivedSweep, tables, memory, history
  <2>2. OpOn(t)' <=> OpOn(t)
    BY <2>1 DEF OpOn
  <2>3. TasksKept(t)
    BY <2>1 DEF TasksKept, Live, Sending
  <2> QED
    BY <2>1, <2>2, <2>3, QuietFrame, FrameStep
<1>2. CASE Restart
  <2>1. /\ task' = [n \in Turns |-> NoTask] /\ op' = NoOp /\ ~ OpOn(t)
        /\ msg' = msg /\ cp' = cp /\ ws' = ws /\ prelude' = [s \in Tabs |-> {}]
    BY <1>2 DEF Restart, tables, OpOn
  <2>2. ~ OpOn(t)'
    BY <2>1, NoOpFacts DEF OpOn
  <2>3. \A n \in Turns : task'[n].tab # t
    BY <2>1, NoTaskFacts, SourceTabs
  <2>4. Live(t)' = {} /\ Sending(t)' = {}
    BY <2>3 DEF Live, Sending
  <2>6. MemoryKept(t)
    <3>1. PICK unsaved \in SUBSET {n \in Turns : task[n].pc = "run"} :
            /\ mem' = [s \in Tabs |-> mem[s] \ {n \in unsaved : task[n].tab = s}]
            /\ forgot' = forgot \cup {s \in Tabs : prelude[s] # {} \/ Sending(s) # {}}
                                \cup {task[n].tab : n \in unsaved}
      BY <1>2 DEF Restart
    <3>2. mem'[t] = mem[t] \ {n \in unsaved : task[n].tab = t} /\ prelude'[t] = {}
      BY <2>1, <3>1, SourceTabs
    <3>3. t \notin forgot' => /\ t \notin forgot /\ prelude[t] = {} /\ Sending(t) = {}
                             /\ \A n \in unsaved : task[n].tab # t
      BY <3>1, SourceTabs
    <3> QED
      BY <2>4, <3>2, <3>3 DEF MemoryKept
  <2>5. TabFrame(t)
    BY <2>1, <2>2, <2>4, <2>6 DEF TabFrame
  <2> QED
    BY <2>1, <2>5, FrameStep
<1> QED
  BY <1>1, <1>2, TabTurnStep, TabUndoStep, TabForkStep, TabWorkspaceStep DEF Next

LEMMA UndoInvariant == Spec => []Undo
<1>1. Undo /\ [Next]_vars => Undo'
  <2>1. Undo /\ Next => Undo'
    <3> SUFFICES ASSUME Undo, Next PROVE Undo'
      OBVIOUS
    <3>1. Struct' /\ Home' /\ LiveOps'
      BY StructStep, HomeStep, LiveOpsStep DEF Undo
    <3>2. \A t \in {"a", "b"} \ raced' : TabInv(t)'
      BY TabStep, RacedGrows DEF Undo
    <3> QED
      BY <3>1, <3>2 DEF Undo
  <2>2. Undo /\ UNCHANGED vars => Undo'
    <3> SUFFICES ASSUME Undo, UNCHANGED vars PROVE Undo'
      OBVIOUS
    <3>1. /\ UNCHANGED <<msg, cp, mem, prelude, forgot, task, op, ws, raced>>
      BY DEF vars, tables, memory, history
    <3>2. Struct' /\ Home' /\ LiveOps'
      BY <3>1, StructStep DEF Undo, Home, LiveOps
    <3>3. ASSUME NEW t \in {"a", "b"} \ raced PROVE TabInv(t)'
      <4>1. OpOn(t)' <=> OpOn(t)
        BY <3>1 DEF OpOn
      <4>2. TasksKept(t)
        BY <3>1 DEF TasksKept, Live, Sending
      <4> QED
        BY <3>1, <4>1, <4>2, QuietFrame, FrameStep DEF Undo
    <3> QED
      BY <3>1, <3>2, <3>3 DEF Undo
  <2> QED
    BY <2>1, <2>2
<1> QED
  BY <1>1, InitUndo, PTL DEF Spec

(* AnchorsHold: rollback deletes messages by turn and checkpoints by an index    *)
(* that is counted over all tabs, in two transactions, and still every           *)
(* checkpoint of the workspace points at a message that is there.                *)
THEOREM AnchorsStay == Spec => []AnchorsHold
<1>1. Undo => AnchorsHold
  <2> SUFFICES ASSUME Undo, NEW k \in KeysOf(Source), cp[k].tab \notin raced \cup {None}, ~ OpOn(cp[k].tab)
               PROVE  msg[k] # None
    BY DEF AnchorsHold
  <2>1. k \in Keys /\ cp[k].tab \in Tabs /\ WsOf(cp[k].tab) = Source
    BY SourceTabs DEF Undo, Struct, TablesType, CpType, Home, KeysOf
  <2>2. TabInv(cp[k].tab) /\ cp[k].tab \in {"a", "b"}
    BY <2>1, SourceTabs DEF Undo
  <2> QED
    BY <2>2, SourceTabs DEF TabInv, CpShown, Doomed
<1> QED
  BY <1>1, UndoInvariant, PTL

(* MemoryMatches: with no operation under way the agent of a tab resumes from    *)
(* nothing but what the tab shows, and from all of it unless a failed start, an   *)
(* early exit, a dropped entry or a restart has lost turns since the last undo.    *)
THEOREM MemoryStays == Spec => []MemoryMatches
<1>1. Undo => MemoryMatches
  <2> SUFFICES ASSUME Undo, NEW t \in Tabs \ raced, t # "f", ~ OpOn(t), ws[WsOf(t)] # "deleted"
               PROVE  Match(t)
    BY DEF MemoryMatches, Match
  <2>1. t \in {"a", "b"} /\ WsOf(t) = Source
    BY SourceTabs DEF Tabs
  <2> QED
    BY <2>1 DEF Undo, TabInv, Remembers, Undoing
<1> QED
  BY <1>1, UndoInvariant, PTL

==============================================================================

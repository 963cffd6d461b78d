-------------------------- MODULE CheckpointsProofs --------------------------
(***************************************************************************)
(* Proofs about Checkpoints.                                                 *)
(***************************************************************************)
EXTENDS Checkpoints, FiniteSetTheorems, WellFoundedInduction, TLAPS

-----------------------------------------------------------------------------
(* Operators of the model. *)

LEMMA ConstantFacts ==
    /\ N \in Nat /\ Keep \in Nat /\ 1 \in Turns /\ Base \in Versions /\ Turns \subseteq Versions
    /\ None \notin Tabs /\ None \notin Workspaces /\ None \notin Versions
    /\ Tabs = {"a", "b", "f"} /\ Workspaces = {Source, Fork} /\ Source # Fork
    /\ NoFile \in Files /\ NoTask.pc = "none" /\ NoTask.tab = None
BY CheckpointsAssumption
   DEF Turns, Base, Versions, Tabs, Workspaces, Source, Fork, NoFile, Files, NoTask

LEMMA KeyFacts ==
    /\ \A w \in Workspaces, n \in Turns : <<w, n>> \in Keys
    /\ \A k \in Keys : k = <<k[1], k[2]>> /\ k[1] \in Workspaces /\ k[2] \in Turns
    /\ \A w, v, n, m : <<w, n>> = <<v, m>> <=> w = v /\ n = m
    /\ \A w, n : <<w, n>>[1] = w /\ <<w, n>>[2] = n
BY DEF Keys

LEMMA WsOfType == \A t \in Tabs : WsOf(t) \in Workspaces
BY DEF WsOf, Tabs, Workspaces

(* A nonempty finite set of naturals has a maximum: a smallest one without     *)
(* would have one less an element.                                             *)
LEMMA FiniteMax ==
    ASSUME NEW S \in SUBSET Nat, S # {}, IsFiniteSet(S)
    PROVE  \E i \in S : \A j \in S : j <= i
<1> DEFINE NoMax == {U \in FiniteSubsetsOf(Nat) : U # {} /\ ~ \E i \in U : \A j \in U : j <= i}
           R == StrictSubsetOrdering(Nat)
<1>1. SUFFICES ASSUME S \in NoMax PROVE FALSE
  BY DEF FiniteSubsetsOf
<1>2. IsWellFoundedOn(R, FiniteSubsetsOf(Nat))
  BY FS_StrictSubsetOrderingWellFounded
<1>3. PICK U \in NoMax : \A V \in NoMax : <<V, U>> \notin R
  <2> HIDE DEF R
  <2> QED
    BY <1>1, <1>2, WFMin
<1>4. U \in SUBSET Nat /\ IsFiniteSet(U) /\ U # {}
  BY DEF FiniteSubsetsOf
<1>5. PICK x \in U : TRUE
  BY <1>4
<1> DEFINE V == U \ {x}
<1>6. V \in FiniteSubsetsOf(Nat) /\ V # U /\ V \subseteq U
  BY <1>4, <1>5, FS_RemoveElement DEF FiniteSubsetsOf
<1>7. <<V, U>> \in R
  BY <1>4, <1>6 DEF StrictSubsetOrdering
<1>8. V \notin NoMax
  BY <1>3, <1>7
<1>9. CASE V = {}
  BY <1>4, <1>5, <1>9
<1>10. CASE V # {}
  <2>1. PICK i \in V : \A j \in V : j <= i
    BY <1>6, <1>8, <1>10
  <2>2. x \in Nat /\ i \in Nat /\ \A j \in U : j \in Nat /\ (j = x \/ j <= i)
    BY <1>4, <1>5, <2>1
  <2> QED
    BY <1>5, <2>1, <2>2
<1> QED
  BY <1>9, <1>10

LEMMA MaxOfIsMax ==
    ASSUME NEW S \in SUBSET Nat, S # {}, IsFiniteSet(S)
    PROVE  MaxOf(S) \in S /\ \A j \in S : j <= MaxOf(S)
BY FiniteMax DEF MaxOf

LEMMA ImageFinite ==
    ASSUME NEW S, IsFiniteSet(S), NEW f
    PROVE  IsFiniteSet({f[x] : x \in S})
<1> DEFINE T == {f[x] : x \in S}
           g == [x \in S |-> f[x]]
<1>1. g \in Surjection(S, T)
  BY DEF Surjection
<1> QED
  BY <1>1, FS_Surjection

LEMMA KeysFinite ==
    /\ IsFiniteSet(Keys) /\ IsFiniteSet(Turns)
    /\ \A S \in SUBSET Keys : IsFiniteSet(S)
    /\ \A S \in SUBSET Turns : IsFiniteSet(S)
<1>1. IsFiniteSet(Turns)
  BY ConstantFacts, FS_Interval DEF Turns
<1>2. IsFiniteSet(Workspaces)
  <2>1. IsFiniteSet({Source}) /\ Workspaces = {Source} \cup {Fork}
    BY FS_Singleton DEF Workspaces
  <2> QED
    BY <2>1, FS_AddElement
<1>3. IsFiniteSet(Keys)
  BY <1>1, <1>2, FS_Product DEF Keys
<1> QED
  BY <1>1, <1>3, FS_Subset

CpType == cp \in [Keys -> [tab: Tabs \cup {None}, idx: Nat, at: Nat]]

(* The maxima that create_turn_checkpoint and created_at use exist.            *)
LEMMA UsedMax ==
    ASSUME CpType, NEW S \in SUBSET Keys, S # {}
    PROVE  /\ MaxOf({cp[k].idx : k \in S}) \in Nat /\ MaxOf({cp[k].at : k \in S}) \in Nat
           /\ \A k \in S : cp[k].idx <= MaxOf({cp[j].idx : j \in S})
<1> DEFINE f == [k \in Keys |-> cp[k].idx]
           g == [k \in Keys |-> cp[k].at]
<1>1. {cp[k].idx : k \in S} = {f[k] : k \in S} /\ {cp[k].at : k \in S} = {g[k] : k \in S}
  OBVIOUS
<1>2. IsFiniteSet({f[k] : k \in S}) /\ IsFiniteSet({g[k] : k \in S})
  <2> HIDE DEF f, g
  <2> QED
    BY KeysFinite, ImageFinite
<1>3. /\ {f[k] : k \in S} \in SUBSET Nat /\ {f[k] : k \in S} # {}
      /\ {g[k] : k \in S} \in SUBSET Nat /\ {g[k] : k \in S} # {}
  BY DEF CpType
<1>4. MaxOf({f[k] : k \in S}) \in {f[k] : k \in S} /\ \A j \in {f[k] : k \in S} : j <= MaxOf({f[k] : k \in S})
  <2> HIDE DEF f
  <2> QED
    BY <1>2, <1>3, MaxOfIsMax
<1>5. MaxOf({g[k] : k \in S}) \in {g[k] : k \in S}
  <2> HIDE DEF g
  <2> QED
    BY <1>2, <1>3, MaxOfIsMax
<1>6. MaxOf({f[k] : k \in S}) \in Nat /\ MaxOf({g[k] : k \in S}) \in Nat
  BY <1>3, <1>4, <1>5
<1>7. \A k \in S : cp[k].idx \in {f[j] : j \in S}
  OBVIOUS
<1> QED
  BY <1>1, <1>4, <1>6, <1>7

LEMMA StampType ==
    ASSUME CpType, NEW k \in Keys, NEW row \in [tab: Tabs \cup {None}, idx: Nat, at: Nat],
           Stamp(k, row)
    PROVE  /\ CpType'
           /\ cp'[k].tab = row.tab /\ cp'[k].idx = row.idx
           /\ \A j \in Keys : j # k => cp'[j] = cp[j]
<1> DEFINE S == {j \in KeysOf(k[1]) : cp[j].tab # None}
           used == {cp[j].at : j \in S}
<1>1. S \in SUBSET Keys
  BY DEF KeysOf
<1>2. used # {} => MaxOf(used) \in Nat
  <2>1. used # {} => S # {}
    OBVIOUS
  <2> HIDE DEF S
  <2> QED
    BY <1>1, <2>1, UsedMax
<1>3. PICK at \in IF used = {} THEN {0} ELSE {MaxOf(used), MaxOf(used) + 1} :
          cp' = [cp EXCEPT ![k] = [row EXCEPT !.at = at]]
  BY DEF Stamp
<1>4. at \in Nat
  <2> HIDE DEF used
  <2> QED
    BY <1>2, <1>3
<1> HIDE DEF used, S
<1>5. [row EXCEPT !.at = at] \in [tab: Tabs \cup {None}, idx: Nat, at: Nat]
  BY <1>4
<1> QED
  BY <1>3, <1>5 DEF CpType

-----------------------------------------------------------------------------
(* The structural invariant: types by table, and what the rows, the tasks and  *)
(* the operation under way have to do with each other.                         *)

TablesType ==
    /\ msg \in [Keys -> Tabs \cup {None}]
    /\ CpType
    /\ file \in [Keys -> Files]
    /\ blobs \subseteq Versions
    /\ \A k \in Keys : Held(k) => cp[k].tab # None
WorktreeType ==
    /\ ws \in [Workspaces -> {"free", "active", "archived", "deleted"}]
    /\ wt \in [Workspaces -> Versions \cup {Empty, Gone}]
MemoryType == mem \in [Tabs -> SUBSET Turns] /\ prelude \in [Tabs -> SUBSET Turns]
TaskRecords == [pc: {"none", "send", "run", "dying", "insert", "collect", "save"},
                tab: Tabs \cup {None}, idx: Nat, v: Versions]
TaskType == task \in [Turns -> TaskRecords]
OpRecords == [kind: OpKinds, pc: OpPcs, tab: Tabs \cup {None},
              ws: Workspaces \cup {None}, n: 0 .. N, idx: Nat, files: BOOLEAN,
              has: BOOLEAN, list: SUBSET (Turns \X BOOLEAN), cur: 0 .. N, read: Files]
OpType == op \in OpRecords
MaintType ==
    maint \in [pc: {"backfill", "write", "sweep", "purge", "done"},
               rows: SUBSET (Keys \X Versions), ids: SUBSET Workspaces]
BoundsType ==
    /\ next \in 1 .. N + 1 /\ left \in 0 .. Events /\ upto \in [Turns -> Turns]
    /\ raced \subseteq Tabs /\ forgot \subseteq Tabs

LEMMA TypeParts ==
    TypeOK <=> /\ TablesType /\ WorktreeType /\ MemoryType /\ TaskType /\ OpType
               /\ MaintType /\ BoundsType
BY DEF TypeOK, TablesType, CpType, WorktreeType, MemoryType, TaskRecords, TaskType, OpRecords,
       OpType, MaintType, BoundsType

(* Which fields an operation has filled in, and where it can be.               *)
OpShape ==
    /\ op.kind = "none" => op = NoOp
    /\ op.kind \in {"rollback", "clear"} =>
           /\ op.tab \in Tabs /\ op.ws = WsOf(op.tab)
           /\ op.pc \in {"files", "messages", "checkpoints", "agent"}
    /\ op.kind = "rollback" => op.n \in Turns
    /\ op.kind = "clear" => ~ op.has
    /\ op.kind = "fork" =>
           /\ op.tab \in Tabs /\ op.n \in Turns /\ op.ws = Fork
           /\ op.pc \in {"files", "row", "list", "copy", "insert"}
    /\ op.kind = "archive" => op.ws \in Workspaces /\ op.pc \in {"worktree", "row", "purge"}
    /\ op.kind = "delete" => op.ws \in Workspaces /\ op.pc \in {"worktree", "row"}
    /\ op.kind = "restore" => op.ws \in Workspaces /\ op.pc = "git"

(* A reference never dangles (the foreign key of checkpoint_files).            *)
RefsHaveBlobs == \A k \in Keys : file[k].form = "ref" => file[k].v \in blobs

(* What the backfill read outside its transaction is still what is there.      *)
BackfillRows ==
    maint.pc = "write" =>
        \A r \in maint.rows : file[r[1]].form = "inline" => file[r[1]].v = r[2]

(* A task has its key for itself, and numbers are given out in order.          *)
Unrecorded == {"send", "run", "insert"}
TurnKeys ==
    /\ \A n \in Turns :
        /\ task[n].tab = None <=> task[n].pc = "none"
        /\ task[n].tab # None =>
               /\ n < next /\ ~ Held(<<WsOf(task[n].tab), n>>)
               /\ cp[<<Source, n>>].tab # None => task[n].tab # "f"
        /\ task[n].pc \in Unrecorded => cp[<<WsOf(task[n].tab), n>>].tab = None
    /\ \A k \in Keys : k[2] >= next => msg[k] = None /\ cp[k].tab = None

(* The fork writes into rows that nobody has written.                          *)
ForkRows(n) == cp[<<Fork, n>>].tab = None /\ ~ Held(<<Fork, n>>)
ForkFresh ==
    /\ ws[Fork] = "free" \/ op.kind = "fork" => \A n \in Turns : task[n].tab # "f"
    /\ ws[Fork] = "free" => \A n \in Turns : ForkRows(n) /\ msg[<<Fork, n>>] = None
    /\ op.kind = "fork" /\ op.pc \in {"files", "row"} => ws[Fork] = "free"
    /\ op.kind = "fork" /\ op.pc = "list" => \A n \in Turns : ForkRows(n)
    /\ op.kind = "fork" => /\ \A e \in op.list : ForkRows(e[1])
                           /\ \A d, e \in op.list : d[1] = e[1] => d = e
    /\ op.kind = "fork" /\ op.pc = "insert" =>
           /\ op.cur \in Turns /\ ~ Held(<<Fork, op.cur>>)
           /\ cp[<<Fork, op.cur>>].tab # None

Struct ==
    /\ TablesType /\ WorktreeType /\ MemoryType /\ TaskType /\ OpType /\ MaintType /\ BoundsType
    /\ OpShape /\ RefsHaveBlobs /\ BackfillRows /\ TurnKeys /\ ForkFresh

USE DEF Unrecorded

LEMMA InitStruct == Init => Struct
<1> SUFFICES ASSUME Init PROVE Struct
  OBVIOUS
<1>1. TablesType
  BY ConstantFacts, KeyFacts DEF Init, TablesType, CpType, NoCp, NoFile, Files, Held, Tabs
<1>2. WorktreeType /\ MemoryType /\ MaintType /\ BoundsType
  BY ConstantFacts, CheckpointsAssumption
     DEF Init, WorktreeType, MemoryType, MaintType, BoundsType, Versions, Gone, Turns, Tabs
<1>3. TaskType /\ OpType
  BY ConstantFacts, CheckpointsAssumption
     DEF Init, TaskType, TaskRecords, NoTask, OpType, OpRecords, NoOp, OpKinds, OpPcs
<1>4. OpShape /\ RefsHaveBlobs /\ BackfillRows
  BY DEF Init, OpShape, NoOp, RefsHaveBlobs, NoFile, BackfillRows
<1>5. TurnKeys
  BY ConstantFacts, KeyFacts DEF Init, TurnKeys, NoCp, NoTask
<1>6. ForkFresh
  BY ConstantFacts, KeyFacts DEF Init, ForkFresh, ForkRows, NoCp, NoTask, NoOp, NoFile, Held
<1> QED
  BY <1>1, <1>2, <1>3, <1>4, <1>5, <1>6 DEF Struct

(* What Struct says where the steps use it. *)
USE DEF Held

LEMMA NoOpFacts == NoOp \in OpRecords /\ NoOp.kind = "none"
BY ConstantFacts DEF NoOp, OpRecords, OpKinds, OpPcs

LEMMA OpEnds ==
    ASSUME op' = NoOp
    PROVE  OpType' /\ OpShape'
BY NoOpFacts DEF OpType, OpShape

LEMMA NoTaskFacts == NoTask \in TaskRecords /\ NoTask.tab = None /\ NoTask.pc = "none"
BY ConstantFacts DEF NoTask, TaskRecords

LEMMA StartTurnStruct ==
    ASSUME Struct, NEW t \in Tabs, StartTurn(t)
    PROVE  Struct'
<1>1. /\ next \in Turns /\ WsOf(t) \in Workspaces /\ <<WsOf(t), next>> \in Keys
      /\ t # None /\ next' = next + 1
  BY ConstantFacts, KeyFacts, WsOfType DEF Struct, BoundsType, StartTurn, Turns
<1>2. /\ msg' = [msg EXCEPT ![<<WsOf(t), next>>] = t]
      /\ UNCHANGED <<cp, file, blobs, ws, wt, op, maint>>
  BY DEF StartTurn
<1>3. /\ [NoTask EXCEPT !.pc = "send", !.tab = t] \in TaskRecords
      /\ task' = [task EXCEPT ![next] = [NoTask EXCEPT !.pc = "send", !.tab = t]]
      /\ task'[next].pc = "send" /\ task'[next].tab = t
  BY <1>1, NoTaskFacts DEF StartTurn, NoTask, TaskRecords, Struct, TaskType
<1>4. \A n \in Turns : n # next => task'[n] = task[n]
  BY <1>3 DEF Struct, TaskType
<1>5. TablesType' /\ WorktreeType' /\ OpType' /\ MaintType' /\ OpShape' /\ RefsHaveBlobs' /\ BackfillRows'
  BY <1>1, <1>2 DEF Struct, TablesType, CpType, WorktreeType, OpType, MaintType, OpShape, RefsHaveBlobs, BackfillRows
<1>6. TaskType'
  BY <1>1, <1>3 DEF Struct, TaskType
<1>7. MemoryType'
  BY DEF StartTurn, Struct, MemoryType, memory
<1>8. BoundsType'
  BY <1>1, ConstantFacts, CheckpointsAssumption DEF StartTurn, Race, Struct, BoundsType, Turns
<1>9. TurnKeys'
  <2>1. cp[<<WsOf(t), next>>].tab = None /\ ~ Held(<<WsOf(t), next>>) /\ cp[<<Source, next>>].tab = None
    BY <1>1, KeyFacts, ConstantFacts DEF Struct, TurnKeys, TablesType, BoundsType
  <2>2. \A n \in Turns : n # next => n < next' \/ ~ n < next
    BY <1>1 DEF Turns
  <2>3. \A k \in Keys : k[2] >= next' => k[2] >= next /\ k # <<WsOf(t), next>>
    BY <1>1, KeyFacts DEF Turns
  <2>4. next < next'
    BY <1>1 DEF Turns
  <2>5. \A k \in Keys : k[2] >= next' => msg'[k] = None /\ cp'[k].tab = None
    BY <1>1, <1>2, <2>3 DEF Struct, TurnKeys, TablesType
  <2> QED
    BY <1>1, <1>2, <1>3, <1>4, <2>1, <2>2, <2>4, <2>5, ConstantFacts DEF Struct, TurnKeys
<1>10. ForkFresh'
  <2>1. CASE t = "f"
    <3>1. ws[Fork] # "free" /\ op.kind # "fork"
      BY <2>1 DEF StartTurn, WsOf, Struct, OpShape
    <3> QED
      BY <1>2, <3>1 DEF Struct, ForkFresh
  <2>2. CASE t # "f"
    <3>1. \A n \in Turns : task'[n].tab = "f" => task[n].tab = "f"
      BY <1>3, <1>4, <2>2
    <3>2. \A n \in Turns : msg'[<<Fork, n>>] = msg[<<Fork, n>>] /\ (ForkRows(n)' <=> ForkRows(n))
      BY <1>1, <1>2, <2>2, KeyFacts, ConstantFacts DEF WsOf, ForkRows, Struct, TablesType
    <3> QED
      BY <1>2, <3>1, <3>2 DEF Struct, ForkFresh, ForkRows
  <2> QED
    BY <2>1, <2>2
<1> QED
  BY <1>5, <1>6, <1>7, <1>8, <1>9, <1>10 DEF Struct

(* Facts about a task that has not ended. *)
LEMMA TaskFacts ==
    ASSUME Struct, NEW n \in Turns, task[n].pc # "none"
    PROVE  /\ task[n] \in TaskRecords /\ task[n].tab \in Tabs /\ WsOf(task[n].tab) \in Workspaces
           /\ <<WsOf(task[n].tab), n>> \in Keys /\ n < next
           /\ file[<<WsOf(task[n].tab), n>>].form = "none"
           /\ task[n].pc \in Unrecorded => cp[<<WsOf(task[n].tab), n>>].tab = None
<1>1. task[n] \in TaskRecords /\ task[n].tab # None
  BY DEF Struct, TaskType, TurnKeys
<1>2. task[n].tab \in Tabs
  BY <1>1 DEF TaskRecords
<1> QED
  BY <1>1, <1>2, WsOfType, KeyFacts DEF Struct, TurnKeys

(* A step that moves one task on, or ends it, and leaves the rows alone.        *)
LEMMA TaskMovesOn ==
    ASSUME Struct, NEW n \in Turns, NEW r \in TaskRecords, task[n].pc # "none",
           task' = [task EXCEPT ![n] = r],
           \/ r = NoTask
           \/ r.tab = task[n].tab /\ r.pc # "none" /\ (r.pc \in Unrecorded => task[n].pc \in Unrecorded),
           UNCHANGED <<tables, ws, op, maint, next>>, WorktreeType', MemoryType', BoundsType'
    PROVE  Struct'
<1>1. \A m \in Turns : m # n => task'[m] = task[m]
  BY DEF Struct, TaskType
<1>2. task'[n] = r
  BY DEF Struct, TaskType
<1>3. TaskType'
  BY DEF Struct, TaskType
<1>4. TurnKeys'
  <2>1. task[n].tab # None
    BY DEF Struct, TurnKeys
  <2>2. \A m \in Turns :
          /\ task'[m].tab = None <=> task'[m].pc = "none"
          /\ task'[m].tab # None => task'[m].tab = task[m].tab
          /\ task'[m].pc \in Unrecorded => task[m].pc \in Unrecorded /\ task'[m].tab = task[m].tab
    BY <1>1, <1>2, <2>1, NoTaskFacts DEF Struct, TurnKeys
  <2> QED
    BY <2>2 DEF Struct, TurnKeys, tables
<1>5. ForkFresh'
  <2>1. \A m \in Turns : task'[m].tab = "f" => task[m].tab = "f"
    BY <1>1, <1>2, NoTaskFacts, ConstantFacts
  <2> QED
    BY <2>1 DEF Struct, ForkFresh, ForkRows, tables
<1> QED
  BY <1>3, <1>4, <1>5 DEF Struct, TablesType, CpType, OpType, MaintType,
     OpShape, RefsHaveBlobs, BackfillRows, tables

LEMMA TaskMoves ==
    ASSUME Struct, NEW n \in Turns, NEW r \in TaskRecords, task[n].pc # "none",
           task' = [task EXCEPT ![n] = r],
           \/ r = NoTask
           \/ r.tab = task[n].tab /\ r.pc # "none" /\ (r.pc \in Unrecorded => task[n].pc \in Unrecorded),
           UNCHANGED <<tables, ws, memory, op, maint, bounds, history>>, WorktreeType'
    PROVE  Struct'
<1>1. MemoryType' /\ BoundsType' /\ next' = next
  BY DEF Struct, MemoryType, BoundsType, memory, bounds, history
<1> QED
  BY <1>1, TaskMovesOn


LEMMA EndTurnStruct ==
    ASSUME Struct, NEW n \in Turns, EndTurn(n)
    PROVE  Struct'
<1> DEFINE S == {k \in KeysOf(WsOf(task[n].tab)) : cp[k].tab # None}
           used == {cp[k].idx : k \in S}
           i == IF used = {} THEN 0 ELSE 1 + MaxOf(used)
<1>1. task[n].pc = "run"
  BY DEF EndTurn
<1>2. i \in Nat
  <2>1. S \in SUBSET Keys /\ CpType
    BY DEF KeysOf, Struct, TablesType
  <2>2. used # {} => S # {}
    OBVIOUS
  <2> HIDE DEF S
  <2>3. used # {} => MaxOf(used) \in Nat
    BY <2>1, <2>2, UsedMax
  <2> HIDE DEF used
  <2> QED
    BY <2>3
<1>3. task' = [task EXCEPT ![n].pc = "insert", ![n].idx = i]
  BY DEF EndTurn
<1> HIDE DEF i
<1>4. /\ task' = [task EXCEPT ![n] = [task[n] EXCEPT !.pc = "insert", !.idx = i]]
      /\ [task[n] EXCEPT !.pc = "insert", !.idx = i] \in TaskRecords
      /\ [task[n] EXCEPT !.pc = "insert", !.idx = i].tab = task[n].tab
      /\ [task[n] EXCEPT !.pc = "insert", !.idx = i].pc = "insert"
  BY <1>1, <1>2, <1>3, TaskFacts DEF Struct, TaskType, TaskRecords
<1>5. WorktreeType'
  BY <1>1, TaskFacts, ConstantFacts DEF EndTurn, Struct, WorktreeType
<1>6. UNCHANGED <<tables, ws, op, maint, next>> /\ MemoryType'
  BY DEF EndTurn, Struct, MemoryType, memory
<1>7. BoundsType'
  <2>1. n < next
    BY <1>1, TaskFacts
  <2>2. next \in 1 .. N + 1 /\ N \in Nat /\ n \in 1 .. N
    BY ConstantFacts DEF Struct, BoundsType, Turns
  <2>3. next - 1 \in Turns
    BY <2>1, <2>2 DEF Turns
  <2> QED
    BY <2>3 DEF EndTurn, Struct, BoundsType, history
<1> QED
  BY <1>1, <1>4, <1>5, <1>6, <1>7, TaskMovesOn

LEMMA SendTurnStruct ==
    ASSUME Struct, NEW n \in Turns, SendTurn(n)
    PROVE  Struct'
<1>1. /\ task[n].pc = "send" /\ task' = [task EXCEPT ![n] = [task[n] EXCEPT !.pc = "run"]]
      /\ UNCHANGED <<tables, ws, op, maint, next>> /\ WorktreeType'
  BY DEF SendTurn, Struct, WorktreeType, TaskType
<1>2. /\ task[n] \in TaskRecords /\ task[n].tab \in Tabs
      /\ [task[n] EXCEPT !.pc = "run"] \in TaskRecords
      /\ [task[n] EXCEPT !.pc = "run"].tab = task[n].tab
      /\ [task[n] EXCEPT !.pc = "run"].pc = "run"
  BY <1>1, TaskFacts DEF TaskRecords
<1>3. MemoryType'
  BY <1>2 DEF SendTurn, Struct, MemoryType
<1>4. BoundsType'
  BY <1>2, CheckpointsAssumption DEF SendTurn, Forgets, Struct, BoundsType, history
<1> QED
  BY <1>1, <1>2, <1>3, <1>4, TaskMovesOn

LEMMA FailTurnStruct ==
    ASSUME Struct, NEW n \in Turns, FailTurn(n)
    PROVE  Struct'
<1>1. /\ task[n].pc = "send" /\ task' = [task EXCEPT ![n] = NoTask]
      /\ UNCHANGED <<tables, ws, op, maint, next>> /\ WorktreeType'
  BY DEF FailTurn, Struct, WorktreeType
<1>2. task[n].tab \in Tabs
  BY <1>1, TaskFacts
<1>3. MemoryType'
  BY <1>2 DEF FailTurn, Struct, MemoryType, memory
<1>4. BoundsType'
  BY <1>2, CheckpointsAssumption DEF FailTurn, Forgets, Struct, BoundsType
<1> QED
  BY <1>1, <1>3, <1>4, TaskMovesOn, NoTaskFacts

(* What is left of the turn of a process that is killed. *)
LEMMA KilledFacts ==
    ASSUME Struct, NEW n \in Turns, task[n].pc = "run", NEW early
    PROVE  /\ Killed(n, early) \in TaskRecords
           /\ Killed(n, early) # NoTask =>
                  Killed(n, early).pc = "dying" /\ Killed(n, early).tab = task[n].tab
<1>1. task[n].tab \in Tabs
  BY TaskFacts
<1> QED
  BY <1>1, NoTaskFacts DEF Killed, NoTask, TaskRecords

LEMMA AgentExitsStruct ==
    ASSUME Struct, NEW n \in Turns, AgentExits(n)
    PROVE  Struct'
<1>1. /\ task[n].pc = "run" /\ UNCHANGED <<tables, ws, op, maint, next>>
      /\ WorktreeType' /\ MemoryType'
  BY DEF AgentExits, Struct, WorktreeType, MemoryType, memory
<1>2. PICK early \in BOOLEAN : task' = [task EXCEPT ![n] = Killed(n, early)]
  BY DEF AgentExits
<1>3. BoundsType'
  BY CheckpointsAssumption DEF AgentExits, history, Struct, BoundsType
<1> DEFINE r == Killed(n, early)
<1>4. r \in TaskRecords /\ (r # NoTask => r.pc = "dying" /\ r.tab = task[n].tab)
  BY <1>1, KilledFacts
<1>5. task' = [task EXCEPT ![n] = r]
  BY <1>2
<1> HIDE DEF r
<1> QED
  BY <1>1, <1>3, <1>4, <1>5, TaskMovesOn

LEMMA ExitBeforeInitStruct ==
    ASSUME Struct, NEW n \in Turns, ExitBeforeInit(n)
    PROVE  Struct'
<1>1. /\ task[n].pc = "dying" /\ task' = [task EXCEPT ![n] = NoTask]
      /\ UNCHANGED <<tables, ws, op, maint, next>> /\ WorktreeType'
  BY DEF ExitBeforeInit, Struct, WorktreeType, bounds
<1>2. task[n].tab \in Tabs
  BY <1>1, TaskFacts
<1>3. MemoryType' /\ BoundsType'
  BY <1>2 DEF ExitBeforeInit, Forgets, Struct, MemoryType, BoundsType, bounds
<1> QED
  BY <1>1, <1>3, TaskMovesOn, NoTaskFacts

LEMMA CollectFilesStruct ==
    ASSUME Struct, NEW n \in Turns, CollectFiles(n)
    PROVE  Struct'
<1> DEFINE v == wt[WsOf(task[n].tab)]
           r == IF v \in Versions THEN [task[n] EXCEPT !.pc = "save", !.v = v] ELSE NoTask
<1>1. task[n].pc = "collect"
  BY DEF CollectFiles
<1>2. task' = [task EXCEPT ![n] = r]
  BY DEF CollectFiles, Struct, TaskType
<1>3. r \in TaskRecords /\ (r = NoTask \/ (r.tab = task[n].tab /\ r.pc = "save"))
  <2>1. task[n] \in TaskRecords
    BY <1>1, TaskFacts
  <2> HIDE DEF v
  <2>2. v \in Versions => /\ [task[n] EXCEPT !.pc = "save", !.v = v] \in TaskRecords
                          /\ [task[n] EXCEPT !.pc = "save", !.v = v].tab = task[n].tab
                          /\ [task[n] EXCEPT !.pc = "save", !.v = v].pc = "save"
    BY <2>1 DEF TaskRecords
  <2> QED
    BY <2>2, NoTaskFacts
<1>4. WorktreeType' /\ UNCHANGED <<tables, ws, memory, op, maint, bounds, history>>
  BY DEF CollectFiles, Struct, WorktreeType
<1> HIDE DEF r
<1> QED
  BY <1>1, <1>2, <1>3, <1>4, TaskMoves

LEMMA SaveRejectedStruct ==
    ASSUME Struct, NEW n \in Turns, SaveRejected(n)
    PROVE  Struct'
<1>1. /\ task[n].pc = "save" /\ task' = [task EXCEPT ![n] = NoTask]
      /\ UNCHANGED <<tables, ws, memory, op, maint, bounds, history>> /\ WorktreeType'
  BY DEF SaveRejected, Struct, WorktreeType
<1> QED
  BY <1>1, TaskMoves, NoTaskFacts

LEMMA InsertCheckpointStruct ==
    ASSUME Struct, NEW n \in Turns, InsertCheckpoint(n)
    PROVE  Struct'
<1> DEFINE t == task[n].tab
           k == <<WsOf(task[n].tab), n>>
<1>1. /\ task[n].pc = "insert" /\ t \in Tabs /\ t # None /\ k \in Keys /\ cp[k].tab = None /\ ~ Held(k)
      /\ n < next /\ task[n] \in TaskRecords
  BY TaskFacts, ConstantFacts DEF InsertCheckpoint
<1>2. CASE ws[WsOf(t)] \in {"active", "archived"}
  <2> DEFINE row == [tab |-> t, idx |-> task[n].idx, at |-> 0]
  <2>1. /\ Stamp(k, row) /\ task' = [task EXCEPT ![n].pc = "collect", ![n].idx = 0]
        /\ UNCHANGED <<msg, file, blobs, ws, wt, memory, op, maint, bounds, history>>
    BY <1>2 DEF InsertCheckpoint
  <2>2. row \in [tab: Tabs \cup {None}, idx: Nat, at: Nat] /\ CpType
    BY <1>1 DEF TaskRecords, Struct, TablesType
  <2>3. CpType' /\ cp'[k].tab = t /\ \A j \in Keys : j # k => cp'[j] = cp[j]
    BY <1>1, <2>1, <2>2, StampType
  <2>4. task'[n] = [task[n] EXCEPT !.pc = "collect", !.idx = 0] /\ TaskType'
        /\ \A m \in Turns : m # n => task'[m] = task[m]
    BY <1>1, <2>1 DEF Struct, TaskType, TaskRecords
  <2>5. task'[n].tab = t /\ task'[n].pc = "collect"
    BY <1>1, <2>4 DEF TaskRecords
  <2>6. TablesType'
    BY <1>1, <2>1, <2>3 DEF Struct, TablesType
  <2>7. TurnKeys'
    <3>1. \A j \in Keys : j[2] >= next => j # k
      BY <1>1, KeyFacts DEF Turns, Struct, BoundsType
    <3>2. \A j \in Keys : j[2] >= next' => msg'[j] = None /\ cp'[j].tab = None
      BY <2>1, <2>3, <3>1 DEF Struct, TurnKeys, bounds
    <3>3. \A m \in Turns : m # n => \A w \in Workspaces : cp'[<<w, m>>] = cp[<<w, m>>]
      BY <2>3, KeyFacts
    <3>4. t # "f" \/ cp'[<<Source, n>>].tab = None
      BY <1>1, <2>3, KeyFacts, ConstantFacts DEF WsOf, Struct, TurnKeys
    <3>5. \A m \in Turns : task[m].pc # "none" => WsOf(task[m].tab) \in Workspaces
      BY TaskFacts
    <3>6. file' = file /\ next' = next
      BY <2>1 DEF bounds
    <3> DEFINE T(m) ==
            /\ task'[m].tab = None <=> task'[m].pc = "none"
            /\ task'[m].tab # None =>
               /\ m < next /\ file[<<WsOf(task'[m].tab), m>>].form = "none"
               /\ cp'[<<Source, m>>].tab # None => task'[m].tab # "f"
            /\ task'[m].pc \in Unrecorded => cp'[<<WsOf(task'[m].tab), m>>].tab = None
    <3>7. ASSUME NEW m \in Turns, m # n PROVE T(m)
      <4>1. task'[m] = task[m] /\ Source \in Workspaces
        BY <2>4, <3>7, ConstantFacts
      <4>2. task[m].pc # "none" => cp'[<<WsOf(task[m].tab), m>>] = cp[<<WsOf(task[m].tab), m>>]
        BY <3>3, <3>5, <3>7
      <4> QED
        BY <3>3, <3>7, <4>1, <4>2 DEF Struct, TurnKeys
    <3>8. T(n)
      BY <1>1, <2>5, <3>4
    <3> QED
      BY <3>2, <3>6, <3>7, <3>8 DEF TurnKeys
  <2>8. ForkFresh'
    <3>1. \A m \in Turns : task'[m].tab = task[m].tab
      BY <2>4, <2>5
    <3>2. CASE t = "f"
      <4>1. ws[Fork] # "free" /\ op.kind # "fork"
        BY <3>2 DEF Struct, ForkFresh
      <4> QED
        BY <2>1, <4>1 DEF ForkFresh
    <3>3. CASE t # "f"
      <4>1. \A m \in Turns : (ForkRows(m)' <=> ForkRows(m)) /\ cp'[<<Fork, m>>] = cp[<<Fork, m>>]
        BY <2>1, <2>3, <3>3, KeyFacts, ConstantFacts DEF WsOf, ForkRows
      <4>2. \A e \in op.list : e[1] \in Turns
        BY DEF Struct, OpType, OpRecords
      <4> QED
        BY <2>1, <3>1, <4>1, <4>2 DEF Struct, ForkFresh
    <3> QED
      BY <3>2, <3>3
  <2> QED
    BY <2>1, <2>4, <2>6, <2>7, <2>8 DEF Struct, WorktreeType, MemoryType, OpType, MaintType, BoundsType,
       OpShape, RefsHaveBlobs, BackfillRows, memory, history, bounds
<1>3. CASE ws[WsOf(t)] \notin {"active", "archived"}
  <2>1. /\ task' = [task EXCEPT ![n] = NoTask] /\ WorktreeType'
        /\ UNCHANGED <<tables, ws, memory, op, maint, bounds, history>>
    BY <1>3 DEF InsertCheckpoint, Struct, WorktreeType, tables, bounds
  <2> QED
    BY <1>1, <2>1, TaskMoves, NoTaskFacts
<1> QED
  BY <1>2, <1>3

(* A step leaves a task, ends it, or kills its agent. *)
TaskEnds(n) ==
    \/ task'[n] = task[n]
    \/ task'[n] = NoTask
    \/ task[n].pc = "run" /\ task'[n].pc = "dying" /\ task'[n].tab = task[n].tab

(* A step that only takes rows away, with their files, and ends tasks.         *)
LEMMA RowsGo ==
    ASSUME Struct,
           \A k \in Keys : msg'[k] = msg[k] \/ msg'[k] = None,
           \A k \in Keys : cp'[k] = cp[k] \/ (cp'[k].tab = None /\ file'[k].form = "none"),
           \A k \in Keys : file'[k] = file[k] \/ file'[k].form = "none",
           msg' \in [Keys -> Tabs \cup {None}], CpType', file' \in [Keys -> Files],
           blobs' \subseteq blobs, RefsHaveBlobs',
           TaskType', \A n \in Turns : task'[n] = task[n] \/ task'[n] = NoTask \/ TaskEnds(n),
           WorktreeType', MemoryType', OpType', OpShape', BoundsType', next' = next,
           maint' = maint \/ (MaintType' /\ BackfillRows'),
           ws'[Fork] = "free" => ws[Fork] = "free", op' = op => ws' = ws,
           (op' = op /\ cp' = cp) \/ op'.kind # "fork" \/ ForkFresh'
    PROVE  Struct'
<1>1. TablesType'
  BY DEF Struct, TablesType
<1>2. MaintType' /\ BackfillRows'
  <2>1. CASE maint' = maint
    <3>1. \A r \in maint.rows : r[1] \in Keys
      BY DEF Struct, MaintType
    <3>2. \A r \in maint.rows : file'[r[1]].form = "inline" => file'[r[1]] = file[r[1]]
      BY <3>1
    <3> QED
      BY <2>1, <3>2 DEF Struct, MaintType, BackfillRows
  <2> QED
    BY <2>1
<1>3. TurnKeys'
  <2>1. \A k \in Keys : k[2] >= next' => msg'[k] = None /\ cp'[k].tab = None
    BY DEF Struct, TurnKeys
  <2> DEFINE T(m) ==
          /\ task'[m].tab = None <=> task'[m].pc = "none"
          /\ task'[m].tab # None =>
             /\ m < next' /\ file'[<<WsOf(task'[m].tab), m>>].form = "none"
             /\ cp'[<<Source, m>>].tab # None => task'[m].tab # "f"
          /\ task'[m].pc \in Unrecorded => cp'[<<WsOf(task'[m].tab), m>>].tab = None
  <2>2. ASSUME NEW m \in Turns PROVE T(m)
    <3>1. CASE task'[m] = NoTask
      BY <3>1, NoTaskFacts
    <3>2. CASE task'[m] = task[m] /\ task[m].pc = "none"
      BY <3>2 DEF Struct, TurnKeys
    <3>3. CASE /\ task[m].pc # "none" /\ task'[m].tab = task[m].tab
               /\ task'[m] = task[m] \/ task'[m].pc = "dying"
      <4>1. /\ <<WsOf(task[m].tab), m>> \in Keys /\ m < next
            /\ file[<<WsOf(task[m].tab), m>>].form = "none"
            /\ task[m].pc \in Unrecorded => cp[<<WsOf(task[m].tab), m>>].tab = None
        BY <3>3, TaskFacts
      <4>2. <<Source, m>> \in Keys
        BY KeyFacts, ConstantFacts
      <4>3. cp[<<Source, m>>].tab # None => task[m].tab # "f"
        BY <3>3, ConstantFacts DEF Struct, TurnKeys
      <4>4. task[m].tab # None
        BY <3>3 DEF Struct, TurnKeys
      <4> QED
        BY <3>3, <4>1, <4>2, <4>3, <4>4
    <3> QED
      BY <3>1, <3>2, <3>3 DEF TaskEnds
  <2> QED
    BY <2>1, <2>2 DEF TurnKeys
<1>4. ForkFresh'
  <2>1. \A n \in Turns : <<Fork, n>> \in Keys
    BY KeyFacts, ConstantFacts
  <2>2. \A n \in Turns : ForkRows(n) => ForkRows(n)'
    BY <2>1 DEF ForkRows
  <2>3. \A n \in Turns : task'[n].tab = "f" => task[n].tab = "f"
    BY NoTaskFacts, ConstantFacts DEF TaskEnds
  <2>4. \A n \in Turns : msg[<<Fork, n>>] = None => msg'[<<Fork, n>>] = None
    BY <2>1
  <2>5. \A e \in op.list : e[1] \in Turns
    BY DEF Struct, OpType, OpRecords
  <2>6. CASE op' = op /\ cp' = cp
    <3>1. op.kind = "fork" /\ op.pc \in {"files", "row"} => ws'[Fork] = "free"
      BY <2>6 DEF Struct, ForkFresh
    <3> QED
      BY <2>1, <2>2, <2>3, <2>4, <2>5, <2>6, <3>1 DEF Struct, ForkFresh
  <2>7. CASE op'.kind # "fork"
    BY <2>2, <2>3, <2>4, <2>7 DEF Struct, ForkFresh
  <2> QED
    BY <2>6, <2>7
<1> QED
  BY <1>1, <1>2, <1>3, <1>4 DEF Struct

(* Rows of deleted checkpoints go, and a collection keeps what is referenced.   *)
LEMMA DeleteFilesFacts ==
    ASSUME Struct, NEW gone \in SUBSET Keys, DeleteFiles(gone)
    PROVE  /\ file' \in [Keys -> Files] /\ blobs' \subseteq blobs /\ RefsHaveBlobs'
           /\ \A k \in gone : file'[k] = NoFile
           /\ \A k \in Keys \ gone : file'[k] = file[k]
<1>1. /\ file \in [Keys -> Files] /\ NoFile \in Files /\ NoFile.form = "none"
      /\ RefsHaveBlobs
  BY ConstantFacts DEF Struct, TablesType, NoFile
<1>2. file' = [k \in Keys |-> IF k \in gone THEN NoFile ELSE file[k]]
  BY DEF DeleteFiles
<1>3. blobs' = blobs \/ blobs' = GcOrphanBlobs(file', blobs)
  BY <1>2 DEF DeleteFiles
<1>4. /\ file' \in [Keys -> Files]
      /\ \A k \in gone : file'[k] = NoFile
      /\ \A k \in Keys \ gone : file'[k] = file[k]
  BY <1>1, <1>2
<1>5. \A k \in Keys : file'[k].form = "ref" => file'[k].v \in blobs
  BY <1>1, <1>4 DEF RefsHaveBlobs
<1>6. \A k \in Keys : file'[k].form = "ref" => file'[k] = [form |-> "ref", v |-> file'[k].v]
  BY <1>4 DEF Files
<1>7. RefsHaveBlobs' /\ blobs' \subseteq blobs
  BY <1>3, <1>5, <1>6 DEF RefsHaveBlobs, GcOrphanBlobs, Unreferenced
<1> QED
  BY <1>4, <1>7

LEMMA DeleteCheckpointsFacts ==
    ASSUME Struct, NEW gone \in SUBSET Keys, DeleteCheckpoints(gone)
    PROVE  /\ CpType' /\ file' \in [Keys -> Files] /\ blobs' \subseteq blobs /\ RefsHaveBlobs'
           /\ \A k \in gone : cp'[k].tab = None /\ file'[k].form = "none"
           /\ \A k \in Keys \ gone : cp'[k] = cp[k] /\ file'[k] = file[k]
<1>1. DeleteFiles(gone) /\ cp' = [k \in Keys |-> IF k \in gone THEN NoCp ELSE cp[k]]
  BY DEF DeleteCheckpoints
<1>2. NoCp \in [tab: Tabs \cup {None}, idx: Nat, at: Nat] /\ NoCp.tab = None /\ NoFile.form = "none"
  BY DEF NoCp, NoFile
<1>3. CpType' /\ (\A k \in gone : cp'[k].tab = None) /\ \A k \in Keys \ gone : cp'[k] = cp[k]
  BY <1>1, <1>2 DEF Struct, TablesType, CpType
<1> QED
  BY <1>1, <1>2, <1>3, DeleteFilesFacts

(* A step that leaves the tables and the tasks alone and is not a fork.        *)
LEMMA QuietStep ==
    ASSUME Struct, UNCHANGED <<tables, task, maint, next>>,
           WorktreeType', MemoryType', OpType', OpShape', BoundsType',
           ws'[Fork] = "free" => ws[Fork] = "free", op' = op => ws' = ws,
           op' = op \/ op'.kind # "fork" \/ ForkFresh'
    PROVE  Struct'
<1>1. /\ msg' = msg /\ cp' = cp /\ file' = file /\ blobs' = blobs /\ task' = task /\ next' = next
      /\ maint' = maint
  BY DEF tables
<1>2. msg' \in [Keys -> Tabs \cup {None}] /\ CpType' /\ file' \in [Keys -> Files] /\ RefsHaveBlobs' /\ TaskType'
  BY <1>1 DEF Struct, TablesType, CpType, RefsHaveBlobs, TaskType
<1> QED
  BY <1>1, <1>2, RowsGo

LEMMA KillAgentsFacts ==
    ASSUME Struct, NEW tabs, KillAgents(tabs)
    PROVE  /\ TaskType'
           /\ \A n \in Turns : /\ TaskEnds(n) /\ (task[n].pc # "run" => task'[n] = task[n])
                               /\ (task[n].tab \notin tabs => task'[n] = task[n])
<1>1. PICK early : task' = [n \in Turns |-> IF task[n].tab \in tabs /\ task[n].pc = "run"
                                             THEN Killed(n, n \in early) ELSE task[n]]
  BY DEF KillAgents
<1>2. ASSUME NEW n \in Turns
      PROVE  /\ task'[n] \in TaskRecords /\ TaskEnds(n) /\ (task[n].pc # "run" => task'[n] = task[n])
             /\ (task[n].tab \notin tabs => task'[n] = task[n])
  <2>1. CASE task[n].tab \in tabs /\ task[n].pc = "run"
    <3> DEFINE r == Killed(n, n \in early)
    <3>1. r \in TaskRecords /\ (r # NoTask => r.pc = "dying" /\ r.tab = task[n].tab)
      BY <2>1, KilledFacts
    <3>2. task'[n] = r
      BY <1>1, <2>1
    <3> HIDE DEF r
    <3> QED
      BY <2>1, <3>1, <3>2 DEF TaskEnds
  <2>2. CASE ~ (task[n].tab \in tabs /\ task[n].pc = "run")
    BY <1>1, <2>2 DEF TaskEnds, Struct, TaskType
  <2> QED
    BY <2>1, <2>2
<1>3. TaskType'
  BY <1>1, <1>2 DEF TaskType
<1> QED
  BY <1>2, <1>3

-----------------------------------------------------------------------------
(* Rollback and clear. *)

LEMMA UndoBeginStruct ==
    ASSUME Struct, NEW t \in Tabs, NEW n \in Turns, NEW files \in BOOLEAN,
           RollbackBegin(t, n, files) \/ ClearBegin(t, files)
    PROVE  Struct'
<1>1. WsOf(t) \in Workspaces /\ <<WsOf(t), n>> \in Keys
  BY WsOfType, KeyFacts
<1>2. cp[<<WsOf(t), n>>].idx \in Nat /\ n \in 0 .. N
  BY <1>1 DEF Struct, TablesType, CpType, Turns
<1>3. OpType' /\ OpShape' /\ op'.kind # "fork" /\ op'.kind # "none"
  <2>1. CASE RollbackBegin(t, n, files)
    <3> DEFINE o == [NoOp EXCEPT !.kind = "rollback", !.pc = "files", !.tab = t, !.ws = WsOf(t),
                          !.n = n, !.idx = cp[<<WsOf(t), n>>].idx, !.files = files,
                          !.has = Held(<<WsOf(t), n>>)]
    <3>1. op' = o
      BY <2>1 DEF RollbackBegin, Begin
    <3>2. o \in OpRecords
      BY <1>1, <1>2, NoOpFacts DEF OpRecords, OpKinds, OpPcs, NoOp
    <3>3. o.kind = "rollback" /\ o.pc = "files" /\ o.tab = t /\ o.ws = WsOf(t) /\ o.n = n
      BY DEF NoOp
    <3> HIDE DEF o
    <3> QED
      BY <3>1, <3>2, <3>3 DEF OpType, OpShape
  <2>2. CASE ClearBegin(t, files)
    <3> DEFINE o == [NoOp EXCEPT !.kind = "clear", !.pc = "files", !.tab = t, !.ws = WsOf(t),
                          !.files = files]
    <3>1. op' = o
      BY <2>2 DEF ClearBegin, Begin
    <3>2. o \in OpRecords
      BY <1>1, <1>2, NoOpFacts DEF OpRecords, OpKinds, OpPcs, NoOp
    <3>3. o.kind = "clear" /\ o.pc = "files" /\ o.tab = t /\ o.ws = WsOf(t) /\ ~ o.has
      BY DEF NoOp
    <3> HIDE DEF o
    <3> QED
      BY <3>1, <3>2, <3>3 DEF OpType, OpShape
  <2> QED
    BY <2>1, <2>2
<1>4. op = NoOp /\ UNCHANGED <<tables, ws, wt, memory, task, maint, next, upto>>
  BY DEF RollbackBegin, ClearBegin, Begin
<1>5. BoundsType'
  BY CheckpointsAssumption DEF RollbackBegin, ClearBegin, Begin, Race, Struct, BoundsType
<1>6. WorktreeType' /\ MemoryType'
  BY <1>4 DEF Struct, WorktreeType, MemoryType, memory
<1> QED
  BY <1>3, <1>4, <1>5, <1>6, NoOpFacts, QuietStep

(* The pc of an operation moves; everything else about it stays.               *)
LEMMA OpMoves ==
    ASSUME Struct, NEW pc \in OpPcs, op' = [op EXCEPT !.pc = pc]
    PROVE  /\ OpType' /\ op'.pc = pc /\ op'.kind = op.kind /\ op'.tab = op.tab /\ op'.ws = op.ws
           /\ op'.n = op.n /\ op'.list = op.list /\ op'.cur = op.cur /\ op'.idx = op.idx
           /\ op'.has = op.has
           /\ op.pc # pc => op' # op
BY DEF Struct, OpType, OpRecords

(* Reading a snapshot that is there finds its blob.                            *)
LEMMA ContentIsVersion ==
    ASSUME Struct, NEW k \in Keys
    PROVE  /\ Held(k) => Content(k) = file[k].v /\ Content(k) \in Versions
           /\ ~ Held(k) => Content(k) = None
<1>1. file[k] \in Files /\ (file[k].form = "ref" => file[k].v \in blobs)
  BY DEF Struct, TablesType, RefsHaveBlobs
<1>2. file[k].form \in {"none", "inline", "ref"} /\ file[k].v \in Versions
  BY <1>1 DEF Files
<1> QED
  BY <1>1, <1>2 DEF Content

LEMMA UndoFilesStruct ==
    ASSUME Struct, UndoFiles
    PROVE  Struct'
<1>1. /\ op.kind \in {"rollback", "clear"} /\ op.pc = "files" /\ op.ws \in Workspaces
      /\ op.kind = "rollback" => <<op.ws, op.n>> \in Keys
      /\ op.kind = "clear" => ~ op.has
  BY WsOfType, KeyFacts DEF UndoFiles, Struct, OpShape
<1>2. OpType' /\ OpShape' /\ op'.kind # "fork" /\ op' # op
  <2>1. CASE op' = NoOp
    BY <1>1, <2>1, OpEnds, NoOpFacts
  <2>2. CASE op' = [op EXCEPT !.pc = "messages", !.files = FALSE, !.has = FALSE]
    <3>1. /\ op' \in OpRecords /\ op'.pc = "messages" /\ op'.kind = op.kind /\ op'.tab = op.tab
          /\ op'.ws = op.ws /\ op'.n = op.n /\ ~ op'.has
      BY <2>2 DEF Struct, OpType, OpRecords, OpPcs
    <3> QED
      BY <1>1, <3>1 DEF Struct, OpShape, OpType
  <2> QED
    BY <2>1, <2>2 DEF UndoFiles
<1>3. WorktreeType'
  <2>1. wt \in [Workspaces -> Versions \cup {Empty, Gone}] /\ Base \in Versions
    BY ConstantFacts DEF Struct, WorktreeType
  <2>2. <<op.ws, op.n>> \in Keys => RestoreSnapshot(<<op.ws, op.n>>) \in Versions \cup {Empty}
    BY ContentIsVersion DEF RestoreSnapshot
  <2>3. \/ wt' = wt
        \/ wt' = [wt EXCEPT ![op.ws] = Base]
        \/ op.kind = "rollback" /\ wt' = [wt EXCEPT ![op.ws] = RestoreSnapshot(<<op.ws, op.n>>)]
    BY <1>1 DEF UndoFiles
  <2>4. wt' \in [Workspaces -> Versions \cup {Empty, Gone}]
    BY <1>1, <2>1, <2>2, <2>3
  <2> QED
    BY <2>4 DEF UndoFiles, Struct, WorktreeType
<1>4. UNCHANGED <<tables, ws, memory, task, maint, bounds, history>>
  BY DEF UndoFiles
<1>5. MemoryType' /\ BoundsType' /\ UNCHANGED <<tables, task, maint, next, ws>>
  BY <1>4 DEF Struct, MemoryType, BoundsType, memory, bounds, history
<1> QED
  BY <1>2, <1>3, <1>5, QuietStep

LEMMA UndoMessagesStruct ==
    ASSUME Struct, UndoMessages
    PROVE  Struct'
<1>1. op.pc = "messages" /\ op' = [op EXCEPT !.pc = "checkpoints"] /\ "checkpoints" \in OpPcs
  BY DEF UndoMessages, OpPcs
<1>2. OpType' /\ OpShape' /\ op'.kind # "fork" /\ op' # op
  BY <1>1, OpMoves DEF Struct, OpShape, NoOp
<1>3. /\ msg' = [k \in Keys |-> IF Discarded(k) THEN None ELSE msg[k]]
      /\ UNCHANGED <<cp, file, blobs, ws, wt, memory, task, maint, bounds, history>>
  BY DEF UndoMessages
<1>4. /\ msg' \in [Keys -> Tabs \cup {None}]
      /\ \A k \in Keys : msg'[k] = msg[k] \/ msg'[k] = None
  BY <1>3 DEF Struct, TablesType
<1>5. /\ CpType' /\ file' \in [Keys -> Files] /\ RefsHaveBlobs' /\ TaskType' /\ WorktreeType'
      /\ MemoryType' /\ BoundsType' /\ next' = next
  BY <1>3 DEF Struct, TablesType, CpType, RefsHaveBlobs, TaskType, WorktreeType, MemoryType, BoundsType,
     memory, bounds, history
<1> QED
  BY <1>2, <1>3, <1>4, <1>5, RowsGo

LEMMA UndoCheckpointsStruct ==
    ASSUME Struct, UndoCheckpoints
    PROVE  Struct'
<1>1. op.pc = "checkpoints" /\ op' = [op EXCEPT !.pc = "agent"] /\ "agent" \in OpPcs
  BY DEF UndoCheckpoints, OpPcs
<1>2. OpType' /\ OpShape' /\ op'.kind # "fork" /\ op' # op
  BY <1>1, OpMoves DEF Struct, OpShape, NoOp
<1> DEFINE gone == {k \in Keys : After(k)}
<1>3. /\ DeleteCheckpoints(gone)
      /\ UNCHANGED <<msg, ws, wt, memory, task, maint, bounds, history>>
  BY DEF UndoCheckpoints
<1>4. gone \in SUBSET Keys
  OBVIOUS
<1> HIDE DEF gone
<1>5. /\ CpType' /\ file' \in [Keys -> Files] /\ blobs' \subseteq blobs /\ RefsHaveBlobs'
      /\ \A k \in Keys : cp'[k] = cp[k] \/ (cp'[k].tab = None /\ file'[k].form = "none")
      /\ \A k \in Keys : file'[k] = file[k] \/ file'[k].form = "none"
  BY <1>3, <1>4, DeleteCheckpointsFacts
<1>6. /\ msg' \in [Keys -> Tabs \cup {None}] /\ TaskType' /\ WorktreeType'
      /\ MemoryType' /\ BoundsType' /\ next' = next
  BY <1>3 DEF Struct, TablesType, TaskType, WorktreeType, MemoryType, BoundsType,
     memory, bounds, history
<1> QED
  BY <1>2, <1>3, <1>5, <1>6, RowsGo

LEMMA UndoAgentStruct ==
    ASSUME Struct, RollbackAgent \/ ClearAgent
    PROVE  Struct'
<1>1. /\ op.kind \in {"rollback", "clear"} /\ op.tab \in Tabs /\ op' = NoOp
      /\ UNCHANGED <<tables, ws, wt, maint, bounds>> /\ Remembered(op.tab)
      /\ KillAgents({op.tab}) \/ task' = task
  BY DEF RollbackAgent, ClearAgent, Struct, OpShape
<1>2. TaskType' /\ \A n \in Turns : TaskEnds(n)
  BY <1>1, KillAgentsFacts DEF Struct, TaskType, TaskEnds
<1>3. MemoryType'
  <2>1. Shown(op.tab) \subseteq Turns
    BY KeyFacts DEF Shown
  <2> QED
    BY <1>1, <2>1 DEF RollbackAgent, ClearAgent, Struct, MemoryType
<1>4. OpType' /\ OpShape' /\ op'.kind # "fork" /\ op' # op
  BY <1>1, OpEnds, NoOpFacts
<1>5. /\ msg' \in [Keys -> Tabs \cup {None}] /\ CpType' /\ file' \in [Keys -> Files] /\ RefsHaveBlobs'
      /\ WorktreeType' /\ BoundsType' /\ next' = next
      /\ msg' = msg /\ cp' = cp /\ file' = file /\ blobs' = blobs
  BY <1>1 DEF Struct, TablesType, CpType, RefsHaveBlobs, WorktreeType, BoundsType,
     tables, bounds, Remembered
<1> QED
  BY <1>1, <1>2, <1>3, <1>4, <1>5, RowsGo

-----------------------------------------------------------------------------
(* Archive, delete and restore. *)

LEMMA LosePreludesFacts ==
    ASSUME Struct, NEW tabs \in SUBSET Tabs, LosePreludes(tabs)
    PROVE  prelude' \in [Tabs -> SUBSET Turns] /\ forgot' \subseteq Tabs
BY DEF Struct, MemoryType, BoundsType, LosePreludes

LEMMA RemoveBeginStruct ==
    ASSUME Struct, NEW w \in Workspaces, NEW kind \in {"archive", "delete"}, RemoveBegin(w, kind)
    PROVE  Struct'
<1>1. /\ op = NoOp /\ op' = [NoOp EXCEPT !.kind = kind, !.pc = "worktree", !.ws = w]
      /\ left > 0 /\ left' = left - 1 /\ KillAgents(TabsOf(w)) /\ LosePreludes(TabsOf(w))
      /\ UNCHANGED <<tables, ws, wt, mem, maint, next, upto, raced>>
  BY DEF RemoveBegin, Begin
<1>2. OpType' /\ OpShape' /\ op'.kind # "fork" /\ op' # op
  <2>1. op' \in OpRecords /\ op'.kind = kind /\ op'.pc = "worktree" /\ op'.ws = w
    BY <1>1, NoOpFacts DEF NoOp, OpRecords, OpKinds, OpPcs
  <2> QED
    BY <1>1, <2>1, NoOpFacts DEF OpType, OpShape
<1>3. TaskType' /\ \A n \in Turns : TaskEnds(n)
  BY <1>1, KillAgentsFacts
<1>4. MemoryType' /\ BoundsType'
  <2>1. TabsOf(w) \in SUBSET Tabs
    BY DEF TabsOf
  <2>2. prelude' \in [Tabs -> SUBSET Turns] /\ forgot' \subseteq Tabs
    BY <1>1, <2>1, LosePreludesFacts
  <2> QED
    BY <1>1, <2>2, CheckpointsAssumption DEF Struct, MemoryType, BoundsType
<1>5. /\ msg' \in [Keys -> Tabs \cup {None}] /\ CpType' /\ file' \in [Keys -> Files] /\ RefsHaveBlobs'
      /\ WorktreeType' /\ next' = next
      /\ msg' = msg /\ cp' = cp /\ file' = file /\ blobs' = blobs
  BY <1>1 DEF Struct, TablesType, CpType, RefsHaveBlobs, WorktreeType, tables
<1> QED
  BY <1>1, <1>2, <1>3, <1>4, <1>5, RowsGo

LEMMA RemoveWorktreeStruct ==
    ASSUME Struct, RemoveWorktree \/ RemoveWorktreeFails
    PROVE  Struct'
<1>1. /\ op.pc = "worktree" /\ op.kind \in {"archive", "delete"} /\ op.ws \in Workspaces
      /\ op' = [op EXCEPT !.pc = "row"] /\ "row" \in OpPcs
      /\ UNCHANGED <<tables, ws, memory, task, maint, bounds, history>>
      /\ wt' = wt \/ wt' = [wt EXCEPT ![op.ws] = Gone]
  BY DEF RemoveWorktree, RemoveWorktreeFails, OpPcs, Struct, OpShape
<1>2. OpType' /\ OpShape' /\ op'.kind # "fork" /\ op' # op
  BY <1>1, OpMoves DEF Struct, OpShape
<1>3. WorktreeType' /\ MemoryType' /\ BoundsType' /\ UNCHANGED <<tables, task, maint, next, ws>>
  BY <1>1 DEF Struct, WorktreeType, MemoryType, BoundsType, memory, bounds, history
<1> QED
  BY <1>2, <1>3, QuietStep

LEMMA ArchiveRowStruct ==
    ASSUME Struct, ArchiveRow
    PROVE  Struct'
<1>1. /\ op.pc = "row" /\ op.kind = "archive" /\ op.ws \in Workspaces
      /\ op' = [op EXCEPT !.pc = "purge"] /\ "purge" \in OpPcs
      /\ ws' = [ws EXCEPT ![op.ws] = "archived"]
      /\ UNCHANGED <<tables, wt, memory, task, maint, bounds, history>>
  BY DEF ArchiveRow, OpPcs, Struct, OpShape
<1>2. OpType' /\ OpShape' /\ op'.kind # "fork" /\ op' # op
  BY <1>1, OpMoves DEF Struct, OpShape
<1>3. WorktreeType' /\ (ws'[Fork] = "free" => ws[Fork] = "free")
  BY <1>1, ConstantFacts DEF Struct, WorktreeType
<1>4. MemoryType' /\ BoundsType' /\ UNCHANGED <<tables, task, maint, next>>
  BY <1>1 DEF Struct, MemoryType, BoundsType, memory, bounds, history
<1> QED
  BY <1>2, <1>3, <1>4, QuietStep

LEMMA PurgeFailsStruct ==
    ASSUME Struct, PurgeFails
    PROVE  Struct'
<1>1. op.pc = "purge" /\ op' = NoOp /\ UNCHANGED <<tables, ws, wt, memory, task, maint, bounds, history>>
  BY DEF PurgeFails
<1>2. OpType' /\ OpShape' /\ op'.kind # "fork" /\ op' # op
  BY <1>1, OpEnds, NoOpFacts DEF NoOp
<1>3. WorktreeType' /\ MemoryType' /\ BoundsType' /\ UNCHANGED <<tables, task, maint, next, ws>>
  BY <1>1 DEF Struct, WorktreeType, MemoryType, BoundsType, memory, bounds, history
<1> QED
  BY <1>2, <1>3, QuietStep

LEMMA PurgeFilesFacts ==
    ASSUME Struct, PurgeFiles
    PROVE  /\ op.ws \in Workspaces /\ op' = NoOp /\ op.pc = "purge" /\ op.kind = "archive"
           /\ file' \in [Keys -> Files] /\ blobs' \subseteq blobs /\ RefsHaveBlobs'
           /\ \A k \in Keys : file'[k] = IF k[1] = op.ws THEN NoFile ELSE file[k]
           /\ UNCHANGED <<msg, cp, ws, wt, memory, task, maint, bounds, history>>
<1>1. /\ op.pc = "purge" /\ op' = NoOp
      /\ file' = [k \in Keys |-> IF k[1] = op.ws THEN NoFile ELSE file[k]]
      /\ blobs' = PurgedBlobs(op.ws, file')
      /\ UNCHANGED <<msg, cp, ws, wt, memory, task, maint, bounds, history>>
  BY DEF PurgeFiles
<1>2. op.ws \in Workspaces /\ op.kind = "archive"
  BY <1>1 DEF Struct, OpShape, OpType, OpRecords, OpKinds, NoOp
<1>3. file' \in [Keys -> Files] /\ \A k \in Keys : file'[k] = IF k[1] = op.ws THEN NoFile ELSE file[k]
  BY <1>1, ConstantFacts DEF Struct, TablesType
<1>4. \A k \in Keys : file'[k].form = "ref" => file'[k].v \in blobs
  BY <1>3 DEF NoFile, Struct, RefsHaveBlobs
<1>5. \A k \in Keys : file'[k].form = "ref" => file'[k] = [form |-> "ref", v |-> file'[k].v]
  BY <1>3 DEF Files
<1>6. blobs' \subseteq blobs /\ \A v \in blobs : v \notin Unreferenced(file', blobs) => v \in blobs'
  BY <1>1 DEF PurgedBlobs
<1>7. RefsHaveBlobs'
  BY <1>4, <1>5, <1>6 DEF RefsHaveBlobs, Unreferenced
<1> QED
  BY <1>1, <1>2, <1>3, <1>6, <1>7

LEMMA PurgeFilesStruct ==
    ASSUME Struct, PurgeFiles
    PROVE  Struct'
<1>1. OpType' /\ OpShape' /\ op'.kind # "fork" /\ op' # op
  BY PurgeFilesFacts, OpEnds, NoOpFacts
<1>2. /\ file' \in [Keys -> Files] /\ blobs' \subseteq blobs /\ RefsHaveBlobs'
      /\ \A k \in Keys : file'[k] = file[k] \/ file'[k].form = "none"
  BY PurgeFilesFacts DEF NoFile
<1>3. UNCHANGED <<msg, cp, ws, wt, memory, task, maint, bounds, history>>
  BY PurgeFilesFacts
<1>4. /\ msg' \in [Keys -> Tabs \cup {None}] /\ CpType' /\ TaskType' /\ MemoryType' /\ BoundsType'
      /\ WorktreeType' /\ next' = next
  BY <1>3 DEF Struct, TablesType, CpType, TaskType, MemoryType, BoundsType, WorktreeType,
     memory, bounds, history
<1> QED
  BY <1>1, <1>2, <1>3, <1>4, RowsGo

LEMMA DeleteRowStruct ==
    ASSUME Struct, DeleteRow
    PROVE  Struct'
<1>1. /\ op.pc = "row" /\ op.kind = "delete" /\ op.ws \in Workspaces /\ op' = NoOp
      /\ ws' = [ws EXCEPT ![op.ws] = "deleted"]
      /\ msg' = [k \in Keys |-> IF k[1] = op.ws THEN None ELSE msg[k]]
      /\ DeleteCheckpoints(KeysOf(op.ws))
      /\ mem' = [t \in Tabs |-> IF t \in TabsOf(op.ws) THEN {} ELSE mem[t]]
      /\ UNCHANGED <<wt, prelude, task, maint, bounds, history>>
  BY DEF DeleteRow, Struct, OpShape
<1>2. OpType' /\ OpShape' /\ op'.kind # "fork" /\ op' # op
  BY <1>1, OpEnds, NoOpFacts
<1>3. KeysOf(op.ws) \in SUBSET Keys
  BY DEF KeysOf
<1>4. /\ CpType' /\ file' \in [Keys -> Files] /\ blobs' \subseteq blobs /\ RefsHaveBlobs'
      /\ \A k \in Keys : cp'[k] = cp[k] \/ (cp'[k].tab = None /\ file'[k].form = "none")
      /\ \A k \in Keys : file'[k] = file[k] \/ file'[k].form = "none"
  BY <1>1, <1>3, DeleteCheckpointsFacts
<1>5. msg' \in [Keys -> Tabs \cup {None}] /\ \A k \in Keys : msg'[k] = msg[k] \/ msg'[k] = None
  BY <1>1 DEF Struct, TablesType
<1>6. MemoryType'
  BY <1>1 DEF Struct, MemoryType
<1>7. WorktreeType' /\ (ws'[Fork] = "free" => ws[Fork] = "free")
  BY <1>1, ConstantFacts DEF Struct, WorktreeType
<1>8. TaskType' /\ BoundsType' /\ next' = next
  BY <1>1 DEF Struct, TaskType, BoundsType, bounds, history
<1> QED
  BY <1>1, <1>2, <1>4, <1>5, <1>6, <1>7, <1>8, RowsGo

LEMMA RestoreStruct ==
    ASSUME Struct, (\E w \in Workspaces : RestoreClaim(w)) \/ RestoreDone \/ RestoreFails
    PROVE  Struct'
<1>1. CASE \E w \in Workspaces : RestoreClaim(w)
  <2>1. PICK w \in Workspaces : RestoreClaim(w)
    BY <1>1
  <2>2. /\ op = NoOp /\ op' = [NoOp EXCEPT !.kind = "restore", !.pc = "git", !.ws = w]
        /\ left > 0 /\ left' = left - 1 /\ ws' = [ws EXCEPT ![w] = "active"]
        /\ UNCHANGED <<tables, wt, memory, task, maint, next, upto, history>>
    BY <2>1 DEF RestoreClaim, Begin
  <2>3. op' \in OpRecords /\ op'.kind = "restore" /\ op'.pc = "git" /\ op'.ws = w
    BY <2>2, NoOpFacts DEF NoOp, OpRecords, OpKinds, OpPcs
  <2>4. OpType' /\ OpShape' /\ op' # op
    BY <2>2, <2>3, NoOpFacts DEF OpType, OpShape
  <2>5. WorktreeType' /\ (ws'[Fork] = "free" => ws[Fork] = "free")
    BY <2>2, ConstantFacts DEF Struct, WorktreeType
  <2>6. MemoryType' /\ BoundsType'
    BY <2>2, CheckpointsAssumption DEF Struct, MemoryType, BoundsType, memory, history
  <2> QED
    BY <2>2, <2>3, <2>4, <2>5, <2>6, QuietStep
<1>2. CASE RestoreDone \/ RestoreFails
  <2>1. /\ op.kind = "restore" /\ op.ws \in Workspaces /\ op' = NoOp
        /\ UNCHANGED <<tables, memory, task, maint, bounds, history>>
        /\ \/ wt' = [wt EXCEPT ![op.ws] = Base] /\ ws' = ws
           \/ wt' = wt /\ ws' = [ws EXCEPT ![op.ws] = "archived"]
    BY <1>2 DEF RestoreDone, RestoreFails, Struct, OpShape
  <2>2. OpType' /\ OpShape' /\ op'.kind # "fork" /\ op' # op
    BY <2>1, OpEnds, NoOpFacts
  <2>3. WorktreeType' /\ (ws'[Fork] = "free" => ws[Fork] = "free")
    BY <2>1, ConstantFacts DEF Struct, WorktreeType
  <2>4. MemoryType' /\ BoundsType' /\ next' = next
    BY <2>1 DEF Struct, MemoryType, BoundsType, memory, bounds, history
  <2> QED
    BY <2>1, <2>2, <2>3, <2>4, QuietStep
<1> QED
  BY <1>1, <1>2

-----------------------------------------------------------------------------
(* Maintenance and restarts. *)

LEMMA BackfillReadStruct ==
    ASSUME Struct, BackfillRead
    PROVE  Struct'
<1> DEFINE rows == {k \in Keys : file[k].form = "inline"}
           pairs == {<<k, file[k].v>> : k \in rows}
<1>1. /\ maint' = IF rows = {} THEN [maint EXCEPT !.pc = "sweep"]
                  ELSE [maint EXCEPT !.pc = "write", !.rows = pairs]
      /\ UNCHANGED <<tables, ws, wt, memory, task, op, bounds, history>>
  BY DEF BackfillRead
<1>2. pairs \in SUBSET (Keys \X Versions) /\ \A r \in pairs : file[r[1]].v = r[2]
  BY DEF Struct, TablesType, Files
<1> HIDE DEF pairs, rows
<1>3. MaintType'
  BY <1>1, <1>2 DEF Struct, MaintType
<1>4. maint'.pc = "write" => maint'.rows = pairs
  BY <1>1 DEF Struct, MaintType
<1>5. BackfillRows'
  BY <1>1, <1>2, <1>4 DEF BackfillRows, tables
<1>6. /\ msg' \in [Keys -> Tabs \cup {None}] /\ CpType' /\ file' \in [Keys -> Files] /\ RefsHaveBlobs'
      /\ WorktreeType' /\ BoundsType' /\ next' = next /\ MemoryType' /\ TaskType' /\ OpType' /\ OpShape'
      /\ msg' = msg /\ cp' = cp /\ file' = file /\ blobs' = blobs /\ task' = task /\ op' = op /\ ws' = ws
  BY <1>1 DEF Struct, TablesType, CpType, RefsHaveBlobs, WorktreeType, BoundsType, MemoryType, TaskType,
     OpType, OpShape, tables, bounds, memory, history
<1> QED
  BY <1>3, <1>5, <1>6, RowsGo

LEMMA SweepReadStruct ==
    ASSUME Struct, SweepRead
    PROVE  Struct'
<1> DEFINE ids == {w \in Workspaces : ws[w] = "archived"}
<1>1. /\ maint' = IF ids = {} THEN [maint EXCEPT !.pc = "done"]
                  ELSE [maint EXCEPT !.pc = "purge", !.ids = ids]
      /\ UNCHANGED <<tables, ws, wt, memory, task, op, bounds, history>>
  BY DEF SweepRead
<1>2. ids \in SUBSET Workspaces
  OBVIOUS
<1> HIDE DEF ids
<1>3. MaintType' /\ maint'.pc # "write"
  BY <1>1, <1>2 DEF Struct, MaintType
<1>4. BackfillRows'
  BY <1>3 DEF BackfillRows
<1>5. /\ msg' \in [Keys -> Tabs \cup {None}] /\ CpType' /\ file' \in [Keys -> Files] /\ RefsHaveBlobs'
      /\ WorktreeType' /\ BoundsType' /\ next' = next /\ MemoryType' /\ TaskType' /\ OpType' /\ OpShape'
      /\ msg' = msg /\ cp' = cp /\ file' = file /\ blobs' = blobs /\ task' = task /\ op' = op /\ ws' = ws
  BY <1>1 DEF Struct, TablesType, CpType, RefsHaveBlobs, WorktreeType, BoundsType, MemoryType, TaskType,
     OpType, OpShape, tables, bounds, memory, history
<1> QED
  BY <1>3, <1>4, <1>5, RowsGo

LEMMA ArchivedSweepStruct ==
    ASSUME Struct, ArchivedSweep
    PROVE  Struct'
<1> DEFINE gone == {k \in Keys : k[1] \in maint.ids}
<1>1. /\ DeleteFiles(gone) /\ maint' = [maint EXCEPT !.pc = "done", !.ids = {}]
      /\ UNCHANGED <<msg, cp, ws, wt, memory, task, op, bounds, history>>
  BY DEF ArchivedSweep
<1>2. gone \in SUBSET Keys
  OBVIOUS
<1> HIDE DEF gone
<1>3. /\ file' \in [Keys -> Files] /\ blobs' \subseteq blobs /\ RefsHaveBlobs'
      /\ \A k \in Keys : file'[k] = file[k] \/ file'[k] = NoFile
  BY <1>1, <1>2, DeleteFilesFacts
<1>4. \A k \in Keys : file'[k] = file[k] \/ file'[k].form = "none"
  BY <1>3 DEF NoFile
<1>5. MaintType' /\ BackfillRows'
  BY <1>1 DEF Struct, MaintType, BackfillRows
<1>6. /\ msg' \in [Keys -> Tabs \cup {None}] /\ CpType'
      /\ WorktreeType' /\ BoundsType' /\ next' = next /\ MemoryType' /\ TaskType' /\ OpType' /\ OpShape'
  BY <1>1 DEF Struct, TablesType, CpType, WorktreeType, BoundsType, MemoryType, TaskType,
     OpType, OpShape, bounds, memory, history
<1> QED
  BY <1>1, <1>3, <1>4, <1>5, <1>6, RowsGo

LEMMA RestartStruct ==
    ASSUME Struct, Restart
    PROVE  Struct'
<1>1. /\ left > 0 /\ left' = left - 1 /\ task' = [n \in Turns |-> NoTask] /\ op' = NoOp
      /\ prelude' = [t \in Tabs |-> {}]
      /\ maint' = IF maint.pc = "done" THEN maint
                  ELSE [pc |-> "backfill", rows |-> {}, ids |-> {}]
      /\ raced' = IF op.kind \in {"rollback", "clear"} THEN raced \cup {op.tab} ELSE raced
      /\ UNCHANGED <<tables, ws, wt, next, upto>>
  BY DEF Restart
<1>2. OpType' /\ OpShape' /\ op'.kind # "fork"
  BY <1>1, OpEnds, NoOpFacts
<1>3. MemoryType' /\ BoundsType'
  <2>1. PICK unsaved \in SUBSET {n \in Turns : task[n].pc = "run"} :
          /\ mem' = [t \in Tabs |-> mem[t] \ {n \in unsaved : task[n].tab = t}]
          /\ forgot' = forgot \cup {t \in Tabs : prelude[t] # {} \/ Sending(t) # {}}
                              \cup {task[n].tab : n \in unsaved}
    BY DEF Restart
  <2>2. \A n \in unsaved : task[n].tab \in Tabs
    BY <2>1, TaskFacts
  <2>3. forgot' \subseteq Tabs
    BY <2>1, <2>2 DEF Struct, BoundsType
  <2>4. mem' \in [Tabs -> SUBSET Turns]
    BY <2>1 DEF Struct, MemoryType
  <2>5. raced' \subseteq Tabs
    BY <1>1 DEF Struct, OpShape, BoundsType
  <2> QED
    BY <1>1, <2>3, <2>4, <2>5, CheckpointsAssumption DEF Struct, MemoryType, BoundsType
<1>4. maint' = maint \/ (MaintType' /\ BackfillRows')
  BY <1>1 DEF MaintType, BackfillRows
<1>5. TaskType' /\ \A n \in Turns : task'[n] = NoTask
  BY <1>1, NoTaskFacts DEF TaskType
<1>6. /\ msg' \in [Keys -> Tabs \cup {None}] /\ CpType' /\ file' \in [Keys -> Files] /\ RefsHaveBlobs'
      /\ WorktreeType' /\ next' = next
      /\ msg' = msg /\ cp' = cp /\ file' = file /\ blobs' = blobs /\ ws' = ws
  BY <1>1 DEF Struct, TablesType, CpType, RefsHaveBlobs, WorktreeType, tables
<1> QED
  BY <1>2, <1>3, <1>4, <1>5, <1>6, RowsGo

-----------------------------------------------------------------------------
(* The steps that write files. *)

(* A collection keeps every blob that some row references.                     *)
LEMMA GcKeeps ==
    ASSUME NEW f \in [Keys -> Files], NEW bs, \A k \in Keys : f[k].form = "ref" => f[k].v \in bs
    PROVE  /\ GcOrphanBlobs(f, bs) \subseteq bs
           /\ \A k \in Keys : f[k].form = "ref" => f[k].v \in GcOrphanBlobs(f, bs)
<1>1. \A k \in Keys : f[k].form = "ref" => f[k] = [form |-> "ref", v |-> f[k].v]
  BY DEF Files
<1> QED
  BY <1>1 DEF GcOrphanBlobs, Unreferenced

LEMMA SaveSnapshotFacts ==
    ASSUME Struct, NEW n \in Turns, SaveSnapshot(n)
    PROVE  LET w == WsOf(task[n].tab)  k == <<w, n>> IN
           /\ task[n].pc = "save" /\ task[n].tab \in Tabs /\ w \in Workspaces /\ k \in Keys
           /\ cp[k].tab # None /\ file[k].form = "none"
           /\ file' \in [Keys -> Files] /\ blobs' \subseteq Versions /\ RefsHaveBlobs'
           /\ file'[k].form = "none" \/ file'[k] = [form |-> "ref", v |-> task[n].v]
           /\ \A j \in Keys : j # k => file'[j] = file[j] \/ file'[j].form = "none"
           /\ \A j \in Keys : j[1] # w => file'[j] = file[j]
           /\ Cardinality({j \in KeysOf(w) : file'[j].form # "none"}) <= Keep
           /\ task' = [task EXCEPT ![n] = NoTask]
           /\ UNCHANGED <<msg, cp, ws, wt, memory, op, maint, bounds, history>>
<1> DEFINE w == WsOf(task[n].tab)
           k == <<w, n>>
           v == task[n].v
           f == [file EXCEPT ![k] = [form |-> "ref", v |-> v]]
           bs == blobs \cup {v}
<1>1. /\ task[n].pc = "save" /\ task[n].tab \in Tabs /\ w \in Workspaces /\ k \in Keys
      /\ cp[k].tab # None /\ file[k].form = "none" /\ v \in Versions
      /\ task' = [task EXCEPT ![n] = NoTask]
      /\ UNCHANGED <<msg, cp, ws, wt, memory, op, maint, bounds, history>>
  BY TaskFacts DEF SaveSnapshot, TaskRecords
<1> HIDE DEF k, w, v
<1>2. /\ f \in [Keys -> Files] /\ f[k] = [form |-> "ref", v |-> v]
      /\ \A j \in Keys : j # k => f[j] = file[j]
      /\ bs \subseteq Versions
      /\ \A j \in Keys : f[j].form = "ref" => f[j].v \in bs
  BY <1>1 DEF Struct, TablesType, Files, RefsHaveBlobs
<1>3. PICK kept \in SUBSET KeysOf(w) :
        /\ Retained(w, f, kept)
        /\ LET g == [j \in Keys |-> IF j[1] = w /\ j \notin kept THEN NoFile ELSE f[j]]
           IN  /\ file' = g
               /\ blobs' = IF g = f THEN bs ELSE GcOrphanBlobs(g, bs)
  BY DEF SaveSnapshot, k, w, v
<1> DEFINE held == {j \in KeysOf(w) : f[j].form # "none"}
<1>4. /\ kept \subseteq held
      /\ Cardinality(kept) = IF Cardinality(held) < Keep THEN Cardinality(held) ELSE Keep
  BY <1>3 DEF Retained
<1> HIDE DEF f
<1>5. /\ file' = [j \in Keys |-> IF j[1] = w /\ j \notin kept THEN NoFile ELSE f[j]]
      /\ blobs' = bs \/ blobs' = GcOrphanBlobs(file', bs)
  BY <1>3
<1>6. /\ file' \in [Keys -> Files]
      /\ \A j \in Keys : file'[j] = IF j[1] = w /\ j \notin kept THEN NoFile ELSE f[j]
  BY <1>2, <1>5, ConstantFacts
<1>7. NoFile.form = "none"
  BY DEF NoFile
<1>8. \A j \in Keys : file'[j].form = "ref" => file'[j].v \in bs
  BY <1>2, <1>6, <1>7
<1>9. RefsHaveBlobs' /\ blobs' \subseteq Versions
  <2>1. /\ GcOrphanBlobs(file', bs) \subseteq bs
        /\ \A j \in Keys : file'[j].form = "ref" => file'[j].v \in GcOrphanBlobs(file', bs)
    <3> HIDE DEF bs
    <3> QED
      BY <1>6, <1>8, GcKeeps
  <2> QED
    BY <1>2, <1>5, <1>8, <2>1 DEF RefsHaveBlobs
<1>10. {j \in KeysOf(w) : file'[j].form # "none"} = kept
  BY <1>3, <1>4, <1>6, <1>7 DEF KeysOf
<1>11. Cardinality(kept) <= Keep
  <2>1. IsFiniteSet(held)
    BY KeysFinite DEF KeysOf
  <2>2. Cardinality(held) \in Nat
    BY <2>1, FS_CardinalityType
  <2> HIDE DEF held
  <2> QED
    BY <1>4, <2>2, ConstantFacts
<1>12. /\ file'[k].form = "none" \/ file'[k] = [form |-> "ref", v |-> v]
       /\ \A j \in Keys : j # k => file'[j] = file[j] \/ file'[j].form = "none"
       /\ \A j \in Keys : j[1] # w => file'[j] = file[j]
  BY <1>1, <1>2, <1>6, <1>7, KeyFacts DEF k
<1> QED
  BY <1>1, <1>6, <1>9, <1>10, <1>11, <1>12 DEF k, w, v

LEMMA SaveSnapshotStruct ==
    ASSUME Struct, NEW n \in Turns, SaveSnapshot(n)
    PROVE  Struct'
<1> DEFINE t == task[n].tab
           w == WsOf(t)
           k == <<w, n>>
<1>1. /\ task[n].pc = "save" /\ t \in Tabs /\ w \in Workspaces /\ k \in Keys
      /\ cp[k].tab # None /\ file[k].form = "none"
      /\ file' \in [Keys -> Files] /\ blobs' \subseteq Versions /\ RefsHaveBlobs'
      /\ file'[k].form \in {"none", "ref"}
      /\ \A j \in Keys : j # k => file'[j] = file[j] \/ file'[j].form = "none"
      /\ \A j \in Keys : j[1] # w => file'[j] = file[j]
  <2>1. file'[k].form = "none" \/ file'[k] = [form |-> "ref", v |-> task[n].v]
    BY SaveSnapshotFacts
  <2>2. file'[k].form \in {"none", "ref"}
    BY <2>1
  <2> QED
    BY <2>2, SaveSnapshotFacts
<1>2. /\ task' = [task EXCEPT ![n] = NoTask]
      /\ UNCHANGED <<msg, cp, ws, wt, memory, op, maint, bounds, history>>
  BY SaveSnapshotFacts
<1>3. TablesType'
  BY <1>1, <1>2 DEF Struct, TablesType, CpType
<1>4. TaskType' /\ task'[n] = NoTask /\ \A m \in Turns : m # n => task'[m] = task[m]
  BY <1>2, NoTaskFacts DEF Struct, TaskType
<1>5. BackfillRows'
  <2>1. \A r \in maint.rows : r[1] \in Keys
    BY DEF Struct, MaintType
  <2>2. \A r \in maint.rows : file'[r[1]].form = "inline" => file'[r[1]] = file[r[1]]
    BY <1>1, <2>1
  <2> QED
    BY <1>2, <2>2 DEF Struct, BackfillRows
<1>6. TurnKeys'
  <2>1. \A m \in Turns, u \in Workspaces : m # n => <<u, m>> \in Keys /\ <<u, m>> # k
    BY KeyFacts
  <2> DEFINE T(m) ==
          /\ task'[m].tab = None <=> task'[m].pc = "none"
          /\ task'[m].tab # None =>
             /\ m < next /\ file'[<<WsOf(task'[m].tab), m>>].form = "none"
             /\ cp[<<Source, m>>].tab # None => task'[m].tab # "f"
          /\ task'[m].pc \in Unrecorded => cp[<<WsOf(task'[m].tab), m>>].tab = None
  <2>2. ASSUME NEW m \in Turns, m # n PROVE T(m)
    <3>1. task'[m] = task[m]
      BY <1>4, <2>2
    <3>2. CASE task[m].pc = "none"
      BY <3>1, <3>2 DEF Struct, TurnKeys
    <3>3. CASE task[m].pc # "none"
      <4>1. WsOf(task[m].tab) \in Workspaces /\ file[<<WsOf(task[m].tab), m>>].form = "none"
        BY <3>3, TaskFacts
      <4>2. file'[<<WsOf(task[m].tab), m>>].form = "none"
        BY <1>1, <2>1, <2>2, <4>1
      <4> QED
        BY <3>1, <4>2 DEF Struct, TurnKeys
    <3> QED
      BY <3>2, <3>3
  <2>3. T(n)
    BY <1>4, NoTaskFacts
  <2> QED
    BY <1>2, <2>2, <2>3 DEF Struct, TurnKeys, bounds
<1>7. ForkFresh'
  <2>1. CASE t = "f"
    <3>1. ws[Fork] # "free" /\ op.kind # "fork"
      BY <2>1 DEF Struct, ForkFresh
    <3> QED
      BY <1>2, <3>1 DEF ForkFresh
  <2>2. CASE t # "f"
    <3>1. \A m \in Turns : file'[<<Fork, m>>] = file[<<Fork, m>>]
      BY <1>1, <2>2, KeyFacts, ConstantFacts DEF WsOf
    <3>2. \A m \in Turns : task'[m].tab = "f" => task[m].tab = "f"
      BY <1>4, NoTaskFacts, ConstantFacts
    <3>3. \A e \in op.list : e[1] \in Turns
      BY DEF Struct, OpType, OpRecords
    <3> QED
      BY <1>2, <3>1, <3>2, <3>3 DEF Struct, ForkFresh, ForkRows
  <2> QED
    BY <2>1, <2>2
<1> QED
  BY <1>1, <1>2, <1>3, <1>4, <1>5, <1>6, <1>7 DEF Struct, WorktreeType, MemoryType, OpType, MaintType,
     BoundsType, OpShape, memory, bounds, history

LEMMA BackfillWriteFacts ==
    ASSUME Struct, BackfillWrite
    PROVE  /\ file' \in [Keys -> Files] /\ blobs' \subseteq Versions /\ RefsHaveBlobs'
           /\ \A k \in Keys : /\ file'[k].v = file[k].v
                              /\ file'[k].form = "none" <=> file[k].form = "none"
           /\ maint' = [maint EXCEPT !.pc = "sweep", !.rows = {}]
           /\ UNCHANGED <<msg, cp, ws, wt, memory, task, op, bounds, history>>
<1>1. /\ maint.pc = "write" /\ blobs' = blobs \cup {r[2] : r \in maint.rows}
      /\ file' = [k \in Keys |->
                 IF file[k].form # "none" /\ \E r \in maint.rows : r[1] = k
                 THEN [form |-> "ref", v |-> file[k].v] ELSE file[k]]
      /\ maint' = [maint EXCEPT !.pc = "sweep", !.rows = {}]
      /\ UNCHANGED <<msg, cp, ws, wt, memory, task, op, bounds, history>>
  BY DEF BackfillWrite
<1>2. \A r \in maint.rows : r[1] \in Keys /\ r[2] \in Versions
  BY DEF Struct, MaintType
<1>3. \A k \in Keys : file[k] \in Files /\ file[k].form \in {"none", "inline", "ref"} /\ file[k].v \in Versions
  BY DEF Struct, TablesType, Files
<1>4. file' \in [Keys -> Files]
  BY <1>1, <1>3 DEF Files
<1>5. \A k \in Keys : file'[k].v = file[k].v /\ (file'[k].form = "none" <=> file[k].form = "none")
  BY <1>1, <1>3
<1>6. blobs' \subseteq Versions
  BY <1>1, <1>2 DEF Struct, TablesType
<1>7. ASSUME NEW k \in Keys, file'[k].form = "ref" PROVE file'[k].v \in blobs'
  <2>1. CASE file[k].form = "ref"
    BY <1>1, <1>5, <2>1 DEF Struct, RefsHaveBlobs
  <2>2. CASE file[k].form # "ref"
    <3>1. PICK r \in maint.rows : r[1] = k /\ file[k].form = "inline"
      BY <1>1, <1>3, <1>7, <2>2
    <3>2. file[k].v = r[2]
      BY <1>1, <3>1 DEF Struct, BackfillRows
    <3> QED
      BY <1>1, <1>5, <3>1, <3>2
  <2> QED
    BY <2>1, <2>2
<1>8. RefsHaveBlobs'
  BY <1>7 DEF RefsHaveBlobs
<1> QED
  BY <1>1, <1>4, <1>5, <1>6, <1>8

LEMMA BackfillWriteStruct ==
    ASSUME Struct, BackfillWrite
    PROVE  Struct'
<1>1. /\ file' \in [Keys -> Files] /\ blobs' \subseteq Versions /\ RefsHaveBlobs'
      /\ \A k \in Keys : file'[k].form = "none" <=> file[k].form = "none"
      /\ maint' = [maint EXCEPT !.pc = "sweep", !.rows = {}]
      /\ UNCHANGED <<msg, cp, ws, wt, memory, task, op, bounds, history>>
  BY BackfillWriteFacts
<1>2. TablesType'
  BY <1>1 DEF Struct, TablesType, CpType
<1>3. MaintType' /\ BackfillRows'
  BY <1>1 DEF Struct, MaintType, BackfillRows
<1>4. \A n \in Turns : task[n].tab # None => <<WsOf(task[n].tab), n>> \in Keys
  BY TaskFacts DEF Struct, TurnKeys
<1>5. TurnKeys'
  BY <1>1, <1>4 DEF Struct, TurnKeys, bounds
<1>6. ForkFresh'
  <2>1. \A m \in Turns : ForkRows(m)' <=> ForkRows(m)
    BY <1>1, KeyFacts, ConstantFacts DEF ForkRows
  <2>2. \A e \in op.list : e[1] \in Turns
    BY DEF Struct, OpType, OpRecords
  <2>3. op.cur \in Turns => <<Fork, op.cur>> \in Keys
    BY KeyFacts, ConstantFacts
  <2> QED
    BY <1>1, <2>1, <2>2, <2>3 DEF Struct, ForkFresh
<1> QED
  BY <1>1, <1>2, <1>3, <1>5, <1>6 DEF Struct, WorktreeType, MemoryType, OpType, TaskType,
     BoundsType, OpShape, memory, bounds, history

-----------------------------------------------------------------------------
(* Fork. *)

LEMMA ForkBeginStruct ==
    ASSUME Struct, NEW n \in Turns, ForkBegin(n)
    PROVE  Struct'
<1> DEFINE k == <<Source, n>>
           o == [NoOp EXCEPT !.kind = "fork", !.pc = "files", !.tab = cp[k].tab, !.ws = Fork,
                          !.n = n, !.idx = cp[k].idx, !.has = Held(k)]
<1>1. k \in Keys
  BY KeyFacts, ConstantFacts
<1>2. cp[k].tab \in Tabs /\ cp[k].idx \in Nat /\ n \in 0 .. N
  BY <1>1 DEF ForkBegin, Struct, TablesType, CpType, Turns
<1>3. /\ op = NoOp /\ op' = o /\ left > 0 /\ left' = left - 1 /\ ws[Fork] = "free"
      /\ wt' = [wt EXCEPT ![Fork] = Base]
      /\ UNCHANGED <<tables, ws, memory, task, maint, next, upto, history>>
  BY DEF ForkBegin, Begin
<1>4. o \in OpRecords
  BY <1>1, <1>2, NoOpFacts, ConstantFacts DEF OpRecords, OpKinds, OpPcs, NoOp
<1>5. o.kind = "fork" /\ o.pc = "files" /\ o.tab = cp[k].tab /\ o.ws = Fork /\ o.n = n /\ o.list = {}
  BY DEF NoOp
<1> HIDE DEF o, k
<1>6. OpType' /\ OpShape' /\ op' # op
  BY <1>2, <1>3, <1>4, <1>5, NoOpFacts DEF OpType, OpShape
<1>7. ForkFresh'
  BY <1>3, <1>5 DEF Struct, ForkFresh, ForkRows, tables
<1>8. WorktreeType' /\ MemoryType' /\ BoundsType'
  BY <1>3, ConstantFacts, CheckpointsAssumption
     DEF Struct, WorktreeType, MemoryType, BoundsType, memory, history
<1> QED
  BY <1>3, <1>6, <1>7, <1>8, QuietStep

LEMMA ForkFilesStruct ==
    ASSUME Struct, ForkFiles
    PROVE  Struct'
<1>1. /\ op.kind = "fork" /\ op.pc = "files" /\ op.n \in Turns
      /\ op' = [op EXCEPT !.pc = "row"] /\ "row" \in OpPcs
      /\ wt' = wt \/ wt' = [wt EXCEPT ![Fork] = RestoreSnapshot(<<Source, op.n>>)]
      /\ UNCHANGED <<tables, ws, memory, task, maint, bounds, history>>
  BY DEF ForkFiles, OpPcs, Struct, OpShape
<1>2. OpType' /\ OpShape' /\ op' # op
  BY <1>1, OpMoves DEF Struct, OpShape
<1>3. ForkFresh'
  <2>1. op'.pc = "row" /\ op'.kind = "fork" /\ op'.list = op.list
    BY <1>1, OpMoves
  <2> QED
    BY <1>1, <2>1 DEF Struct, ForkFresh, ForkRows, tables
<1>4. WorktreeType'
  <2>1. <<Source, op.n>> \in Keys
    BY <1>1, KeyFacts, ConstantFacts
  <2>2. RestoreSnapshot(<<Source, op.n>>) \in Versions \cup {Empty}
    BY <2>1, ContentIsVersion DEF RestoreSnapshot
  <2> QED
    BY <1>1, <2>2, ConstantFacts DEF Struct, WorktreeType
<1>5. MemoryType' /\ BoundsType' /\ next' = next
  BY <1>1 DEF Struct, MemoryType, BoundsType, memory, bounds, history
<1> QED
  BY <1>1, <1>2, <1>3, <1>4, <1>5, QuietStep

LEMMA ForkMessagesStruct ==
    ASSUME Struct, ForkMessages
    PROVE  Struct'
<1>1. /\ op.kind = "fork" /\ op.pc = "row" /\ op.n \in Turns
      /\ op' = [op EXCEPT !.pc = "list"] /\ "list" \in OpPcs
      /\ ws' = [ws EXCEPT ![Fork] = "active"]
      /\ msg' = [k \in Keys |->
                IF k[1] = Fork /\ k[2] <= upto[op.n] /\ msg[<<Source, k[2]>>] # None
                   /\ msg[<<Source, op.n>>] # None
                THEN "f" ELSE msg[k]]
      /\ UNCHANGED <<cp, file, blobs, wt, memory, task, maint, bounds, history>>
  BY DEF ForkMessages, OpPcs, Struct, OpShape
<1>2. OpType' /\ OpShape' /\ op'.pc = "list" /\ op'.kind = "fork" /\ op'.list = op.list
  BY <1>1, OpMoves DEF Struct, OpShape
<1>3. ws[Fork] = "free" /\ \A n \in Turns : task[n].tab # "f" /\ ForkRows(n)
  BY <1>1 DEF Struct, ForkFresh
<1>4. WorktreeType' /\ ws'[Fork] = "active"
  BY <1>1, ConstantFacts DEF Struct, WorktreeType
<1>5. ForkFresh'
  BY <1>1, <1>2, <1>3, <1>4 DEF Struct, ForkFresh, ForkRows
<1>6. TablesType'
  BY <1>1, ConstantFacts DEF Struct, TablesType, CpType
<1>7. TurnKeys'
  <2>1. \A k \in Keys : k[2] >= next => msg[<<Source, k[2]>>] = None
    BY KeyFacts, ConstantFacts DEF Struct, TurnKeys
  <2>2. \A k \in Keys : k[2] >= next => msg'[k] = None
    BY <1>1, <2>1 DEF Struct, TurnKeys
  <2> QED
    BY <1>1, <2>2 DEF Struct, TurnKeys, bounds
<1> QED
  BY <1>1, <1>2, <1>4, <1>5, <1>6, <1>7 DEF Struct, MemoryType, MaintType, TaskType,
     BoundsType, RefsHaveBlobs, BackfillRows, memory, bounds, history

LEMMA ForkListStruct ==
    ASSUME Struct, ForkList
    PROVE  Struct'
<1> DEFINE picked == {m \in Turns : /\ cp[<<Source, m>>].tab # None
                                    /\ cp[<<Source, m>>].idx <= op.idx}
           list == {<<m, Held(<<Source, m>>)>> : m \in picked}
<1>1. /\ op.kind = "fork" /\ op.pc = "list"
      /\ op' = [op EXCEPT !.pc = "copy", !.list = list]
      /\ UNCHANGED <<tables, ws, wt, memory, task, maint, bounds, history>>
  BY DEF ForkList
<1>2. list \in SUBSET (Turns \X BOOLEAN) /\ \A d, e \in list : d[1] = e[1] => d = e
  <2> DEFINE b == [m \in Turns |-> Held(<<Source, m>>)]
  <2>1. b \in [Turns -> BOOLEAN] /\ \A m \in Turns : b[m] = Held(<<Source, m>>)
    OBVIOUS
  <2>2. \A e \in list : \E m \in Turns : e = <<m, Held(<<Source, m>>)>>
    OBVIOUS
  <2> HIDE DEF list, b
  <2>3. \A e \in list : \E m \in Turns : e = <<m, b[m]>>
    BY <2>1, <2>2, Zenon
  <2>4. \A e \in list : e[1] \in Turns /\ e = <<e[1], b[e[1]]>>
    BY <2>3
  <2> QED
    BY <2>1, <2>4
<1> HIDE DEF list
<1>3. /\ op' \in OpRecords /\ op'.kind = "fork" /\ op'.pc = "copy" /\ op'.list = list
      /\ op'.tab = op.tab /\ op'.ws = op.ws /\ op'.n = op.n
  BY <1>1, <1>2 DEF Struct, OpType, OpRecords, OpPcs
<1>4. OpType' /\ OpShape' /\ op' # op
  BY <1>1, <1>3 DEF Struct, OpType, OpShape
<1>5. ForkFresh'
  <2>1. \A e \in list : e[1] \in Turns
    BY <1>2
  <2> QED
    BY <1>1, <1>2, <1>3, <2>1 DEF Struct, ForkFresh, ForkRows, tables
<1>6. WorktreeType' /\ MemoryType' /\ BoundsType' /\ next' = next
  BY <1>1 DEF Struct, WorktreeType, MemoryType, BoundsType, memory, bounds, history
<1> QED
  BY <1>1, <1>4, <1>5, <1>6, QuietStep

LEMMA ForkFailedStruct ==
    ASSUME Struct, op.kind = "fork", ForkFailed,
           UNCHANGED <<tables, ws, memory, task, maint, bounds, history>>
    PROVE  Struct'
<1>1. OpType' /\ OpShape' /\ op'.kind # "fork" /\ op' # op
  BY OpEnds, NoOpFacts DEF ForkFailed
<1>2. WorktreeType' /\ MemoryType' /\ BoundsType' /\ next' = next
  BY ConstantFacts DEF ForkFailed, Struct, WorktreeType, MemoryType, BoundsType, memory, bounds, history
<1> QED
  BY <1>1, <1>2, QuietStep

(* InconsistentHistory. *)
LEMMA ForkCheckpointFails ==
    ASSUME Struct, NEW e \in op.list, ForkCheckpoint(e), op' = NoOp
    PROVE  op.kind = "fork" /\ ForkFailed /\ UNCHANGED <<tables, ws, memory, task, maint, bounds, history>>
<1>1. op.kind = "fork" /\ op.pc = "copy" /\ UNCHANGED <<msg, file, blobs, ws, memory, task, maint, bounds, history>>
  BY DEF ForkCheckpoint
<1> DEFINE o == [op EXCEPT !.pc = "insert", !.read = file[<<Source, e[1]>>], !.list = @ \ {e}, !.cur = e[1]]
<1>2. o.kind = "fork" /\ [op EXCEPT !.list = @ \ {e}].kind = "fork"
  BY <1>1 DEF Struct, OpType, OpRecords
<1>3. op' # o /\ op' # [op EXCEPT !.list = @ \ {e}]
  BY <1>2, NoOpFacts
<1>4. ForkFailed /\ UNCHANGED cp
  BY <1>3 DEF ForkCheckpoint
<1> QED
  BY <1>1, <1>4 DEF tables

LEMMA ForkCheckpointFacts ==
    ASSUME Struct, NEW e \in op.list, ForkCheckpoint(e), op' # NoOp
    PROVE  /\ op.kind = "fork" /\ op.pc = "copy" /\ e[1] \in Turns /\ e[1] < next /\ ws[Fork] # "free"
           /\ <<Source, e[1]>> \in Keys /\ <<Fork, e[1]>> \in Keys
           /\ ForkRows(e[1])
           /\ CpType' /\ cp'[<<Fork, e[1]>>].tab = "f"
           /\ \A j \in Keys : j # <<Fork, e[1]>> => cp'[j] = cp[j]
           /\ OpType' /\ op'.kind = "fork" /\ op'.tab = op.tab /\ op'.ws = op.ws /\ op'.n = op.n
           /\ op'.list = op.list \ {e}
           /\ \/ op'.pc = "copy"
              \/ /\ op'.pc = "insert" /\ op'.cur = e[1] /\ e[2] /\ Held(<<Source, e[1]>>)
                 /\ op'.read = file[<<Source, e[1]>>]
           /\ UNCHANGED <<msg, file, blobs, ws, wt, memory, task, maint, bounds, history>>
<1> DEFINE from == <<Source, e[1]>>
           to == <<Fork, e[1]>>
           row == [cp[from] EXCEPT !.tab = "f"]
<1>1. /\ op.kind = "fork" /\ op.pc = "copy" /\ Stamp(to, row) /\ msg[to] # None
      /\ op' = IF e[2] /\ Held(from)
               THEN [op EXCEPT !.pc = "insert", !.read = file[from], !.list = @ \ {e}, !.cur = e[1]]
               ELSE [op EXCEPT !.list = @ \ {e}]
      /\ UNCHANGED <<msg, file, blobs, ws, wt, memory, task, maint, bounds, history>>
  BY DEF ForkCheckpoint, ForkFailed
<1>2. e \in Turns \X BOOLEAN
  BY DEF Struct, OpType, OpRecords
<1>3. e[1] \in Turns /\ e[1] \in 0 .. N
  BY <1>2 DEF Turns
<1>4. from \in Keys /\ to \in Keys /\ to[2] = e[1]
  BY <1>3, KeyFacts, ConstantFacts
<1>5. row \in [tab: Tabs \cup {None}, idx: Nat, at: Nat] /\ row.tab = "f" /\ CpType
  <2>1. cp[from] \in [tab: Tabs \cup {None}, idx: Nat, at: Nat]
    BY <1>4 DEF Struct, TablesType, CpType
  <2> QED
    BY <2>1, ConstantFacts DEF Struct, TablesType
<1>6. CpType' /\ cp'[to].tab = "f" /\ \A j \in Keys : j # to => cp'[j] = cp[j]
  <2> HIDE DEF row, to
  <2> QED
    BY <1>1, <1>4, <1>5, StampType
<1>7. e[1] < next
  <2>1. ~ to[2] >= next
    BY <1>1, <1>4 DEF Struct, TurnKeys
  <2> QED
    BY <1>3, <1>4, <2>1 DEF Struct, BoundsType, Turns
<1>8. ForkRows(e[1]) /\ ws[Fork] # "free"
  BY <1>1, <1>3 DEF Struct, ForkFresh
<1>9. file[from] \in Files
  BY <1>4 DEF Struct, TablesType
<1> HIDE DEF from, to
<1>10. /\ OpType' /\ op'.kind = "fork" /\ op'.tab = op.tab /\ op'.ws = op.ws /\ op'.n = op.n
       /\ op'.list = op.list \ {e}
       /\ \/ op'.pc = "copy"
          \/ /\ op'.pc = "insert" /\ op'.cur = e[1] /\ e[2] /\ Held(from)
             /\ op'.read = file[from]
  <2>1. op \in OpRecords
    BY DEF Struct, OpType
  <2>2. CASE e[2] /\ Held(from)
    <3>1. op' = [op EXCEPT !.pc = "insert", !.read = file[from], !.list = @ \ {e}, !.cur = e[1]]
      BY <1>1, <2>2
    <3>2. op' \in OpRecords
      BY <1>3, <1>9, <2>1, <3>1 DEF OpRecords, OpPcs
    <3>3. /\ op'.kind = op.kind /\ op'.tab = op.tab /\ op'.ws = op.ws /\ op'.n = op.n
          /\ op'.list = op.list \ {e} /\ op'.pc = "insert" /\ op'.cur = e[1] /\ op'.read = file[from]
      BY <2>1, <3>1 DEF OpRecords
    <3> QED
      BY <1>1, <2>2, <3>2, <3>3 DEF OpType
  <2>3. CASE ~ (e[2] /\ Held(from))
    <3>1. op' = [op EXCEPT !.list = @ \ {e}]
      BY <1>1, <2>3
    <3>2. op' \in OpRecords
      BY <2>1, <3>1 DEF OpRecords
    <3>3. /\ op'.kind = op.kind /\ op'.tab = op.tab /\ op'.ws = op.ws /\ op'.n = op.n
          /\ op'.list = op.list \ {e} /\ op'.pc = op.pc
      BY <2>1, <3>1 DEF OpRecords
    <3> QED
      BY <1>1, <3>2, <3>3 DEF OpType
  <2> QED
    BY <2>2, <2>3
<1> QED
  BY <1>1, <1>3, <1>4, <1>6, <1>7, <1>8, <1>10 DEF from, to

LEMMA ForkCheckpointStruct ==
    ASSUME Struct, NEW e \in op.list, ForkCheckpoint(e)
    PROVE  Struct'
<1> DEFINE to == <<Fork, e[1]>>
<1>1. CASE op' = NoOp
  <2>1. op.kind = "fork" /\ ForkFailed /\ UNCHANGED <<tables, ws, memory, task, maint, bounds, history>>
    BY <1>1, ForkCheckpointFails
  <2> QED
    BY <2>1, ForkFailedStruct
<1>2. CASE op' # NoOp
  <2>1. /\ op.kind = "fork" /\ op.pc = "copy" /\ e[1] \in Turns /\ e[1] < next /\ ws[Fork] # "free"
        /\ to \in Keys /\ ForkRows(e[1])
        /\ CpType' /\ cp'[to].tab = "f" /\ \A j \in Keys : j # to => cp'[j] = cp[j]
    BY <1>2, ForkCheckpointFacts
  <2>2. /\ OpType' /\ op'.kind = "fork" /\ op'.tab = op.tab /\ op'.ws = op.ws /\ op'.n = op.n
        /\ op'.list = op.list \ {e}
        /\ op'.pc = "copy" \/ (op'.pc = "insert" /\ op'.cur = e[1])
    BY <1>2, ForkCheckpointFacts
  <2>3. UNCHANGED <<msg, file, blobs, ws, wt, memory, task, maint, bounds, history>>
    BY <1>2, ForkCheckpointFacts
  <2>4. TablesType'
    BY <2>1, <2>3, ConstantFacts DEF Struct, TablesType
  <2>5. OpShape'
    BY <2>1, <2>2 DEF Struct, OpShape
  <2>6. \A m \in Turns : cp'[<<Source, m>>] = cp[<<Source, m>>]
    BY <2>1, KeyFacts, ConstantFacts
  <2>7. TurnKeys'
    <3>1. \A k \in Keys : k[2] >= next => k # to
      BY <2>1, KeyFacts DEF Struct, BoundsType, Turns
    <3>2. \A k \in Keys : k[2] >= next => msg[k] = None /\ cp'[k].tab = None
      BY <2>1, <3>1 DEF Struct, TurnKeys
    <3>3. \A m \in Turns : task[m].tab # "f"
      BY <2>1 DEF Struct, ForkFresh
    <3> QED
      BY <2>3, <2>6, <3>2, <3>3 DEF Struct, TurnKeys, WsOf, bounds
  <2>8. ForkFresh'
    <3>1. \A d \in op'.list : d \in op.list /\ d # e /\ d[1] \in Turns
      BY <2>2 DEF Struct, OpType, OpRecords
    <3>2. \A d \in op'.list : d[1] # e[1]
      BY <2>1, <3>1 DEF Struct, ForkFresh
    <3>3. \A d \in op'.list : <<Fork, d[1]>> \in Keys /\ <<Fork, d[1]>> # to
      BY <3>1, <3>2, KeyFacts, ConstantFacts
    <3>4. \A d \in op'.list : ForkRows(d[1])'
      BY <2>1, <2>3, <3>1, <3>3 DEF Struct, ForkFresh, ForkRows
    <3>5. \A c, d \in op'.list : c[1] = d[1] => c = d
      BY <2>1, <3>1 DEF Struct, ForkFresh
    <3>6. op'.pc = "insert" => /\ op'.cur \in Turns /\ file'[<<Fork, op'.cur>>].form = "none"
                               /\ cp'[<<Fork, op'.cur>>].tab # None
      BY <2>1, <2>2, <2>3, ConstantFacts DEF ForkRows
    <3>7. op'.pc \notin {"files", "row", "list"}
      BY <2>2
    <3>8. \A m \in Turns : task'[m].tab # "f"
      BY <2>1, <2>3 DEF Struct, ForkFresh
    <3>9. ws'[Fork] # "free"
      BY <2>1, <2>3
    <3> QED
      BY <3>4, <3>5, <3>6, <3>7, <3>8, <3>9 DEF ForkFresh
  <2> QED
    BY <2>2, <2>3, <2>4, <2>5, <2>7, <2>8 DEF Struct, WorktreeType, MemoryType, MaintType, TaskType,
       BoundsType, RefsHaveBlobs, BackfillRows, memory, bounds, history
<1> QED
  BY <1>1, <1>2

LEMMA ForkInsertFilesStruct ==
    ASSUME Struct, ForkInsertFiles
    PROVE  Struct'
<1> DEFINE to == <<Fork, op.cur>>
           v == op.read.v
<1>1. CASE op.read.form = "inline" \/ v \in blobs
  <2>1. /\ op.kind = "fork" /\ op.pc = "insert"
        /\ file' = [file EXCEPT ![to] = [form |-> "ref", v |-> v]]
        /\ blobs' = blobs \cup {v}
        /\ op' = [op EXCEPT !.pc = "copy", !.cur = 0, !.read = NoFile]
        /\ UNCHANGED <<msg, cp, ws, wt, memory, task, maint, bounds, history>>
    BY <1>1 DEF ForkInsertFiles
  <2>2. op \in OpRecords /\ v \in Versions
    BY DEF Struct, OpType, OpRecords, Files
  <2>3. op.cur \in Turns /\ to \in Keys /\ file[to].form = "none" /\ cp[to].tab # None
    BY <2>1, KeyFacts, ConstantFacts DEF Struct, ForkFresh
  <2>4. [form |-> "ref", v |-> v] \in Files
    BY <2>2 DEF Files
  <2> HIDE DEF to, v
  <2>5. /\ file' \in [Keys -> Files] /\ file'[to] = [form |-> "ref", v |-> v]
        /\ \A j \in Keys : j # to => file'[j] = file[j]
    BY <2>1, <2>3, <2>4 DEF Struct, TablesType
  <2>6. file'[to].form = "ref" /\ file'[to].v = v
    BY <2>5
  <2>7. TablesType' /\ RefsHaveBlobs'
    <3>1. RefsHaveBlobs'
      BY <2>1, <2>5, <2>6 DEF Struct, RefsHaveBlobs
    <3> QED
      BY <2>1, <2>2, <2>3, <2>5, <3>1 DEF Struct, TablesType, CpType
  <2>8. /\ op' \in OpRecords /\ op'.kind = "fork" /\ op'.pc = "copy" /\ op'.list = op.list
        /\ op'.tab = op.tab /\ op'.ws = op.ws /\ op'.n = op.n
    <3>1. NoFile \in Files /\ 0 \in 0 .. N /\ "copy" \in OpPcs
      BY ConstantFacts DEF OpPcs
    <3>2. op' \in OpRecords
      BY <2>1, <2>2, <3>1 DEF OpRecords
    <3> QED
      BY <2>1, <2>2, <3>2 DEF OpRecords
  <2>9. OpType' /\ OpShape'
    BY <2>1, <2>8 DEF Struct, OpType, OpShape
  <2>10. BackfillRows'
    <3>1. \A r \in maint.rows : r[1] \in Keys
      BY DEF Struct, MaintType
    <3>2. \A r \in maint.rows : file'[r[1]].form = "inline" => file'[r[1]] = file[r[1]]
      BY <2>5, <2>6, <3>1
    <3> QED
      BY <2>1, <3>2 DEF Struct, BackfillRows
  <2>11. \A m \in Turns : task[m].tab # "f" /\ file'[<<Source, m>>] = file[<<Source, m>>]
    BY <2>1, <2>5, KeyFacts, ConstantFacts DEF Struct, ForkFresh, to
  <2>12. TurnKeys'
    BY <2>1, <2>11 DEF Struct, TurnKeys, WsOf, bounds
  <2>13. ForkFresh'
    <3>1. ws[Fork] # "free"
      BY <2>3 DEF Struct, ForkFresh, ForkRows, to
    <3>2. \A e \in op.list : e[1] \in Turns /\ <<Fork, e[1]>> \in Keys /\ <<Fork, e[1]>> # to
      <4>1. \A e \in op.list : e[1] \in Turns
        BY DEF Struct, OpType, OpRecords
      <4>2. \A e \in op.list : cp[<<Fork, e[1]>>].tab = None
        BY <2>1 DEF Struct, ForkFresh, ForkRows
      <4> QED
        BY <2>3, <4>1, <4>2, KeyFacts, ConstantFacts
    <3>3. \A e \in op.list : ForkRows(e[1])'
      BY <2>1, <2>5, <3>2 DEF Struct, ForkFresh, ForkRows
    <3> QED
      BY <2>1, <2>8, <2>11, <3>1, <3>3 DEF Struct, ForkFresh
  <2> QED
    BY <2>1, <2>7, <2>9, <2>10, <2>12, <2>13 DEF Struct, WorktreeType, MemoryType, MaintType, TaskType,
       BoundsType, memory, bounds, history
<1>2. CASE ~ (op.read.form = "inline" \/ v \in blobs)
  <2>1. op.kind = "fork" /\ ForkFailed /\ UNCHANGED <<tables, ws, memory, task, maint, bounds, history>>
    BY <1>2 DEF ForkInsertFiles, tables
  <2> QED
    BY <2>1, ForkFailedStruct
<1> QED
  BY <1>1, <1>2

LEMMA ForkEndsStruct ==
    ASSUME Struct, ForkTranscript \/ ForkPrelude
    PROVE  Struct'
<1>1. /\ op.kind = "fork" /\ op.tab \in Tabs /\ op' = NoOp
      /\ UNCHANGED <<tables, ws, wt, task, maint, bounds, history>>
  BY DEF ForkTranscript, ForkPrelude, Struct, OpShape
<1>2. OpType' /\ OpShape' /\ op'.kind # "fork" /\ op' # op
  BY <1>1, OpEnds, NoOpFacts
<1>3. MemoryType'
  <2>1. Shown("f") \subseteq Turns
    BY KeyFacts DEF Shown
  <2> QED
    BY <1>1, <2>1, ConstantFacts DEF ForkTranscript, ForkPrelude, Struct, MemoryType
<1>4. WorktreeType' /\ BoundsType' /\ next' = next
  BY <1>1 DEF Struct, WorktreeType, BoundsType, bounds, history
<1> QED
  BY <1>1, <1>2, <1>3, <1>4, QuietStep

-----------------------------------------------------------------------------
LEMMA StructStep ==
    ASSUME Struct, [Next]_vars
    PROVE  Struct'
<1>1. CASE TurnStep
  BY <1>1, StartTurnStruct, SendTurnStruct, FailTurnStruct, EndTurnStruct, AgentExitsStruct,
     ExitBeforeInitStruct, InsertCheckpointStruct, CollectFilesStruct, SaveSnapshotStruct,
     SaveRejectedStruct DEF TurnStep
<1>2. CASE UndoStep
  <2>1. ASSUME NEW t \in Tabs, NEW n \in Turns, NEW files \in BOOLEAN, RollbackBegin(t, n, files)
        PROVE  Struct'
    BY <2>1, UndoBeginStruct
  <2>2. ASSUME NEW t \in Tabs, NEW files \in BOOLEAN, ClearBegin(t, files)
        PROVE  Struct'
    BY <2>2, UndoBeginStruct, ConstantFacts
  <2> QED
    BY <1>2, <2>1, <2>2, UndoFilesStruct, UndoMessagesStruct, UndoCheckpointsStruct, UndoAgentStruct
       DEF UndoStep
<1>3. CASE ForkStep
  BY <1>3, ForkBeginStruct, ForkFilesStruct, ForkMessagesStruct, ForkListStruct, ForkCheckpointStruct,
     ForkInsertFilesStruct, ForkEndsStruct DEF ForkStep
<1>4. CASE WorkspaceStep
  BY <1>4, RemoveBeginStruct, RemoveWorktreeStruct, ArchiveRowStruct, PurgeFilesStruct, PurgeFailsStruct,
     DeleteRowStruct, RestoreStruct DEF WorkspaceStep
<1>5. CASE MaintenanceStep
  BY <1>5, BackfillReadStruct, BackfillWriteStruct, SweepReadStruct, ArchivedSweepStruct
     DEF MaintenanceStep
<1>6. CASE UNCHANGED vars
  BY <1>6 DEF vars, tables, memory, bounds, history, Struct, TablesType, CpType, WorktreeType, MemoryType,
     TaskType, OpType, MaintType, BoundsType, OpShape, RefsHaveBlobs, BackfillRows, TurnKeys, ForkFresh, ForkRows
<1> QED
  BY <1>1, <1>2, <1>3, <1>4, <1>5, <1>6, RestartStruct DEF Next

LEMMA StructInvariant == Spec => []Struct
<1>1. Struct /\ [Next]_vars => Struct'
  BY StructStep
<1> QED
  BY <1>1, InitStruct, PTL DEF Spec

(* TypeOK for any numbers of turns, events and retained snapshots: types, the   *)
(* cascade of a checkpoint's files with its row, and the references of the      *)
(* files to their blobs.                                                       *)
THEOREM Typed == Spec => []TypeOK
<1>1. Struct => TypeOK
  BY TypeParts DEF Struct
<1> QED
  BY <1>1, StructInvariant, PTL

-----------------------------------------------------------------------------
(* The steps that write the tables. *)

LEMMA Writers ==
    ASSUME Next
    PROVE  \/ UNCHANGED <<msg, cp, file>>
           \/ \E t \in Tabs : StartTurn(t)
           \/ \E n \in Turns : InsertCheckpoint(n) \/ SaveSnapshot(n)
           \/ UndoMessages \/ UndoCheckpoints
           \/ ForkMessages \/ ForkInsertFiles
           \/ \E e \in op.list : ForkCheckpoint(e)
           \/ PurgeFiles \/ DeleteRow \/ BackfillWrite \/ ArchivedSweep
<1>1. CASE TurnStep
  BY <1>1 DEF TurnStep, SendTurn, FailTurn, EndTurn, AgentExits, ExitBeforeInit, CollectFiles, SaveRejected, tables
<1>2. CASE UndoStep
  BY <1>2 DEF UndoStep, RollbackBegin, ClearBegin, UndoFiles, RollbackAgent, ClearAgent, tables
<1>3. CASE ForkStep
  BY <1>3 DEF ForkStep, ForkBegin, ForkFiles, ForkList, ForkTranscript, ForkPrelude, tables
<1>4. CASE WorkspaceStep
  BY <1>4 DEF WorkspaceStep, RemoveBegin, RemoveWorktree, RemoveWorktreeFails, ArchiveRow, PurgeFails,
     RestoreClaim, RestoreDone, RestoreFails, tables
<1>5. CASE MaintenanceStep
  BY <1>5 DEF MaintenanceStep, BackfillRead, SweepRead, tables
<1>6. CASE Restart
  BY <1>6 DEF Restart, tables
<1> QED
  BY <1>1, <1>2, <1>3, <1>4, <1>5, <1>6 DEF Next

(* What a step does to the files: rows go or keep their content, but for one    *)
(* row that was empty.                                                          *)
Kept(j) == file'[j].form = "none" \/ (file[j].form # "none" /\ file'[j].v = file[j].v)

LEMMA FilesStep ==
    ASSUME Struct, Next
    PROVE  \/ \A j \in Keys : Kept(j)
           \/ \E n \in Turns : /\ SaveSnapshot(n)
                               /\ file[<<WsOf(task[n].tab), n>>].form = "none"
                               /\ <<WsOf(task[n].tab), n>> \in Keys
                               /\ \A j \in Keys \ {<<WsOf(task[n].tab), n>>} : Kept(j)
           \/ /\ ForkInsertFiles
              /\ op.kind = "fork" /\ op.pc = "insert"
              /\ file[<<Fork, op.cur>>].form = "none" /\ <<Fork, op.cur>> \in Keys
              /\ \A j \in Keys \ {<<Fork, op.cur>>} : Kept(j)
<1>1. CASE file' = file
  BY <1>1 DEF Kept
<1>2. CASE \E n \in Turns : SaveSnapshot(n)
  <2>1. PICK n \in Turns : SaveSnapshot(n)
    BY <1>2
  <2>2. /\ <<WsOf(task[n].tab), n>> \in Keys /\ file[<<WsOf(task[n].tab), n>>].form = "none"
        /\ \A j \in Keys : j # <<WsOf(task[n].tab), n>> => file'[j] = file[j] \/ file'[j].form = "none"
    BY <2>1, SaveSnapshotFacts
  <2>3. \A j \in Keys \ {<<WsOf(task[n].tab), n>>} : Kept(j)
    BY <2>2 DEF Kept
  <2> QED
    BY <2>1, <2>2, <2>3
<1>3. CASE ForkInsertFiles
  <2>1. op.kind = "fork" /\ op.pc = "insert" /\ op.cur \in Turns /\ file[<<Fork, op.cur>>].form = "none"
    BY <1>3 DEF ForkInsertFiles, Struct, ForkFresh
  <2>2. <<Fork, op.cur>> \in Keys
    BY <2>1, KeyFacts, ConstantFacts
  <2>3. \A j \in Keys \ {<<Fork, op.cur>>} : file'[j] = file[j]
    BY <1>3 DEF ForkInsertFiles, Struct, TablesType
  <2> QED
    BY <1>3, <2>1, <2>2, <2>3 DEF Kept
<1>4. CASE UndoCheckpoints
  <2> DEFINE gone == {k \in Keys : After(k)}
  <2>1. DeleteCheckpoints(gone) /\ gone \in SUBSET Keys
    BY <1>4 DEF UndoCheckpoints
  <2> HIDE DEF gone
  <2> QED
    BY <2>1, DeleteCheckpointsFacts DEF Kept
<1>5. CASE DeleteRow
  <2>1. DeleteCheckpoints(KeysOf(op.ws)) /\ KeysOf(op.ws) \in SUBSET Keys
    BY <1>5 DEF DeleteRow, KeysOf
  <2> QED
    BY <2>1, DeleteCheckpointsFacts DEF Kept
<1>6. CASE ArchivedSweep
  <2> DEFINE gone == {k \in Keys : k[1] \in maint.ids}
  <2>1. DeleteFiles(gone) /\ gone \in SUBSET Keys
    BY <1>6 DEF ArchivedSweep
  <2> HIDE DEF gone
  <2>2. \A k \in Keys : file'[k] = file[k] \/ file'[k] = NoFile
    BY <2>1, DeleteFilesFacts
  <2> QED
    BY <2>2 DEF Kept, NoFile
<1>7. CASE PurgeFiles
  <2>1. \A k \in Keys : file'[k] = file[k] \/ file'[k] = NoFile
    BY <1>7, PurgeFilesFacts
  <2> QED
    BY <2>1 DEF Kept, NoFile
<1>8. CASE BackfillWrite
  BY <1>8, BackfillWriteFacts DEF Kept
<1> QED
  BY <1>1, <1>2, <1>3, <1>4, <1>5, <1>6, <1>7, <1>8, Writers
     DEF StartTurn, InsertCheckpoint, UndoMessages, ForkMessages, ForkCheckpoint

-----------------------------------------------------------------------------
(* The refinement of SnapshotStore. *)

Snap == [k \in Keys |-> Content(k)]
FileSnap == [k \in Keys |-> IF file[k].form = "none" THEN None ELSE file[k].v]

(* Since no reference dangles, reading a snapshot never finds a missing blob.   *)
LEMMA SnapIsFile == Struct => Snap = FileSnap /\ Snap \in [Keys -> Versions \cup {None}]
<1> SUFFICES ASSUME Struct PROVE Snap = FileSnap /\ Snap \in [Keys -> Versions \cup {None}]
  OBVIOUS
<1>1. ASSUME NEW k \in Keys
      PROVE  /\ Content(k) = IF file[k].form = "none" THEN None ELSE file[k].v
             /\ Content(k) \in Versions \cup {None}
  BY ContentIsVersion
<1> QED
  BY <1>1 DEF Snap, FileSnap

LEMMA StoreStep ==
    ASSUME Struct, Struct', [Next]_vars
    PROVE  [Store!Next]_Snap
<1>1. Snap = FileSnap /\ Snap \in [Keys -> Versions \cup {None}]
  BY SnapIsFile
<1>2. Snap' = FileSnap' /\ Snap' \in [Keys -> Versions \cup {None}]
  <2>1. (Struct => Snap = FileSnap /\ Snap \in [Keys -> Versions \cup {None}])'
    BY SnapIsFile, PTL
  <2>2. Keys' = Keys /\ Versions' = Versions
    BY DEF Keys, Versions, Workspaces, Turns, Source, Fork
  <2> QED
    BY <2>1, <2>2
<1>3. \A j \in Keys : Kept(j) => Snap'[j] \in {Snap[j], None}
  BY <1>1, <1>2 DEF FileSnap, Kept
<1>4. \A j \in Keys : file[j].form = "none" => Snap[j] = None
  BY <1>1 DEF FileSnap
<1>5. CASE \A j \in Keys : Kept(j)
  <2>1. \A j \in Keys : Snap'[j] \in {Snap[j], None}
    BY <1>3, <1>5
  <2> QED
    BY <1>2, <2>1 DEF Store!Next, Store!Drop, Store!KeptOrLost, Store!Snapshots, Snap
<1>6. CASE \E k \in Keys : file[k].form = "none" /\ \A j \in Keys \ {k} : Kept(j)
  <2>1. PICK k \in Keys : file[k].form = "none" /\ \A j \in Keys \ {k} : Kept(j)
    BY <1>6
  <2>2. Snap[k] = None /\ \A j \in Keys \ {k} : Snap'[j] \in {Snap[j], None}
    BY <1>3, <1>4, <2>1
  <2> QED
    BY <1>2, <2>1, <2>2 DEF Store!Next, Store!Take, Store!KeptOrLost, Store!Snapshots, Snap
<1>7. CASE UNCHANGED vars
  BY <1>7 DEF vars, tables, Snap, Content
<1> QED
  BY <1>5, <1>6, <1>7, FilesStep

(* The blob table, its collections, the backfill, forks and purges implement    *)
(* SnapshotStore: a snapshot is written once and reads as what was written      *)
(* until it is dropped, whatever blobs rows share.                              *)
THEOREM StoreRefined == Spec => StoreSpec
<1>1. Init => Store!Init
  <2>1. Init => Snap \in [Keys -> Versions \cup {None}]
    BY InitStruct, SnapIsFile
  <2> QED
    BY <2>1 DEF Store!Init, Store!Snapshots, Snap
<1>2. Struct /\ Struct' /\ [Next]_vars => [Store!Next]_Snap
  BY StoreStep
<1>3. Init /\ [][Next]_vars => Store!Init /\ [][Store!Next]_Snap
  BY <1>1, <1>2, StructInvariant, PTL DEF Spec
<1> QED
  BY <1>3, PTL DEF Spec, StoreSpec, Store!Spec, Snap

-----------------------------------------------------------------------------
(* Who deletes what. *)

LEMMA UndoOpOn ==
    ASSUME Struct, op.pc \in {"messages", "checkpoints"}
    PROVE  op.kind \in {"rollback", "clear"} /\ op.tab \in Tabs /\ op.ws = WsOf(op.tab)
BY DEF Struct, OpType, OpRecords, OpKinds, OpShape, NoOp

LEMMA MessagesOfOwnTab ==
    ASSUME Struct, Next, NEW k \in Keys, msg[k] # None, msg'[k] # msg[k]
    PROVE  OpOn(msg[k]) \/ (op.kind = "delete" /\ op.ws = k[1])
<1>1. CASE \E t \in Tabs : StartTurn(t)
  <2>1. PICK t \in Tabs : StartTurn(t)
    BY <1>1
  <2>2. msg' = [msg EXCEPT ![<<WsOf(t), next>>] = t] /\ next <= N
    BY <2>1 DEF StartTurn
  <2>3. k = <<WsOf(t), next>>
    BY <2>2 DEF Struct, TablesType
  <2>4. k[2] >= next
    BY <2>2, <2>3, ConstantFacts DEF Struct, BoundsType
  <2> QED
    BY <2>4 DEF Struct, TurnKeys
<1>2. CASE UndoMessages
  <2>1. op.pc = "messages" /\ Discarded(k)
    BY <1>2 DEF UndoMessages
  <2> QED
    BY <2>1, UndoOpOn DEF Discarded, OpOn
<1>3. CASE ForkMessages
  <2>1. k[1] = Fork /\ ws[Fork] = "free"
    BY <1>3 DEF ForkMessages, Struct, ForkFresh
  <2> QED
    BY <2>1, KeyFacts DEF Struct, ForkFresh
<1>4. CASE DeleteRow
  BY <1>4 DEF DeleteRow
<1> QED
  BY <1>1, <1>2, <1>3, <1>4, Writers DEF InsertCheckpoint, SaveSnapshot, UndoCheckpoints,
     ForkInsertFiles, ForkCheckpoint, PurgeFiles, BackfillWrite, ArchivedSweep

LEMMA CheckpointsOfOwnTab ==
    ASSUME Struct, Next, NEW k \in Keys, cp[k].tab # None, cp'[k] # cp[k]
    PROVE  OpOn(cp[k].tab) \/ (op.kind = "delete" /\ op.ws = k[1])
<1>1. CASE \E n \in Turns : InsertCheckpoint(n)
  <2>1. PICK n \in Turns : InsertCheckpoint(n)
    BY <1>1
  <2> DEFINE j == <<WsOf(task[n].tab), n>>
             row == [tab |-> task[n].tab, idx |-> task[n].idx, at |-> 0]
  <2>2. j \in Keys /\ cp[j].tab = None /\ task[n] \in TaskRecords
    BY <2>1, TaskFacts DEF InsertCheckpoint
  <2>3. Stamp(j, row) /\ row \in [tab: Tabs \cup {None}, idx: Nat, at: Nat]
    BY <2>1, <2>2 DEF InsertCheckpoint, TaskRecords
  <2> HIDE DEF j, row
  <2>4. k # j => cp'[k] = cp[k]
    BY <2>2, <2>3, StampType DEF Struct, TablesType
  <2> QED
    BY <2>2, <2>4
<1>2. CASE UndoCheckpoints
  <2> DEFINE gone == {j \in Keys : After(j)}
  <2>1. op.pc = "checkpoints" /\ DeleteCheckpoints(gone) /\ gone \in SUBSET Keys
    BY <1>2 DEF UndoCheckpoints
  <2>2. k \in gone
    <3> HIDE DEF gone
    <3> QED
      BY <2>1, DeleteCheckpointsFacts
  <2>3. cp[k].tab = op.tab
    BY <2>2 DEF After
  <2> QED
    BY <2>1, <2>3, UndoOpOn DEF OpOn
<1>3. CASE \E e \in op.list : ForkCheckpoint(e)
  <2>1. PICK e \in op.list : ForkCheckpoint(e)
    BY <1>3
  <2>2. op' # NoOp
    BY <2>1, ForkCheckpointFails DEF tables
  <2>3. ForkRows(e[1]) /\ \A j \in Keys : j # <<Fork, e[1]>> => cp'[j] = cp[j]
    BY <2>1, <2>2, ForkCheckpointFacts
  <2> QED
    BY <2>3 DEF ForkRows
<1>4. CASE DeleteRow
  <2>1. DeleteCheckpoints(KeysOf(op.ws)) /\ KeysOf(op.ws) \in SUBSET Keys /\ op.kind = "delete"
    BY <1>4 DEF DeleteRow, KeysOf
  <2>2. k \in KeysOf(op.ws)
    BY <2>1, DeleteCheckpointsFacts
  <2> QED
    BY <2>1, <2>2 DEF KeysOf
<1> QED
  BY <1>1, <1>2, <1>3, <1>4, Writers DEF StartTurn, SaveSnapshot, UndoMessages, ForkMessages,
     ForkInsertFiles, PurgeFiles, BackfillWrite, ArchivedSweep

(* OnlyOwnTab: whatever else runs, a message or a checkpoint goes only through  *)
(* a rollback or clear of its own tab or the deletion of its workspace.         *)
THEOREM UndoIsLocal == Spec => OnlyOwnTab
<1> DEFINE A == \A k \in Keys :
        /\ msg[k] # None /\ msg'[k] # msg[k] =>
              OpOn(msg[k]) \/ (op.kind = "delete" /\ op.ws = k[1])
        /\ cp[k].tab # None /\ cp'[k] # cp[k] =>
              OpOn(cp[k].tab) \/ (op.kind = "delete" /\ op.ws = k[1])
<1>1. Struct /\ [Next]_vars => [A]_vars
  BY MessagesOfOwnTab, CheckpointsOfOwnTab
<1> QED
  BY <1>1, StructInvariant, PTL DEF Spec, OnlyOwnTab

-----------------------------------------------------------------------------
(* The retention bound. *)

HeldOf(w) == {k \in KeysOf(w) : Held(k)}

(* The snapshots that the fork under way has, or will have when its list is     *)
(* copied.                                                                      *)
Promised ==
    {k \in KeysOf(Fork) :
        \/ Held(k)
        \/ <<k[2], TRUE>> \in op.list
        \/ (op.pc = "insert" /\ k[2] = op.cur)}
ForkBudget == op.kind = "fork" /\ op.pc \in {"copy", "insert"} => Cardinality(Promised) <= Keep
Budget == RetentionBound /\ ForkBudget

LEMMA CardinalityBound ==
    ASSUME NEW S, IsFiniteSet(S), NEW T, IsFiniteSet(T), S \subseteq T, Cardinality(T) <= Keep
    PROVE  Cardinality(S) <= Keep
BY FS_Subset, FS_CardinalityType, ConstantFacts

LEMMA HeldOfFinite == \A w : IsFiniteSet(HeldOf(w)) /\ HeldOf(w) \subseteq Keys
BY KeysFinite DEF HeldOf, KeysOf

LEMMA BudgetInit == Init => Budget
<1> SUFFICES ASSUME Init PROVE Budget
  OBVIOUS
<1>1. ASSUME NEW w \in Workspaces PROVE Cardinality(HeldOf(w)) <= Keep
  <2>1. HeldOf(w) \subseteq {<<Source, 1>>}
    BY DEF Init, HeldOf, KeysOf, NoFile
  <2>2. IsFiniteSet({<<Source, 1>>}) /\ Cardinality({<<Source, 1>>}) = 1
    BY FS_Singleton
  <2> QED
    BY <2>1, <2>2, HeldOfFinite, CardinalityBound, CheckpointsAssumption
<1>2. RetentionBound
  BY <1>1 DEF RetentionBound, HeldOf
<1>3. ForkBudget
  BY DEF Init, ForkBudget, NoOp
<1> QED
  BY <1>2, <1>3 DEF Budget

LEMMA ForkOps ==
    ASSUME Struct, Next, op'.kind = "fork", op'.pc \in {"copy", "insert"}
    PROVE  \/ op' = op
           \/ ForkList
           \/ ForkInsertFiles
           \/ \E e \in op.list : ForkCheckpoint(e)
<1>1. op \in OpRecords /\ op' # NoOp
  BY NoOpFacts DEF Struct, OpType
<1>2. CASE TurnStep
  BY <1>2 DEF TurnStep, StartTurn, SendTurn, FailTurn, EndTurn, AgentExits, ExitBeforeInit, InsertCheckpoint,
     CollectFiles, SaveSnapshot, SaveRejected
<1>3. CASE UndoStep
  <2>1. ASSUME NEW t \in Tabs, NEW n \in Turns, NEW files \in BOOLEAN,
               RollbackBegin(t, n, files) \/ ClearBegin(t, files)
        PROVE  FALSE
    BY <2>1 DEF RollbackBegin, ClearBegin, Begin, NoOp
  <2>2. UndoFiles => op.kind \in {"rollback", "clear"} /\ op' = [op EXCEPT !.pc = "messages", !.files = FALSE, !.has = FALSE]
    BY <1>1 DEF UndoFiles
  <2>3. UndoMessages \/ UndoCheckpoints => op.kind \in {"rollback", "clear"}
    BY UndoOpOn DEF UndoMessages, UndoCheckpoints
  <2>4. ~ (UndoFiles \/ UndoMessages \/ UndoCheckpoints \/ RollbackAgent \/ ClearAgent)
    BY <1>1, <2>2, <2>3 DEF UndoMessages, UndoCheckpoints, RollbackAgent, ClearAgent, OpRecords
  <2> QED
    BY <1>3, <2>1, <2>4, ConstantFacts DEF UndoStep
<1>4. CASE ForkStep
  <2>1. ~ ForkFiles /\ ~ ForkMessages
    BY <1>1 DEF ForkFiles, ForkMessages, OpRecords
  <2>2. \A n \in Turns : ~ ForkBegin(n)
    BY DEF ForkBegin, Begin, NoOp
  <2>3. ~ ForkTranscript /\ ~ ForkPrelude
    BY <1>1 DEF ForkTranscript, ForkPrelude
  <2> QED
    BY <1>4, <2>1, <2>2, <2>3 DEF ForkStep
<1>5. CASE WorkspaceStep
  <2>1. \A w \in Workspaces : ~ RestoreClaim(w) /\ \A kind \in {"archive", "delete"} : ~ RemoveBegin(w, kind)
    BY DEF RestoreClaim, RemoveBegin, Begin, NoOp
  <2>2. ~ (RemoveWorktree \/ RemoveWorktreeFails \/ ArchiveRow)
    BY <1>1 DEF RemoveWorktree, RemoveWorktreeFails, ArchiveRow, OpRecords
  <2>3. ~ (PurgeFiles \/ PurgeFails \/ DeleteRow \/ RestoreDone \/ RestoreFails)
    BY <1>1 DEF PurgeFiles, PurgeFails, DeleteRow, RestoreDone, RestoreFails
  <2> QED
    BY <1>5, <2>1, <2>2, <2>3 DEF WorkspaceStep
<1>6. CASE MaintenanceStep
  BY <1>6 DEF MaintenanceStep, BackfillRead, BackfillWrite, SweepRead, ArchivedSweep
<1>7. CASE Restart
  BY <1>1, <1>7 DEF Restart
<1> QED
  BY <1>2, <1>3, <1>4, <1>5, <1>6, <1>7 DEF Next

LEMMA BudgetStep ==
    ASSUME Struct, Budget, Next
    PROVE  Budget'
<1>1. \A w \in Workspaces : Cardinality(HeldOf(w)) <= Keep
  BY DEF Budget, RetentionBound, HeldOf
<1>2. /\ \A w : IsFiniteSet({k \in KeysOf(w) : file'[k].form # "none"})
      /\ \A w : {k \in KeysOf(w) : file'[k].form # "none"} = HeldOf(w)'
  BY KeysFinite DEF KeysOf, HeldOf
<1>3. IsFiniteSet(Promised) /\ IsFiniteSet(Promised')
  BY KeysFinite DEF Promised, KeysOf
<1>4. ASSUME NEW w \in Workspaces PROVE Cardinality({k \in KeysOf(w) : file'[k].form # "none"}) <= Keep
  <2> DEFINE new == {k \in KeysOf(w) : file'[k].form # "none"}
  <2>1. CASE new \subseteq HeldOf(w)
    <3> HIDE DEF new
    <3>1. IsFiniteSet(new)
      BY <1>2 DEF new
    <3> QED
      BY <1>1, <2>1, <3>1, HeldOfFinite, CardinalityBound DEF new
  <2>2. CASE \A j \in Keys : Kept(j)
    <3>1. new \subseteq HeldOf(w)
      BY <2>2 DEF HeldOf, KeysOf, Kept
    <3> QED
      BY <2>1, <3>1
  <2>3. ASSUME NEW n \in Turns, SaveSnapshot(n) PROVE Cardinality(new) <= Keep
    <3>1. /\ Cardinality({j \in KeysOf(WsOf(task[n].tab)) : file'[j].form # "none"}) <= Keep
          /\ \A j \in Keys : j[1] # WsOf(task[n].tab) => file'[j] = file[j]
      BY <2>3, SaveSnapshotFacts
    <3>2. CASE w # WsOf(task[n].tab)
      <4>1. new \subseteq HeldOf(w)
        BY <3>1, <3>2 DEF HeldOf, KeysOf
      <4> QED
        BY <2>1, <4>1
    <3> QED
      BY <3>1, <3>2
  <2>4. ASSUME op.kind = "fork", op.pc = "insert", \A j \in Keys \ {<<Fork, op.cur>>} : Kept(j)
        PROVE  Cardinality(new) <= Keep
    <3>1. CASE w # Fork
      <4>1. new \subseteq HeldOf(w)
        BY <2>4, <3>1, KeyFacts DEF HeldOf, KeysOf, Kept
      <4> QED
        BY <2>1, <4>1
    <3>2. CASE w = Fork
      <4>1. ASSUME NEW k \in KeysOf(Fork), file'[k].form # "none" PROVE k \in Promised
        <5>1. k \in Keys /\ (k[2] = op.cur \/ k # <<Fork, op.cur>>)
          BY KeyFacts DEF KeysOf
        <5>2. k[2] = op.cur \/ Held(k)
          BY <2>4, <4>1, <5>1 DEF Kept
        <5> QED
          BY <2>4, <5>2 DEF Promised
      <4>2. IsFiniteSet(new) /\ Cardinality(Promised) <= Keep
        BY <1>2, <2>4 DEF Budget, ForkBudget
      <4>3. new \subseteq Promised
        BY <3>2, <4>1
      <4> HIDE DEF new
      <4> QED
        BY <1>3, <4>2, <4>3, CardinalityBound
    <3> QED
      BY <3>1, <3>2
  <2> QED
    BY <2>2, <2>3, <2>4, FilesStep
<1>5. RetentionBound'
  BY <1>4 DEF RetentionBound
<1>6. ForkBudget'
  <2>1. CASE ForkList
    <3> DEFINE S == HeldOf(Source)
               T == {<<Fork, k[2]>> : k \in S}
               g == [k \in S |-> <<Fork, k[2]>>]
    <3>1. g \in Surjection(S, T)
      BY DEF Surjection
    <3>2. IsFiniteSet(T) /\ Cardinality(T) <= Cardinality(S)
      <4> HIDE DEF S, T, g
      <4> QED
        BY <3>1, FS_Surjection, HeldOfFinite DEF S
    <3>3. Cardinality(S) <= Keep /\ Cardinality(S) \in Nat /\ Cardinality(T) \in Nat
      <4>1. Cardinality(S) \in Nat /\ IsFiniteSet(S)
        BY HeldOfFinite, FS_CardinalityType
      <4> HIDE DEF S, T
      <4> QED
        BY <1>1, <3>2, <4>1, FS_CardinalityType, ConstantFacts DEF S
    <3>4. \A m \in Turns : ~ Held(<<Fork, m>>)
      BY <2>1 DEF ForkList, Struct, ForkFresh, ForkRows
    <3>5. \A m : <<m, TRUE>> \in op'.list => Held(<<Source, m>>)
      <4> DEFINE picked == {m \in Turns : /\ cp[<<Source, m>>].tab # None
                                          /\ cp[<<Source, m>>].idx <= op.idx}
                 list == {<<m, Held(<<Source, m>>)>> : m \in picked}
      <4>1. op' = [op EXCEPT !.pc = "copy", !.list = list]
        BY <2>1 DEF ForkList
      <4>2. ASSUME NEW m, <<m, TRUE>> \in list PROVE Held(<<Source, m>>)
        <5>1. PICK i \in picked : <<m, TRUE>> = <<i, Held(<<Source, i>>)>>
          BY <4>2
        <5>2. m = i /\ Held(<<Source, i>>)
          BY <5>1
        <5> QED
          BY <5>2
      <4> HIDE DEF list
      <4>3. op'.list = list
        BY <4>1 DEF Struct, OpType, OpRecords
      <4> QED
        BY <4>2, <4>3
    <3>6. file' = file /\ op'.pc # "insert"
      BY <2>1 DEF ForkList, tables, Struct, OpType, OpRecords
    <3>7. \A k \in KeysOf(Fork) : <<k[2], TRUE>> \in op'.list => k \in T
      <4>1. \A k \in KeysOf(Fork) : k = <<Fork, k[2]>> /\ k[2] \in Turns /\ <<Source, k[2]>> \in Keys
        BY KeyFacts, ConstantFacts DEF KeysOf
      <4>2. \A k \in KeysOf(Fork) : <<k[2], TRUE>> \in op'.list => <<Source, k[2]>> \in S
        BY <3>5, <4>1, KeyFacts DEF HeldOf, KeysOf
      <4>3. ASSUME NEW k \in KeysOf(Fork), <<Source, k[2]>> \in S PROVE k \in T
        <5>1. <<Source, k[2]>>[2] = k[2] /\ k = <<Fork, k[2]>>
          BY <4>1
        <5> HIDE DEF S
        <5> QED
          BY <4>3, <5>1
      <4> QED
        BY <4>2, <4>3
    <3>8. Promised' \subseteq T
      <4>1. \A k \in KeysOf(Fork) : ~ Held(k)
        BY <3>4, KeyFacts DEF KeysOf
      <4> HIDE DEF T
      <4> QED
        BY <3>6, <3>7, <4>1 DEF Promised, KeysOf
    <3>9. Cardinality(Promised') <= Keep
      <4> HIDE DEF T, S
      <4> QED
        BY <1>3, <3>2, <3>3, <3>8, CardinalityBound, ConstantFacts
    <3> QED
      BY <3>9 DEF ForkBudget
  <2>2. SUFFICES ASSUME ~ ForkList, op'.kind = "fork", op'.pc \in {"copy", "insert"}
                 PROVE  Cardinality(Promised') <= Keep
    BY <2>1 DEF ForkBudget
  <2>3. \/ op' = op /\ \A j \in Keys : j[1] = Fork => Kept(j)
        \/ ForkInsertFiles
        \/ \E e \in op.list : ForkCheckpoint(e)
    <3>1. \/ op' = op
          \/ ForkInsertFiles
          \/ \E e \in op.list : ForkCheckpoint(e)
      BY <2>2, ForkOps
    <3>2. CASE op' = op
      <4>1. \A n \in Turns : task[n].tab # "f"
        BY <2>2, <3>2 DEF Struct, ForkFresh
      <4>2. \A n \in Turns, j \in Keys : j[1] = Fork => j # <<WsOf(task[n].tab), n>>
        BY <4>1, KeyFacts, ConstantFacts DEF WsOf
      <4> QED
        BY <3>2, <4>2, FilesStep
    <3> QED
      BY <3>1, <3>2
  <2>4. /\ op.kind = "fork" /\ op.pc \in {"copy", "insert"}
        /\ Promised' \subseteq Promised
    <3>1. CASE op' = op /\ \A j \in Keys : j[1] = Fork => Kept(j)
      BY <2>2, <3>1 DEF Promised, KeysOf, Kept
    <3>2. CASE ForkInsertFiles
      <4>1. /\ op.kind = "fork" /\ op.pc = "insert"
            /\ op' = [op EXCEPT !.pc = "copy", !.cur = 0, !.read = NoFile]
            /\ file' = [file EXCEPT ![<<Fork, op.cur>>] = [form |-> "ref", v |-> op.read.v]]
        BY <2>2, <3>2, NoOpFacts DEF ForkInsertFiles, ForkFailed
      <4>2. op'.list = op.list /\ op'.pc = "copy"
        BY <4>1 DEF Struct, OpType, OpRecords
      <4>3. \A k \in Keys : k # <<Fork, op.cur>> => file'[k] = file[k]
        BY <4>1 DEF Struct, TablesType
      <4>4. \A k \in Keys : k = <<Fork, op.cur>> => k[2] = op.cur
        OBVIOUS
      <4> QED
        BY <4>1, <4>2, <4>3, <4>4 DEF Promised, KeysOf
    <3>3. ASSUME NEW e \in op.list, ForkCheckpoint(e)
          PROVE  op.kind = "fork" /\ op.pc \in {"copy", "insert"} /\ Promised' \subseteq Promised
      <4>1. op' # NoOp
        BY <2>2, NoOpFacts
      <4>2. /\ op.kind = "fork" /\ op.pc = "copy" /\ file' = file /\ op'.list = op.list \ {e}
            /\ op'.pc = "copy" \/ (op'.pc = "insert" /\ op'.cur = e[1] /\ e[2])
        BY <3>3, <4>1, ForkCheckpointFacts
      <4>3. e = <<e[1], e[2]>> /\ e[2] \in BOOLEAN
        BY DEF Struct, OpType, OpRecords
      <4>4. op'.pc = "insert" => <<op'.cur, TRUE>> \in op.list
        <5>1. e[2] => e = <<e[1], TRUE>>
          BY <4>3
        <5> QED
          BY <4>2, <5>1
      <4> QED
        BY <4>2, <4>4 DEF Promised, KeysOf
    <3> QED
      BY <2>3, <3>1, <3>2, <3>3
  <2> QED
    BY <1>3, <2>4, CardinalityBound DEF Budget, ForkBudget
<1> QED
  BY <1>5, <1>6 DEF Budget

(* RetentionBound: no workspace ever holds more snapshots than the retention    *)
(* count, whatever turns, late saves and forks interleave. The fork of a         *)
(* workspace copies without pruning: its list was within the count when it was  *)
(* read, and nobody else writes to the fork before it is done.                  *)
THEOREM RetentionHolds == Spec => []RetentionBound
<1>1. Budget /\ Struct /\ [Next]_vars => Budget'
  <2>1. Budget /\ UNCHANGED vars => Budget'
    BY DEF vars, tables, Budget, RetentionBound, ForkBudget, Promised
  <2> QED
    BY <2>1, BudgetStep
<1>2. Budget => RetentionBound
  BY DEF Budget
<1> QED
  BY <1>1, <1>2, BudgetInit, StructInvariant, PTL DEF Spec

=============================================================================

--------------------------- MODULE ScmPollingProofs ---------------------------
(***************************************************************************)
(* Proofs about ScmPolling, for every set of workspaces and branches and any *)
(* number of events: the type invariant, the evidence behind an automatic     *)
(* archive, the count of CI sessions, and the two action properties of the     *)
(* cache.                                                                     *)
(***************************************************************************)
EXTENDS ScmPolling, TLAPS, FiniteSetTheorems

(***************************************************************************)
(* The inductive invariant.                                                 *)
(***************************************************************************)
Pcs == {"none", "lookup", "resolve", "lock", "fetch", "store", "row", "act",
        "uncache", "unrow", "evict", "done"}
Commands == {"load", "refresh", "create", "merge"}
TaskType == [pc: Pcs, op: Commands \cup {"none", "poll"}, w: Workspaces \cup {None},
             b: Branches \cup {None}, gate: Gates \cup {0}, pr: Pr, prOk: BOOLEAN,
             ci: Ci, ciOk: BOOLEAN, some: BOOLEAN]
LoopType == [pc: {"idle", "seed", "collect", "ci"} \cup Archiving, w: Workspaces \cup {None},
             why: Pr, ci: Ci, b: Branches \cup {None}, path: BOOLEAN, del: BOOLEAN]

WsType == [st: {"none", "active", "archived", "deleted"}, b: Branches \cup {None}]
RowType == [b: Branches \cup {None}, pr: Pr, ci: Ci, err: BOOLEAN]
EntryType == [on: BOOLEAN, pr: Pr, ci: Ci, err: BOOLEAN, fresh: BOOLEAN]
ObsType == [b: Branches \cup {None}, st: {"none", "open", "merged"}]
CiType == [st: Ci, triggered: BOOLEAN, fixes: Nat]
HistType == [sawOpen: [Workspaces -> SUBSET (Branches \cup {None})],
             merged: SUBSET Branches, torn: SUBSET Branches]

(* A worktree on disk has a branch, a row of the table too, a rename in progress *)
(* has the old one, and the loop works on a workspace.                           *)
WorldTyped ==
    /\ forge \in [Branches -> [pr: Pr, ci: Statuses]]
    /\ head \in [Workspaces -> Branches \cup {None}]
    /\ tree \subseteq Workspaces
    /\ \A w \in tree : head[w] # None
Consistent(table) ==
    /\ table \in [Workspaces -> WsType]
    /\ \A w \in Workspaces : table[w].st \in {"active", "archived"} <=> table[w].b # None
TablesTyped == Consistent(ws) /\ srow \in [Workspaces -> RowType]
MemoryTyped ==
    /\ cache \in [Branches -> EntryType]
    /\ gate \in [Branches -> Gates]
    /\ polled \subseteq Workspaces
    /\ observed \in [Workspaces -> ObsType]
    /\ ci \in [Workspaces -> CiType]
CallsTyped == task \in [Tasks -> TaskType]
LoopTyped ==
    /\ loop \in LoopType
    /\ loop.pc \in Archiving \cup {"ci"} => loop.w \in Workspaces
NamingTyped ==
    naming = NoName \/ naming \in [w: Workspaces, b: Branches \cup {None}, old: Branches]
HistTyped == left \in 0 .. Events /\ hist \in HistType

Typing ==
    /\ WorldTyped /\ TablesTyped /\ MemoryTyped /\ CallsTyped
    /\ LoopTyped /\ NamingTyped /\ HistTyped

(* A call in progress has its workspace, after the lookup its branch too, and   *)
(* from then on that it has the branch's lock, or waits for it, it is the lock   *)
(* that the table has for the branch: a lock that a task knows is not dropped.   *)
Locking == HasLock \cup {"lock"}
Shaped(i, r) ==
    /\ r.pc # "none" => r.w \in Workspaces
    /\ r.pc = "done" => i # Client
    /\ i # Client => r.w \in {i, None}
    /\ r.pc \notin {"none", "lookup", "done"} => r.b \in Branches
    /\ r.pc \in Locking => r.gate = gate[r.b]
    /\ r.pc \notin Locking => r.gate = 0
TaskShape == \A i \in Tasks : Shaped(i, task[i])

(* One task at a time is between taking and releasing the lock of a branch.     *)
Exclusion ==
    \A i, j \in Tasks :
        task[i].pc \in HasLock /\ task[j].pc \in HasLock /\ task[i].b = task[j].b => i = j

(* What is known of the pull request of a branch, wherever it is kept: it is the *)
(* one of that branch, and once it says merged, the pull request did merge.      *)
CopyOf(pr, b) ==
    /\ pr # NoPr => pr.b = b /\ pr.st # "none" /\ forge[b].pr # NoPr
    /\ pr.st = "merged" => forge[b].pr.st = "merged"
Copies ==
    /\ \A b \in Branches : /\ CopyOf(forge[b].pr, b)
                           /\ CopyOf(cache[b].pr, b)
    /\ \A w \in Workspaces : IF srow[w].b = None THEN srow[w].pr = NoPr
                              ELSE CopyOf(srow[w].pr, srow[w].b)
    /\ \A i \in Tasks : task[i].pc \in {"store", "row"} => CopyOf(task[i].pr, task[i].b)
    /\ \A i \in Tasks : task[i].pc = "done" /\ task[i].pr.st = "merged" =>
            task[i].pr.b \in Branches /\ forge[task[i].pr.b].pr.st = "merged"

(* A merge that is cached is not contradicted by the entry nor by an answer that *)
(* is about to be stored.                                                       *)
MergeIsKnown ==
    \A b \in hist.merged :
        /\ forge[b].pr.st = "merged"
        /\ cache[b].pr.st # "open"
        /\ \A i \in Tasks : task[i].pc = "store" /\ task[i].b = b /\ task[i].prOk
                                => task[i].pr.st # "open"

(* An observation of an open pull request is in the history.                    *)
Witnessed == \A w \in Workspaces :
    observed[w].st = "open" => observed[w].b \in hist.sawOpen[w]

(* An archive is for the pull request of a branch.                             *)
WhyNamed == loop.pc \in Archiving => loop.why.b \in Branches

(* A failure counts only after the checks were good.                           *)
FixCounted == \A w \in Workspaces :
    /\ ci[w].fixes <= 1
    /\ ci[w].st = "good" => ci[w].fixes = 0

(* Nothing runs before the seed is over. *)
SeedAlone == loop.pc = "seed" => \A i \in Tasks : At(i, "none")

(* A row with a pull request is backed by the entry of its branch, unless the    *)
(* client is about to delete it; so is one that is about to be written.          *)
Doomed(w, b) == At(Client, "unrow") /\ task[Client].w = w /\ task[Client].b = b
Telling(w, b) == srow[w].b = b /\ srow[w].pr # NoPr /\ ~Doomed(w, b)
Backed(b) == cache[b].on /\ cache[b].pr # NoPr
RowsBacked ==
    loop.pc # "seed" => \A b \in Branches \ hist.torn :
        /\ \A w \in Workspaces : Telling(w, b) => Backed(b)
        /\ \A i \in Tasks : At(i, "row") /\ task[i].b = b =>
                /\ task[i].pr # NoPr => Backed(b)
                /\ ~task[i].prOk /\ Telling(task[i].w, b) => task[i].pr # NoPr

(* A list that came without a pull request: none is known anywhere.             *)
NoneKnown ==
    \A i \in Tasks : At(i, "store") /\ task[i].prOk /\ task[i].pr = NoPr =>
        /\ cache[task[i].b].pr = NoPr
        /\ \A w \in Workspaces : srow[w].b = task[i].b => srow[w].pr = NoPr

Facts ==
    /\ Exclusion /\ Copies /\ MergeIsKnown /\ Witnessed /\ FixCounted
    /\ WhyNamed /\ ArchiveHasEvidence /\ SeedAlone /\ RowsBacked /\ NoneKnown
Inv == Typing /\ TaskShape /\ Facts

-----------------------------------------------------------------------------
(* Types. *)

(* There is a lock to begin with. *)
LEMMA GatesFact == 1 \in Gates /\ Gates \subseteq Nat /\ 0 \notin Gates
<1>1. IsFiniteSet(Tasks)
  BY FS_AddElement, ScmAssumption DEF ScmAssumption, Tasks
<1>2. Cardinality(Tasks) \in Nat
  BY <1>1, FS_CardinalityType
<1>3. Cardinality(Tasks) # 0
  BY <1>1, FS_EmptySet DEF Tasks
<1>. QED
  BY <1>2, <1>3 DEF Gates

LEMMA TypesOfValues ==
    /\ NoPr \in Pr /\ NoTask \in TaskType /\ Idle \in LoopType
    /\ \A b \in Branches : Opened(b) \in Pr
    /\ \A pr \in Pr, stamp \in BOOLEAN, alive \in SUBSET Workspaces :
            MergedPr(pr, stamp, alive) \in Pr
<1>1. NoPr \in Pr
  BY DEF NoPr, Pr
<1>2. ASSUME NEW b \in Branches PROVE Opened(b) \in Pr
  BY DEF NoPr, Pr, Opened
<1>3. ASSUME NEW pr \in Pr, NEW stamp \in BOOLEAN, NEW alive \in SUBSET Workspaces
      PROVE  MergedPr(pr, stamp, alive) \in Pr
  BY DEF Pr, MergedPr
<1>4. NoTask \in TaskType
  BY <1>1, GatesFact DEF NoTask, TaskType, Pcs, Ci
<1>5. Idle \in LoopType
  BY <1>1 DEF Idle, LoopType, Ci
<1>. QED
  BY <1>1, <1>2, <1>3, <1>4, <1>5

LEMMA ValuesOfTables ==
    NoRow \in RowType /\ NoEntry \in EntryType /\ NoObs \in ObsType
BY TypesOfValues DEF NoRow, RowType, NoEntry, EntryType, NoObs, ObsType, Ci

LEMMA InitTyping == Init => Typing
<1> SUFFICES ASSUME Init PROVE Typing
  OBVIOUS
<1>1. forge \in [Branches -> [pr: Pr, ci: Statuses]]
  <2>1. Opened(Home) \in Pr /\ \A b \in Branches : MergedPr(Opened(b), TRUE, {}) \in Pr
    BY TypesOfValues, ScmAssumption DEF ScmAssumption
  <2>. DEFINE S == {NoPr, Opened(Home)}
                    \cup {MergedPr(Opened(b), TRUE, {}) : b \in Branches \ {Home}}
  <2>2. S \subseteq Pr
    BY <2>1, TypesOfValues
  <2>3. forge \in [Branches -> [pr: S, ci: {"good"}]]
    BY DEF Init
  <2>. HIDE DEF S
  <2>. QED
    BY <2>2, <2>3 DEF Statuses
<1>2. WorldTyped
  BY <1>1, ScmAssumption DEF ScmAssumption, WorldTyped, Init
<1>3. TablesTyped
  BY ValuesOfTables, ScmAssumption DEF ScmAssumption, TablesTyped, Init, Consistent, WsType
<1>4. MemoryTyped
  BY ValuesOfTables, GatesFact DEF MemoryTyped, Init, CiType, Ci
<1>5. CallsTyped /\ LoopTyped /\ NamingTyped
  BY TypesOfValues DEF CallsTyped, LoopTyped, NamingTyped, Init, Idle, Archiving
<1>6. HistTyped
  BY ScmAssumption DEF ScmAssumption, HistTyped, HistType, Init
<1>. QED
  BY <1>2, <1>3, <1>4, <1>5, <1>6 DEF Typing

LEMMA TypingImpliesTypeOK ==
    ASSUME Typing, FixCounted
    PROVE  TypeOK
<1>1. ci \in [Workspaces -> [st: Ci, triggered: BOOLEAN, fixes: 0 .. Events + 1]]
  BY ScmAssumption DEF ScmAssumption, Typing, MemoryTyped, CiType, FixCounted
<1>2. \A i \in Tasks : task[i].w \in Workspaces \cup {None} /\ task[i].pr \in Pr
  BY DEF Typing, CallsTyped, TaskType
<1>. QED
  BY <1>1, <1>2 DEF Typing, TypeOK, WorldTyped, TablesTyped, MemoryTyped, HistTyped,
       Consistent, WsType, RowType, EntryType, ObsType, Stored

(* What a step leaves alone keeps its types. *)
LEMMA TypesFrame ==
    /\ WorldTyped /\ UNCHANGED world => WorldTyped'
    /\ TablesTyped /\ UNCHANGED tables => TablesTyped'
    /\ MemoryTyped /\ UNCHANGED memory => MemoryTyped'
    /\ CallsTyped /\ UNCHANGED task => CallsTyped'
    /\ LoopTyped /\ UNCHANGED loop => LoopTyped'
    /\ NamingTyped /\ UNCHANGED naming => NamingTyped'
    /\ HistTyped /\ UNCHANGED <<left, hist>> => HistTyped'
    /\ HistTyped /\ Event /\ UNCHANGED hist => HistTyped'
<1>1. WorldTyped /\ UNCHANGED world => WorldTyped'
  BY DEF WorldTyped, world
<1>2. TablesTyped /\ UNCHANGED tables => TablesTyped'
  BY DEF TablesTyped, Consistent, tables
<1>3. MemoryTyped /\ UNCHANGED memory => MemoryTyped'
  BY DEF MemoryTyped, memory
<1>4. HistTyped /\ Event /\ UNCHANGED hist => HistTyped'
  BY ScmAssumption DEF ScmAssumption, HistTyped, Event
<1>. QED
  BY <1>1, <1>2, <1>3, <1>4 DEF CallsTyped, LoopTyped, NamingTyped, HistTyped

(* A row of the table is rewritten, or an entry of the cache table is deleted.  *)
LEMMA RowWritten ==
    ASSUME Consistent(ws), NEW w \in Workspaces, NEW r \in WsType,
           r.st \in {"active", "archived"} <=> r.b # None, ws' = [ws EXCEPT ![w] = r]
    PROVE  Consistent(ws')
BY DEF Consistent

LEMMA RowDeleted ==
    ASSUME srow \in [Workspaces -> RowType], NEW w, Deleted(w)
    PROVE  srow' \in [Workspaces -> RowType]
BY ValuesOfTables DEF Deleted

(* What a step of a task may make of it. *)
LEMMA TaskChanges ==
    ASSUME CallsTyped, NEW i \in Tasks, NEW r \in TaskType, task' = [task EXCEPT ![i] = r]
    PROVE  CallsTyped'
BY DEF CallsTyped

LEMMA ReturnTypes ==
    ASSUME CallsTyped, NEW i \in Tasks, ~At(i, "none"), NEW pr \in Pr, NEW st \in Ci
    PROVE  /\ Return(i, pr, st) => CallsTyped'
           /\ ReturnNone(i) => CallsTyped'
<1>1. i # Client => i \in Workspaces
  BY DEF Tasks
<1>2. i # Client => [NoTask EXCEPT !.pc = "done", !.w = i, !.pr = pr, !.ci = st, !.some = TRUE] \in TaskType
  BY <1>1, GatesFact DEF NoTask, TaskType, Pcs
<1>3. i # Client => [NoTask EXCEPT !.pc = "done", !.w = i] \in TaskType
  BY <1>1, TypesOfValues DEF NoTask, TaskType, Pcs
<1>. QED
  BY <1>2, <1>3, TypesOfValues DEF Return, ReturnNone, CallsTyped

LEMMA ReconcileTypes ==
    ASSUME Typing, NEW w \in Workspaces, Active(w), Reconcile(w, ws[w].b)
    PROVE  /\ TablesTyped'
           /\ Actual(w, ws[w].b) \in Branches
           /\ UNCHANGED srow \/ srow' = [srow EXCEPT ![w] = NoRow]
<1>1. Consistent(ws) /\ srow \in [Workspaces -> RowType] /\ NoRow \in RowType
  BY ValuesOfTables DEF Typing, TablesTyped
<1>2. w \in tree => head[w] \in Branches
  BY DEF Typing, WorldTyped
<1>3. ws[w].b \in Branches /\ ws[w] \in WsType /\ ws[w].st = "active"
  BY <1>1 DEF Consistent, WsType, Active
<1>4. CASE UNCHANGED tables
  BY <1>2, <1>3, <1>4, TypesFrame DEF tables, Actual, Typing
<1>5. CASE /\ w \in tree
           /\ ws' = [ws EXCEPT ![w].b = head[w]]
           /\ srow' = [srow EXCEPT ![w] = NoRow]
  <2>. DEFINE r == [ws[w] EXCEPT !.b = head[w]]
  <2>1. r \in WsType /\ r.st = "active" /\ r.b # None
    BY <1>2, <1>3, <1>5, ScmAssumption DEF ScmAssumption, WsType
  <2>2. ws' = [ws EXCEPT ![w] = r]
    BY <1>5
  <2>. HIDE DEF r
  <2>3. Consistent(ws')
    BY <1>1, <2>1, <2>2, RowWritten
  <2>. QED
    BY <1>1, <1>2, <1>3, <1>5, <2>3 DEF Actual, TablesTyped
<1>. QED
  BY <1>4, <1>5 DEF Reconcile, Actual, Deleted

LEMMA TypingLookup ==
    ASSUME Typing, TaskShape, NEW i \in Tasks, Lookup(i)
    PROVE  Typing'
<1>. DEFINE w == task[i].w
<1>1. w \in Workspaces /\ task[i] \in TaskType /\ ~At(i, "none")
  BY DEF Lookup, At, TaskShape, Shaped, Typing, CallsTyped
<1>2. UNCHANGED <<world, memory, loop, naming, left, hist>>
  BY DEF Lookup
<1>4. ws[w].st \in {"active", "archived"} => ws[w].b \in Branches
  BY <1>1 DEF Consistent, WsType, Typing, TablesTyped
<1>5. CASE ~Stored(w)
  <2>1. CallsTyped' /\ UNCHANGED tables
    BY <1>1, <1>5, ReturnTypes, TypesOfValues DEF Lookup, Ci, Typing
  <2>. QED
    BY <1>2, <2>1, TypesFrame DEF Typing
<1>6. CASE Stored(w)
  <2>1. /\ TablesTyped'
        /\ Active(w) => Actual(w, ws[w].b) \in Branches
    BY <1>1, <1>6, ReconcileTypes, TypesFrame DEF Lookup, Typing
  <2>. DEFINE b == IF Active(w) THEN Actual(w, ws[w].b) ELSE ws[w].b
              p == IF task[i].op = "refresh" THEN "uncache" ELSE "resolve"
  <2>2. b \in Branches /\ p \in Pcs
    BY <1>4, <1>6, <2>1 DEF Stored, Pcs
  <2>3. task' = [task EXCEPT ![i].b = b, ![i].pc = p]
    BY <1>6 DEF Lookup
  <2>. HIDE DEF b, p
  <2>4. CallsTyped'
    BY <1>1, <2>2, <2>3 DEF Typing, TaskType, CallsTyped
  <2>. QED
    BY <1>2, <2>1, <2>4, TypesFrame DEF Typing
<1>. QED
  BY <1>5, <1>6

LEMMA TypingResolve ==
    ASSUME Typing, TaskShape, NEW i \in Tasks,
           ResolveSome(i) \/ ResolveNone(i) \/ Evict(i) \/ ResolveFails(i)
    PROVE  Typing'
<1>1. /\ task[i] \in TaskType /\ ~At(i, "none")
      /\ task[i].b \in Branches /\ task[i].w \in Workspaces
  BY DEF ResolveSome, ResolveNone, Evict, ResolveFails, At, TaskShape, Shaped, Typing, CallsTyped
<1>2. NoPr \in Pr /\ None \in Ci /\ cache[task[i].b] \in EntryType
  BY <1>1, TypesOfValues DEF Ci, Typing, MemoryTyped
<1>3. CASE ResolveSome(i)
  <2>1. CASE task[i].op \in {"create", "merge"} /\ Goto(i, "act") /\ UNCHANGED gate
    <3>1. CallsTyped'
      BY <1>1, <2>1 DEF Goto, Typing, CallsTyped, TaskType, Pcs
    <3>. QED
      BY <1>3, <2>1, <3>1, TypesFrame DEF ResolveSome, Typing, memory
  <2>2. ASSUME NEW g \in {gate[task[i].b]} \cup (IF Prunable(task[i].b) THEN {NewGate(task[i].b)} ELSE {}),
               gate' = [gate EXCEPT ![task[i].b] = g],
               task' = [task EXCEPT ![i].gate = g, ![i].pc = "lock"]
        PROVE  Typing'
    <3>1. g \in Gates
      <4>1. gate[task[i].b] \in Gates
        BY <1>1 DEF Typing, MemoryTyped
      <4>2. Prunable(task[i].b) => NewGate(task[i].b) \in Gates
        BY <4>1 DEF Prunable, Held, NewGate
      <4>. QED
        BY <2>2, <4>1, <4>2
    <3>2. CallsTyped'
      BY <1>1, <2>2, <3>1 DEF Typing, CallsTyped, TaskType, Pcs
    <3>3. MemoryTyped'
      BY <1>1, <1>3, <2>2, <3>1 DEF Typing, MemoryTyped, ResolveSome
    <3>. QED
      BY <1>3, <3>2, <3>3, TypesFrame DEF ResolveSome, Typing
  <2>. QED
    BY <1>3, <2>1, <2>2 DEF ResolveSome
<1>4. CASE ResolveNone(i)
  <2>1. CallsTyped'
    <3>1. CASE Return(i, NoPr, None)
      BY <1>1, <1>2, <3>1, ReturnTypes DEF Typing
    <3>2. CASE Goto(i, "evict")
      BY <1>1, <3>2 DEF Goto, Typing, CallsTyped, TaskType, Pcs
    <3>. QED
      BY <1>4, <3>1, <3>2 DEF ResolveNone
  <2>2. CASE UNCHANGED srow
    BY <1>4, <2>1, <2>2, TypesFrame DEF ResolveNone, Typing, tables
  <2>3. CASE Deleted(task[i].w)
    <3>1. TablesTyped'
      BY <1>4, <2>3, RowDeleted DEF ResolveNone, Typing, TablesTyped, Consistent
    <3>. QED
      BY <1>4, <2>1, <3>1, TypesFrame DEF ResolveNone, Typing
  <2>. QED
    BY <1>4, <2>2, <2>3 DEF ResolveNone
<1>6. CASE Evict(i)
  <2>1. CallsTyped'
    BY <1>1, <1>2, <1>6, ReturnTypes DEF Evict, Typing
  <2>2. MemoryTyped'
    BY <1>6, ValuesOfTables DEF Evict, Typing, MemoryTyped, Removed
  <2>3. hist' \in HistType
    BY <1>1, <1>6 DEF Evict, Removed, Tear, Typing, HistTyped, HistType
  <2>. QED
    BY <1>6, <2>1, <2>2, <2>3, TypesFrame DEF Evict, Typing, HistTyped
<1>5. CASE ResolveFails(i)
  <2>1. CallsTyped'
    BY <1>1, <1>2, <1>5, ReturnTypes DEF ResolveFails, ReturnEntry, EntryType, Typing
  <2>. QED
    BY <1>5, <2>1, TypesFrame DEF ResolveFails, Typing
<1>. QED
  BY <1>3, <1>4, <1>5, <1>6

LEMMA TypingFetch ==
    ASSUME Typing, TaskShape, NEW i \in Tasks, Lock(i) \/ Fetch(i)
    PROVE  Typing'
<1>1. /\ task[i] \in TaskType /\ ~At(i, "none")
      /\ task[i].b \in Branches /\ task[i].w \in Workspaces
  BY DEF Lock, Fetch, At, TaskShape, Shaped, Typing, CallsTyped
<1>2. /\ cache[task[i].b] \in EntryType /\ NoPr \in Pr /\ None \in Ci
      /\ forge[task[i].b].pr \in Pr /\ forge[task[i].b].ci \in Ci
  BY <1>1, TypesOfValues DEF Ci, Typing, MemoryTyped, WorldTyped
<1>3. CASE Lock(i)
  <2>1. CallsTyped'
    <3>1. CASE ReturnEntry(i, cache[task[i].b])
      BY <1>1, <1>2, <3>1, ReturnTypes DEF ReturnEntry, EntryType, Typing
    <3>2. CASE Goto(i, "fetch")
      BY <1>1, <3>2 DEF Goto, Typing, CallsTyped, TaskType, Pcs
    <3>. QED
      BY <1>3, <3>1, <3>2 DEF Lock
  <2>. QED
    BY <1>3, <2>1, TypesFrame DEF Lock, Typing
<1>4. CASE Fetch(i)
  <2>. DEFINE f == forge[task[i].b]
  <2>1. CASE /\ task' = [task EXCEPT ![i].pr = f.pr, ![i].pc = "store",
                                  ![i].ci = IF f.pr = NoPr THEN None ELSE f.ci]
             /\ UNCHANGED left
    <3>. DEFINE p == f.pr
                s == IF f.pr = NoPr THEN None ELSE f.ci
    <3>1. p \in Pr /\ s \in Ci
      BY <1>2
    <3>2. task' = [task EXCEPT ![i].pr = p, ![i].pc = "store", ![i].ci = s]
      BY <2>1
    <3>. HIDE DEF p, s
    <3>3. CallsTyped'
      BY <1>1, <3>1, <3>2 DEF Typing, CallsTyped, TaskType, Pcs
    <3>. QED
      BY <1>4, <2>1, <3>3, TypesFrame DEF Fetch, Typing
  <2>2. ASSUME Event, NEW prOk \in BOOLEAN, NEW ciOk \in BOOLEAN,
               task' = [task EXCEPT ![i].pc = "store", ![i].prOk = prOk, ![i].ciOk = ciOk,
                                  ![i].pr = IF prOk THEN f.pr ELSE NoPr,
                                  ![i].ci = IF ciOk THEN f.ci ELSE None]
        PROVE  Typing'
    <3>. DEFINE p == IF prOk THEN f.pr ELSE NoPr
                s == IF ciOk THEN f.ci ELSE None
    <3>1. p \in Pr /\ s \in Ci
      BY <1>2
    <3>. DEFINE r == [task[i] EXCEPT !.pc = "store", !.prOk = prOk, !.ciOk = ciOk,
                                     !.pr = p, !.ci = s]
    <3>2. task' = [task EXCEPT ![i] = r]
      BY <2>2
    <3>. HIDE DEF p, s
    <3>4. r \in TaskType
      BY <1>1, <3>1 DEF TaskType, Pcs
    <3>. HIDE DEF r
    <3>3. CallsTyped'
      BY <3>2, <3>4, TaskChanges DEF Typing
    <3>. QED
      BY <1>4, <2>2, <3>3, TypesFrame DEF Fetch, Typing
  <2>. QED
    BY <1>4, <2>1, <2>2 DEF Fetch
<1>. QED
  BY <1>3, <1>4

LEMMA TypingStore ==
    ASSUME Typing, TaskShape, NEW i \in Tasks, Store(i) \/ Upsert(i)
    PROVE  Typing'
<1>1. /\ task[i] \in TaskType /\ ~At(i, "none")
      /\ task[i].b \in Branches /\ task[i].w \in Workspaces
  BY DEF Store, Upsert, At, TaskShape, Shaped, Typing, CallsTyped
<1>2. cache[task[i].b] \in EntryType
  BY <1>1 DEF Typing, MemoryTyped
<1>3. Failed(i) \in BOOLEAN
  BY DEF Failed
<1>4. CASE Store(i)
  <2>. DEFINE b == task[i].b
              p == MergeScmResults(i, cache[b]).pr
              s == MergeScmResults(i, cache[b]).ci
  <2>1. p \in Pr /\ s \in Ci
    BY <1>1, <1>2 DEF MergeScmResults, TaskType, EntryType
  <2>2. CASE /\ cache' = [cache EXCEPT ![b] = [on |-> TRUE, pr |-> p, ci |-> s,
                                               err |-> Failed(i), fresh |-> TRUE]]
             /\ task' = [task EXCEPT ![i].pc = "row", ![i].pr = p, ![i].ci = s]
             /\ hist' = IF p.st = "merged"
                         THEN [hist EXCEPT !.merged = @ \cup {b}] ELSE hist
    <3>0. b \in Branches
      BY <1>1
    <3>. HIDE DEF p, s, b
    <3>1. CallsTyped'
      BY <1>1, <2>1, <2>2 DEF Typing, CallsTyped, TaskType, Pcs
    <3>2. MemoryTyped'
      BY <1>3, <1>4, <2>1, <2>2, <3>0 DEF Typing, MemoryTyped, EntryType, Store
    <3>3. hist' \in HistType
      BY <2>2, <3>0 DEF Typing, HistTyped, HistType
    <3>. QED
      BY <1>4, <3>1, <3>2, <3>3, TypesFrame DEF Store, Typing, HistTyped
  <2>3. CASE Return(i, p, s) /\ UNCHANGED <<cache, hist>>
    <3>1. CallsTyped'
      BY <1>1, <2>1, <2>3, ReturnTypes DEF Typing
    <3>. QED
      BY <1>4, <2>3, <3>1, TypesFrame DEF Store, Typing, memory
  <2>. QED
    BY <1>4, <2>2, <2>3 DEF Store
<1>5. CASE Upsert(i)
  <2>1. CallsTyped'
    BY <1>1, <1>5, ReturnTypes DEF Upsert, TaskType, Typing
  <2>2. [b |-> task[i].b, pr |-> task[i].pr, ci |-> task[i].ci, err |-> Failed(i)] \in RowType
    BY <1>1, <1>3 DEF TaskType, RowType
  <2>3. TablesTyped'
    BY <1>5, <2>2 DEF Upsert, Typing, TablesTyped, Consistent
  <2>. QED
    BY <1>5, <2>1, <2>3, TypesFrame DEF Upsert, Typing
<1>. QED
  BY <1>4, <1>5

LEMMA TypingCommand ==
    ASSUME Typing, TaskShape, Act \/ Uncache \/ Unrow
    PROVE  Typing'
<1>0. Client \in Tasks
  BY DEF Tasks
<1>1. task[Client] \in TaskType /\ ~At(Client, "none") /\ task[Client].w \in Workspaces
  BY <1>0 DEF Act, Uncache, Unrow, At, TaskShape, Shaped, Typing, CallsTyped
<1>2. NoPr \in Pr /\ None \in Ci
  BY TypesOfValues DEF Ci
<1>3. CASE Act
  <2>. DEFINE b == task[Client].b
  <2>0. b \in Branches /\ forge[b] \in [pr: Pr, ci: Statuses]
    BY <1>0, <1>3 DEF Act, At, TaskShape, Shaped, Typing, WorldTyped
  <2>1. CallsTyped'
    <3>1. CASE Goto(Client, "uncache")
      BY <1>0, <1>1, <3>1 DEF Goto, Typing, CallsTyped, TaskType, Pcs
    <3>2. CASE Return(Client, NoPr, None)
      BY <1>0, <1>1, <1>2, <3>2, ReturnTypes DEF Typing
    <3>. QED
      BY <1>3, <3>1, <3>2 DEF Act
  <2>2. HistTyped'
    BY <1>3, TypesFrame DEF Act, Typing
  <2>3. forge' \in [Branches -> [pr: Pr, ci: Statuses]]
    <3>1. CASE forge' = [forge EXCEPT ![b].pr = Opened(b)]
      BY <2>0, <3>1, TypesOfValues DEF Typing, WorldTyped
    <3>2. ASSUME NEW stamp \in Stamps, forge' = [forge EXCEPT ![b].pr = MergedPr(@, stamp, Alive)]
          PROVE  forge' \in [Branches -> [pr: Pr, ci: Statuses]]
      <4>. DEFINE p == MergedPr(forge[b].pr, stamp, Alive)
      <4>1. p \in Pr
        BY <2>0, TypesOfValues, ScmAssumption DEF ScmAssumption, Alive
      <4>2. forge' = [forge EXCEPT ![b].pr = p]
        BY <2>0, <3>2 DEF Typing, WorldTyped
      <4>. HIDE DEF p
      <4>. QED
        BY <2>0, <4>1, <4>2 DEF Typing, WorldTyped
    <3>3. CASE UNCHANGED forge
      BY <3>3 DEF Typing, WorldTyped
    <3>. QED
      BY <1>3, <3>1, <3>2, <3>3 DEF Act
  <2>. QED
    BY <1>3, <2>1, <2>2, <2>3, TypesFrame DEF Act, Typing, WorldTyped
<1>4. CASE Uncache
  <2>0. task[Client].b \in Branches
    BY <1>0, <1>4 DEF Uncache, At, TaskShape, Shaped
  <2>1. CallsTyped'
    BY <1>0, <1>1, <1>4 DEF Uncache, Goto, Typing, CallsTyped, TaskType, Pcs
  <2>2. MemoryTyped'
    BY <1>4, ValuesOfTables DEF Uncache, Typing, MemoryTyped, Removed
  <2>3. HistTyped'
    BY <1>4, <2>0 DEF Uncache, Removed, Tear, Typing, HistTyped, HistType
  <2>. QED
    BY <1>4, <2>1, <2>2, <2>3, TypesFrame DEF Uncache, Typing
<1>5. CASE Unrow
  <2>. DEFINE r == IF task[Client].op = "refresh"
                   THEN [NoTask EXCEPT !.pc = "lookup", !.op = "load", !.w = task[Client].w]
                   ELSE NoTask
  <2>1. r \in TaskType
    BY <1>1, TypesOfValues DEF TaskType, Pcs, Commands, NoTask
  <2>2. task' = [task EXCEPT ![Client] = r]
    BY <1>0, <1>5 DEF Unrow, Typing, CallsTyped
  <2>. HIDE DEF r
  <2>3. CallsTyped'
    BY <1>0, <2>1, <2>2, TaskChanges DEF Typing
  <2>4. TablesTyped'
    BY <1>5, RowDeleted DEF Unrow, Typing, TablesTyped, Consistent
  <2>5. task[Client].b \in Branches
    BY <1>0, <1>5 DEF Unrow, At, TaskShape, Shaped
  <2>6. HistTyped'
    BY <1>5, <2>5 DEF Unrow, Tear, Typing, HistTyped, HistType
  <2>. QED
    BY <1>5, <2>3, <2>4, <2>6, TypesFrame DEF Unrow, Typing
<1>. QED
  BY <1>3, <1>4, <1>5

LEMMA TypingCall ==
    ASSUME Typing, NEW op \in Commands, NEW w \in Workspaces, Call(op, w)
    PROVE  Typing'
<1>1. [NoTask EXCEPT !.pc = "lookup", !.op = op, !.w = w] \in TaskType
  BY TypesOfValues DEF TaskType, Pcs, NoTask
<1>2. CallsTyped'
  BY <1>1, TaskChanges DEF Call, Typing, CallsTyped, Tasks
<1>. QED
  BY <1>2, TypesFrame DEF Call, Typing

LEMMA TypingPoll ==
    ASSUME Typing, Seed \/ Tick \/ Sleep \/ \E w \in Workspaces : HandleNone(w)
    PROVE  Typing'
<1>1. CASE Seed
  <2>1. ASSUME NEW bad, NEW w \in Workspaces, NEW r \in Parsed(w, bad)
        PROVE  SeedEntry(r) \in EntryType
    <3>1. srow[w] \in RowType /\ None \in Ci /\ NoPr \in Pr
      BY TypesOfValues DEF Typing, TablesTyped, Ci
    <3>2. r \in RowType
      BY <3>1 DEF Parsed, RowType
    <3>. QED
      BY <3>2 DEF SeedEntry, EntryType, RowType
  <2>2. cache' \in [Branches -> EntryType]
    <3>1. CASE UNCHANGED cache
      BY <3>1 DEF Typing, MemoryTyped
    <3>2. ASSUME NEW bad, SeedFrom(bad)
          PROVE  cache' \in [Branches -> EntryType]
      <4>1. PICK c \in [Branches -> {cache[b] : b \in Branches}
                    \cup UNION {{SeedEntry(r) : r \in Parsed(w, bad)} : w \in Workspaces}] :
                cache' = c
        BY <3>2 DEF SeedFrom
      <4>. QED
        BY <2>1, <4>1 DEF Typing, MemoryTyped
    <3>3. UNCHANGED cache \/ \E bad \in SUBSET Workspaces : SeedFrom(bad)
      BY <1>1 DEF Seed
    <3>. QED
      BY <3>1, <3>2, <3>3
  <2>3. MemoryTyped'
    BY <1>1, <2>2 DEF Seed, Typing, MemoryTyped
  <2>4. HistTyped'
    BY <1>1 DEF Seed, SeedFrom, Typing, HistTyped, HistType
  <2>5. LoopTyped'
    BY <1>1, TypesOfValues DEF Seed, LoopTyped, Idle, Archiving
  <2>. QED
    BY <1>1, <2>3, <2>4, <2>5, TypesFrame DEF Seed, Typing
<1>2. CASE Tick
  <2>1. \A w \in Workspaces :
            [NoTask EXCEPT !.pc = "lookup", !.op = "poll", !.w = w] \in TaskType
    BY TypesOfValues DEF TaskType, Pcs, NoTask
  <2>2. CallsTyped'
    BY <1>2, <2>1 DEF Tick, Typing, CallsTyped, Due
  <2>3. LoopTyped'
    BY <1>2 DEF Tick, Typing, LoopTyped, LoopType, Archiving
  <2>. QED
    BY <1>2, <2>2, <2>3, TypesFrame DEF Tick, Typing
<1>3. CASE Sleep
  <2>1. LoopTyped'
    BY <1>3, TypesOfValues DEF Sleep, LoopTyped, Idle, Archiving
  <2>. QED
    BY <1>3, <2>1, TypesFrame DEF Sleep, Typing
<1>4. CASE \E w \in Workspaces : HandleNone(w)
  BY <1>4, TypesOfValues, TypesFrame DEF HandleNone, Typing, CallsTyped, Tasks
<1>. QED
  BY <1>1, <1>2, <1>3, <1>4

(* What a CI status may do: the memory of the workspace, its rows, an event.    *)
LEMMA CiFixEffect ==
    ASSUME Typing, NEW w \in Workspaces, NEW st \in Ci, CiFix(w, st)
    PROVE  /\ TablesTyped'
           /\ UNCHANGED srow \/ srow' = [srow EXCEPT ![w] = NoRow]
           /\ left' \in 0 .. Events
           /\ ci' \in [Workspaces -> CiType]
           /\ FixCounted => FixCounted'
<1>0. ci \in [Workspaces -> CiType] /\ ci[w] \in CiType
  BY DEF Typing, MemoryTyped
<1>1. PICK within \in BOOLEAN :
        \/ /\ IsCiFailureTransition(w, st) /\ ~within
           /\ IF Active(w) THEN Reconcile(w, ws[w].b) ELSE UNCHANGED tables
           /\ \/ /\ Stored(w)
                 /\ ci' = [ci EXCEPT ![w] = [st |-> st, triggered |-> TRUE,
                                             fixes |-> @.fixes + 1]]
                 /\ UNCHANGED left
              \/ /\ IF Stored(w) THEN Event ELSE UNCHANGED left
                 /\ ci' = [ci EXCEPT ![w].st = st]
        \/ /\ ~IsCiFailureTransition(w, st) \/ within
           /\ ci' = [ci EXCEPT ![w].st = st,
                               ![w].fixes = IF st = "good" THEN 0 ELSE @]
           /\ UNCHANGED <<tables, left>>
  BY DEF CiFix
<1>2. TablesTyped' /\ (UNCHANGED srow \/ srow' = [srow EXCEPT ![w] = NoRow])
  <2>1. CASE UNCHANGED tables
    BY <2>1, TypesFrame DEF tables, Typing
  <2>2. CASE Active(w) /\ Reconcile(w, ws[w].b)
    BY <2>2, ReconcileTypes
  <2>. QED
    BY <1>1, <2>1, <2>2
<1>3. left' \in 0 .. Events
  BY <1>1, ScmAssumption DEF ScmAssumption, Event, Typing, HistTyped
<1>4. CASE /\ IsCiFailureTransition(w, st)
           /\ ci' = [ci EXCEPT ![w] = [st |-> st, triggered |-> TRUE, fixes |-> @.fixes + 1]]
  <2>. DEFINE r == [st |-> st, triggered |-> TRUE, fixes |-> ci[w].fixes + 1]
  <2>1. r \in CiType /\ r.st = "failure" /\ r.fixes = ci[w].fixes + 1 /\ ci[w].st = "good"
    BY <1>0, <1>4 DEF CiType, IsCiFailureTransition, Ci, Statuses
  <2>2. ci' = [ci EXCEPT ![w] = r]
    BY <1>0, <1>4
  <2>. HIDE DEF r
  <2>. QED
    BY <1>0, <1>2, <1>3, <2>1, <2>2 DEF FixCounted
<1>5. CASE IsCiFailureTransition(w, st) /\ ci' = [ci EXCEPT ![w].st = st]
  <2>. DEFINE r == [ci[w] EXCEPT !.st = st]
  <2>1. r \in CiType /\ r.st = "failure" /\ r.fixes = ci[w].fixes
    BY <1>0, <1>5 DEF CiType, IsCiFailureTransition
  <2>2. ci' = [ci EXCEPT ![w] = r]
    BY <1>0, <1>5
  <2>. HIDE DEF r
  <2>. QED
    BY <1>0, <1>2, <1>3, <2>1, <2>2 DEF FixCounted
<1>6. CASE ci' = [ci EXCEPT ![w].st = st, ![w].fixes = IF st = "good" THEN 0 ELSE @]
  <2>. DEFINE n == IF st = "good" THEN 0 ELSE ci[w].fixes
              r == [ci[w] EXCEPT !.st = st, !.fixes = n]
  <2>1. n \in Nat /\ (st = "good" => n = 0) /\ n <= ci[w].fixes
    BY <1>0 DEF CiType
  <2>2. ci' = [ci EXCEPT ![w] = r]
    BY <1>0, <1>6
  <2>. HIDE DEF n
  <2>3. r \in CiType /\ r.st = st /\ r.fixes = n
    BY <1>0, <2>1 DEF CiType
  <2>. HIDE DEF r
  <2>4. FixCounted => FixCounted'
    BY <1>0, <2>1, <2>2, <2>3 DEF FixCounted, CiType
  <2>. QED
    BY <1>0, <1>2, <1>3, <2>2, <2>3, <2>4
<1>. QED
  BY <1>1, <1>4, <1>5, <1>6

LEMMA TypingHandle ==
    ASSUME Typing, TaskShape, NEW w \in Workspaces, Handle(w)
    PROVE  Typing'
<1>1. task[w] \in TaskType
  BY DEF Typing, CallsTyped, Tasks
<1>. DEFINE pr == task[w].pr
<1>2. pr \in Pr /\ task[w].ci \in Ci
  BY <1>1 DEF TaskType
<1>3. CallsTyped'
  BY TypesOfValues DEF Handle, Typing, CallsTyped, Tasks
<1>4. observed' \in [Workspaces -> ObsType]
  BY <1>2 DEF Handle, Typing, MemoryTyped, ObsType, Pr
<1>5. hist' \in HistType
  BY <1>2 DEF Handle, Typing, HistTyped, HistType, Pr
<1>6. CASE UNCHANGED <<tables, ci, left>> /\ loop' = [loop EXCEPT !.w = w, !.ci = task[w].ci, !.why = pr, !.pc = "archRead"]
  <2>1. LoopTyped'
    BY <1>2, <1>6 DEF Typing, LoopTyped, LoopType, Archiving
  <2>2. MemoryTyped'
    BY <1>4, <1>6 DEF Handle, Typing, MemoryTyped
  <2>3. HistTyped'
    BY <1>5, <1>6 DEF Typing, HistTyped
  <2>. QED
    BY <1>3, <1>6, <2>1, <2>2, <2>3, TypesFrame DEF Handle, Typing
<1>7. CASE CiFix(w, task[w].ci) /\ UNCHANGED loop
  <2>1. TablesTyped' /\ left' \in 0 .. Events /\ ci' \in [Workspaces -> CiType]
    BY <1>2, <1>7, CiFixEffect
  <2>2. MemoryTyped'
    BY <1>4, <2>1 DEF Handle, Typing, MemoryTyped
  <2>. QED
    BY <1>3, <1>5, <1>7, <2>1, <2>2, TypesFrame DEF Handle, Typing, HistTyped
<1>. QED
  BY <1>6, <1>7 DEF Handle

(* The branches that a deletion may leave behind.                              *)
LEMMA HeadsAfterDelete ==
    ASSUME WorldTyped, NEW b \in Branches \cup {None}, NEW del, NEW t \in SUBSET Workspaces,
           t \subseteq tree, tree' = t, DeleteHead(b, del, t), UNCHANGED forge
    PROVE  WorldTyped'
BY DEF WorldTyped, DeleteHead

LEMMA ArchivedTypes ==
    ASSUME TablesTyped, NEW w \in Workspaces, NEW del, Archived(w, del)
    PROVE  TablesTyped' /\ srow' = [srow EXCEPT ![w] = NoRow]
<1>1. srow' \in [Workspaces -> RowType] /\ srow' = [srow EXCEPT ![w] = NoRow]
  BY RowDeleted DEF Archived, TablesTyped, Deleted
<1>2. Consistent(ws')
  <2>. DEFINE d == [st |-> "deleted", b |-> None]
              a == [ws[w] EXCEPT !.st = "archived"]
  <2>0. Consistent(ws) /\ ws[w] \in WsType
    BY DEF TablesTyped, Consistent
  <2>1. d \in WsType /\ d.st = "deleted" /\ d.b = None
    BY DEF WsType
  <2>2. Stored(w) => a \in WsType /\ a.st = "archived" /\ a.b # None
    BY <2>0 DEF WsType, Consistent, Stored
  <2>3. \/ ws' = ws
        \/ ws' = [ws EXCEPT ![w] = d]
        \/ Stored(w) /\ ws' = [ws EXCEPT ![w] = a]
    BY DEF Archived
  <2>. HIDE DEF d, a
  <2>. QED
    BY <2>0, <2>1, <2>2, <2>3, RowWritten
<1>. QED
  BY <1>1, <1>2 DEF TablesTyped

LEMMA TypingArchive ==
    ASSUME Typing, ArchiveRead \/ ArchiveTree \/ ArchiveCommit \/ CiAfterArchive
    PROVE  Typing'
<1>1. loop \in LoopType /\ loop.w \in Workspaces
  BY DEF Typing, LoopTyped, ArchiveRead, ArchiveTree, ArchiveCommit, CiAfterArchive, Archiving
<1>2. CASE ArchiveRead
  <2>1. HistTyped'
    BY <1>2, TypesFrame DEF ArchiveRead, Typing
  <2>2. LoopTyped'
    <3>1. ASSUME NEW del \in DeleteBranch,
                 loop' = [loop EXCEPT !.b = ws[loop.w].b, !.path = Active(loop.w), !.del = del,
                                     !.pc = "archTree"]
          PROVE  LoopTyped'
      <4>. DEFINE b == ws[loop.w].b
                  p == Active(loop.w)
                  r == [loop EXCEPT !.b = b, !.path = p, !.del = del, !.pc = "archTree"]
      <4>1. b \in Branches \cup {None} /\ p \in BOOLEAN /\ del \in BOOLEAN
        BY <1>1, ScmAssumption
           DEF ScmAssumption, Active, Typing, TablesTyped, Consistent, WsType
      <4>. HIDE DEF b, p
      <4>2. r \in LoopType /\ r.w = loop.w
        BY <1>1, <4>1 DEF LoopType, Archiving
      <4>. QED
        BY <1>1, <3>1, <4>2 DEF LoopTyped, b, p
    <3>2. CASE loop' = [loop EXCEPT !.pc = "ci"]
      BY <1>1, <3>2 DEF LoopTyped, LoopType
    <3>. QED
      BY <1>2, <3>1, <3>2 DEF ArchiveRead
  <2>. QED
    BY <1>2, <2>1, <2>2, TypesFrame DEF ArchiveRead, Typing
<1>3. CASE ArchiveTree
  <2>1. HistTyped'
    BY <1>3, TypesFrame DEF ArchiveTree, Typing
  <2>2. LoopTyped'
    BY <1>1, <1>3 DEF ArchiveTree, LoopTyped, LoopType, Archiving
  <2>3. WorldTyped'
    <3>1. tree' \subseteq tree /\ tree \subseteq Workspaces
      BY <1>3 DEF ArchiveTree, Typing, WorldTyped
    <3>2. DeleteHead(loop.b, loop.del, tree') /\ UNCHANGED forge
      BY <1>3 DEF ArchiveTree
    <3>3. loop.b \in Branches \cup {None}
      BY <1>1 DEF LoopType
    <3>. QED
      BY <3>1, <3>2, <3>3, HeadsAfterDelete DEF Typing
  <2>. QED
    BY <1>3, <2>1, <2>2, <2>3, TypesFrame DEF ArchiveTree, Typing
<1>4. CASE ArchiveCommit
  <2>1. LoopTyped'
    BY <1>1, <1>4 DEF ArchiveCommit, LoopTyped, LoopType
  <2>2. HistTyped'
    BY <1>4, TypesFrame DEF ArchiveCommit, Typing
  <2>3. TablesTyped'
    BY <1>1, <1>4, ArchivedTypes, TypesFrame DEF ArchiveCommit, Typing
  <2>. QED
    BY <1>4, <2>1, <2>2, <2>3, TypesFrame DEF ArchiveCommit, Typing
<1>5. CASE CiAfterArchive
  <2>1. loop.ci \in Ci
    BY <1>1 DEF LoopType
  <2>2. TablesTyped' /\ left' \in 0 .. Events /\ ci' \in [Workspaces -> CiType]
    BY <1>1, <1>5, <2>1, CiFixEffect DEF CiAfterArchive
  <2>3. LoopTyped'
    BY <1>5, TypesOfValues DEF CiAfterArchive, LoopTyped, LoopType, Archiving, Idle
  <2>. QED
    BY <1>5, <2>2, <2>3, TypesFrame DEF CiAfterArchive, Typing, HistTyped, MemoryTyped
<1>. QED
  BY <1>2, <1>3, <1>4, <1>5

LEMMA TypingWorkspace ==
    ASSUME Typing, NEW w \in Workspaces, NEW b \in Branches,
           CreateWorkspace(w, b) \/ RenameByAgent(w, b) \/ AutoRenameBegin(w)
    PROVE  Typing'
<1>1. Consistent(ws) /\ ws[w] \in WsType
  BY DEF Typing, TablesTyped, Consistent
<1>2. b # None
  BY ScmAssumption DEF ScmAssumption
<1>3. HistTyped'
  BY TypesFrame DEF CreateWorkspace, RenameByAgent, AutoRenameBegin, Typing
<1>4. CASE CreateWorkspace(w, b)
  <2>. DEFINE r == [st |-> "active", b |-> b]
  <2>1. r \in WsType /\ r.st = "active" /\ r.b # None
    BY <1>2 DEF WsType
  <2>2. ws' = [ws EXCEPT ![w] = r]
    BY <1>4 DEF CreateWorkspace
  <2>. HIDE DEF r
  <2>3. Consistent(ws')
    BY <1>1, <2>1, <2>2, RowWritten
  <2>4. WorldTyped'
    BY <1>2, <1>4 DEF CreateWorkspace, Typing, WorldTyped
  <2>. QED
    BY <1>3, <1>4, <2>3, <2>4, TypesFrame DEF CreateWorkspace, Typing, TablesTyped
<1>5. CASE RenameByAgent(w, b)
  <2>1. WorldTyped'
    BY <1>2, <1>5 DEF RenameByAgent, Typing, WorldTyped
  <2>. QED
    BY <1>3, <1>5, <2>1, TypesFrame DEF RenameByAgent, Typing
<1>6. CASE AutoRenameBegin(w)
  <2>1. ws[w].b \in Branches
    BY <1>1, <1>6 DEF AutoRenameBegin, Active, Consistent, WsType, Typing, TablesTyped
  <2>2. NamingTyped'
    BY <1>6, <2>1 DEF AutoRenameBegin, NamingTyped
  <2>. QED
    BY <1>3, <1>6, <2>2, TypesFrame DEF AutoRenameBegin, Typing
<1>. QED
  BY <1>4, <1>5, <1>6

(* A rename, whose workspace may have lost its row. *)
LEMMA BranchWritten ==
    ASSUME Typing, NEW w \in Workspaces, NEW b \in Branches,
           ws' = IF Stored(w) THEN [ws EXCEPT ![w].b = b] ELSE ws
    PROVE  Consistent(ws')
<1>1. Consistent(ws) /\ ws[w] \in WsType /\ b # None
  BY ScmAssumption DEF ScmAssumption, Typing, TablesTyped, Consistent
<1>. DEFINE r == [ws[w] EXCEPT !.b = b]
<1>2. Stored(w) => r \in WsType /\ r.st \in {"active", "archived"} /\ r.b # None
  BY <1>1 DEF WsType, Stored
<1>3. CASE Stored(w)
  <2>1. ws' = [ws EXCEPT ![w] = r]
    BY <1>3
  <2>. HIDE DEF r
  <2>. QED
    BY <1>1, <1>2, <1>3, <2>1, RowWritten
<1>4. CASE ~Stored(w)
  BY <1>1, <1>4
<1>. QED
  BY <1>3, <1>4

LEMMA TypingRename ==
    ASSUME Typing, NEW b \in Branches, AutoRenameRow(b)
    PROVE  Typing'
<1>1. naming \in [w: Workspaces, b: Branches \cup {None}, old: Branches]
  BY DEF AutoRenameRow, Typing, NamingTyped
<1>2. Consistent(ws')
  BY <1>1, BranchWritten DEF AutoRenameRow
<1>3. NamingTyped'
  BY <1>1 DEF AutoRenameRow, NamingTyped
<1>. QED
  BY <1>2, <1>3, TypesFrame DEF AutoRenameRow, Typing, TablesTyped

LEMMA TypingSync ==
    ASSUME Typing,
           AutoRenameGit \/ \E v \in Workspaces : SyncBranch(v)
    PROVE  Typing'
<1>1. CASE AutoRenameGit
  <2>. DEFINE w == naming.w
  <2>0. naming \in [w: Workspaces, b: Branches, old: Branches] /\ w \in Workspaces
    BY <1>1 DEF AutoRenameGit, Typing, NamingTyped, NoName
  <2>2. CASE head' = [head EXCEPT ![w] = naming.b] /\ UNCHANGED ws
    <3>1. WorldTyped'
      BY <1>1, <2>0, <2>2, ScmAssumption
         DEF ScmAssumption, AutoRenameGit, Typing, WorldTyped
    <3>. QED
      BY <1>1, <2>2, <3>1, TypesFrame DEF AutoRenameGit, Typing, tables, NamingTyped
  <2>3. CASE /\ ws' = IF Stored(w) THEN [ws EXCEPT ![w].b = naming.old] ELSE ws
             /\ UNCHANGED head
    <3>3. Consistent(ws')
      BY <2>0, <2>3, BranchWritten
    <3>. QED
      BY <1>1, <2>3, <3>3, TypesFrame DEF AutoRenameGit, Typing, TablesTyped, NamingTyped, world
  <2>. QED
    BY <1>1, <2>2, <2>3 DEF AutoRenameGit
<1>2. ASSUME NEW v \in Workspaces, SyncBranch(v)
      PROVE  Typing'
  <2>. DEFINE r == [ws[v] EXCEPT !.b = head[v]]
  <2>0. Consistent(ws) /\ ws[v] \in WsType
    BY DEF Typing, TablesTyped, Consistent
  <2>1. r \in WsType /\ r.st = "active" /\ r.b # None
    BY <1>2, <2>0 DEF WsType, SyncBranch, Active, Typing, WorldTyped
  <2>2. ws' = [ws EXCEPT ![v] = r]
    BY <1>2 DEF SyncBranch
  <2>. HIDE DEF r
  <2>3. Consistent(ws')
    BY <2>0, <2>1, <2>2, RowWritten
  <2>. QED
    BY <1>2, <2>3, TypesFrame DEF SyncBranch, Typing, TablesTyped
<1>. QED
  BY <1>1, <1>2

LEMMA TypingUser ==
    ASSUME Typing, NEW w \in Workspaces, ArchiveByUser(w) \/ RestoreByUser(w)
    PROVE  Typing'
<1>0. Consistent(ws) /\ ws[w] \in WsType
  BY DEF Typing, TablesTyped, Consistent
<1>1. HistTyped'
  BY TypesFrame DEF ArchiveByUser, RestoreByUser, Typing
<1>2. CASE ArchiveByUser(w)
  <2>1. PICK del \in DeleteBranch : DeleteHead(ws[w].b, del, tree') /\ Archived(w, del)
    BY <1>2 DEF ArchiveByUser
  <2>2. TablesTyped'
    BY <2>1, ArchivedTypes DEF Typing
  <2>3. tree' \subseteq tree /\ tree \subseteq Workspaces /\ ws[w].b \in Branches \cup {None}
    BY <1>0, <1>2 DEF ArchiveByUser, Typing, WorldTyped, WsType
  <2>4. WorldTyped'
    BY <1>2, <2>1, <2>3, HeadsAfterDelete DEF ArchiveByUser, Typing
  <2>. QED
    BY <1>1, <1>2, <2>2, <2>4, TypesFrame DEF ArchiveByUser, Typing
<1>3. CASE RestoreByUser(w)
  <2>. DEFINE r == [ws[w] EXCEPT !.st = "active"]
  <2>1. r \in WsType /\ r.st = "active" /\ r.b # None /\ ws[w].b \in Branches
    BY <1>0, <1>3 DEF WsType, RestoreByUser, Consistent
  <2>2. ws' = [ws EXCEPT ![w] = r]
    BY <1>3 DEF RestoreByUser
  <2>. HIDE DEF r
  <2>3. Consistent(ws')
    BY <1>0, <2>1, <2>2, RowWritten
  <2>4. WorldTyped'
    BY <1>3, <2>1, ScmAssumption DEF ScmAssumption, RestoreByUser, Typing, WorldTyped
  <2>. QED
    BY <1>1, <1>3, <2>3, <2>4, TypesFrame DEF RestoreByUser, Typing, TablesTyped
<1>. QED
  BY <1>2, <1>3

LEMMA TypingForge ==
    ASSUME Typing, NEW b \in Branches,
           \/ OpenPr(b)
           \/ \E stamp \in Stamps : MergePr(b, stamp)
           \/ \E st \in Statuses : CiChanges(b, st)
    PROVE  Typing'
<1>0. forge \in [Branches -> [pr: Pr, ci: Statuses]] /\ forge[b] \in [pr: Pr, ci: Statuses]
  BY DEF Typing, WorldTyped
<1>1. HistTyped'
  BY TypesFrame DEF OpenPr, MergePr, CiChanges, Typing
<1>2. CASE OpenPr(b)
  <2>1. forge' \in [Branches -> [pr: Pr, ci: Statuses]]
    BY <1>0, <1>2, TypesOfValues DEF OpenPr
  <2>. QED
    BY <1>1, <1>2, <2>1, TypesFrame DEF OpenPr, Typing, WorldTyped
<1>3. ASSUME NEW stamp \in Stamps, MergePr(b, stamp) PROVE Typing'
  <2>. DEFINE p == MergedPr(forge[b].pr, stamp, Alive)
  <2>1. p \in Pr
    BY <1>0, TypesOfValues, ScmAssumption DEF ScmAssumption, Alive
  <2>2. forge' = [forge EXCEPT ![b].pr = p]
    BY <1>0, <1>3 DEF MergePr
  <2>. HIDE DEF p
  <2>3. forge' \in [Branches -> [pr: Pr, ci: Statuses]]
    BY <1>0, <2>1, <2>2
  <2>. QED
    BY <1>1, <1>3, <2>3, TypesFrame DEF MergePr, Typing, WorldTyped
<1>4. ASSUME NEW st \in Statuses, CiChanges(b, st) PROVE Typing'
  <2>1. forge' \in [Branches -> [pr: Pr, ci: Statuses]]
    BY <1>0, <1>4 DEF CiChanges
  <2>. QED
    BY <1>1, <1>4, <2>1, TypesFrame DEF CiChanges, Typing, WorldTyped
<1>. QED
  BY <1>2, <1>3, <1>4

LEMMA TypingTime ==
    ASSUME Typing, Time \/ \E w \in Workspaces : Select(w)
    PROVE  Typing'
<1>1. CASE \E b \in Branches : Expire(b)
  <2>0. PICK b \in Branches : Expire(b)
    BY <1>1
  <2>. DEFINE e == [cache[b] EXCEPT !.fresh = FALSE]
  <2>2. e \in EntryType
    BY DEF Typing, MemoryTyped, EntryType
  <2>3. cache' = [cache EXCEPT ![b] = e]
    BY <2>0 DEF Expire
  <2>. HIDE DEF e
  <2>1. MemoryTyped'
    BY <2>0, <2>2, <2>3 DEF Expire, Typing, MemoryTyped
  <2>. QED
    BY <2>0, <2>1, TypesFrame DEF Expire, Typing
<1>2. CASE \E w \in Workspaces : Elapse(w)
  <2>1. MemoryTyped'
    BY <1>2 DEF Elapse, Typing, MemoryTyped
  <2>. QED
    BY <1>2, <2>1, TypesFrame DEF Elapse, Typing
<1>3. CASE Rest
  <2>1. \A b \in Branches : [cache[b] EXCEPT !.fresh = FALSE] \in EntryType
    BY DEF Typing, MemoryTyped, EntryType
  <2>2. MemoryTyped'
    BY <1>3, <2>1 DEF Rest, Typing, MemoryTyped
  <2>. QED
    BY <1>3, <2>2, TypesFrame DEF Rest, Typing
<1>4. CASE \E w \in Workspaces : Select(w)
  <2>1. MemoryTyped'
    BY <1>4 DEF Select, Typing, MemoryTyped
  <2>. QED
    BY <1>4, <2>1, TypesFrame DEF Select, Typing
<1>. QED
  BY <1>1, <1>2, <1>3, <1>4 DEF Time

LEMMA TypingRestart ==
    ASSUME Typing, Restart
    PROVE  Typing'
<1>1. MemoryTyped'
  BY ValuesOfTables, GatesFact DEF Restart, MemoryTyped, CiType, Ci
<1>2. CallsTyped'
  BY TypesOfValues DEF Restart, CallsTyped
<1>3. LoopTyped'
  BY TypesOfValues DEF Restart, LoopTyped, LoopType, Idle, Archiving
<1>4. hist' \in HistType
  BY DEF Restart, HistType
<1>5. HistTyped'
  BY <1>4, ScmAssumption DEF ScmAssumption, Restart, Event, Typing, HistTyped
<1>. QED
  BY <1>1, <1>2, <1>3, <1>5, TypesFrame DEF Restart, Typing, NamingTyped

LEMMA TypingNext ==
    ASSUME Typing, TaskShape, [Next]_vars
    PROVE  Typing'
<1>1. CASE UNCHANGED vars
  BY <1>1, TypesFrame DEF vars, Typing
<1>2. CASE \E i \in Tasks : TaskStep(i)
  BY <1>2, TypingLookup, TypingResolve, TypingFetch, TypingStore DEF TaskStep
<1>3. CASE CommandStep
  BY <1>3, TypingCommand DEF CommandStep
<1>4. CASE LoopStep
  BY <1>4, TypingPoll, TypingHandle, TypingArchive DEF LoopStep
<1>5. CASE User
  <2>1. CASE \E w \in Workspaces :
              AutoRenameBegin(w) \/ \E b \in Branches : CreateWorkspace(w, b) \/ RenameByAgent(w, b)
    BY <2>1, TypingWorkspace, ScmAssumption DEF ScmAssumption
  <2>2. CASE AutoRenameGit \/ \E w \in Workspaces : SyncBranch(w)
    BY <2>2, TypingSync
  <2>3. CASE \E w \in Workspaces : Select(w)
    BY <2>3, TypingTime
  <2>. QED
    BY <1>5, <2>1, <2>2, <2>3, TypingCall, TypingRename, TypingUser, TypingForge, TypingRestart
       DEF User, Commands
<1>6. CASE Time
  BY <1>6, TypingTime
<1>. QED
  BY <1>1, <1>2, <1>3, <1>4, <1>5, <1>6 DEF Next

-----------------------------------------------------------------------------
(* The rest of the invariant, first for the steps that have little to do with it. *)

(* Rows are deleted. *)
RowsGo == \A w \in Workspaces : srow'[w] = srow[w] \/ srow'[w] = NoRow
(* The loop takes up no archive, and neither asks for nor ends a seed. *)
LoopGoesOn ==
    /\ loop'.pc = "seed" <=> loop.pc = "seed"
    /\ loop'.pc \in Archiving =>
            loop.pc \in Archiving /\ loop'.why = loop.why /\ loop'.w = loop.w
CacheSays == \A b \in Branches : cache'[b].on = cache[b].on /\ cache'[b].pr = cache[b].pr

LEMMA Deletion ==
    ASSUME Typing
    PROVE  /\ UNCHANGED srow => RowsGo
           /\ \A w \in Workspaces : Deleted(w) => RowsGo /\ srow'[w] = NoRow
BY DEF RowsGo, Deleted, Typing, TablesTyped

LEMMA NoneIsNoBranch == None \notin Branches /\ Client \notin Workspaces
BY ScmAssumption DEF ScmAssumption

(* A step that no task takes and that changes neither forge nor history. *)
LEMMA Bystander ==
    ASSUME Typing, TaskShape, Facts, RowsGo, LoopGoesOn, CacheSays, FixCounted',
           UNCHANGED <<forge, gate, observed, task, hist>>
    PROVE  TaskShape' /\ Facts'
<1>1. TaskShape' /\ Exclusion'
  BY DEF TaskShape, Shaped, Facts, Exclusion
<1>2. Copies'
  BY DEF Facts, Copies, CopyOf, RowsGo, CacheSays, NoRow
<1>3. MergeIsKnown' /\ Witnessed' /\ SeedAlone'
  BY DEF Facts, MergeIsKnown, Witnessed, SeedAlone, LoopGoesOn, CacheSays, At,
         Typing, HistTyped, HistType
<1>4. WhyNamed' /\ ArchiveHasEvidence'
  BY DEF Facts, WhyNamed, ArchiveHasEvidence, LoopGoesOn
<1>5. RowsBacked'
  <2>1. \A b \in Branches : Backed(b)' <=> Backed(b)
    BY DEF Backed, CacheSays
  <2>2. \A b \in Branches, w \in Workspaces : Telling(w, b)' => Telling(w, b)
    BY NoneIsNoBranch DEF Telling, Doomed, RowsGo, At, NoRow
  <2>3. \A i \in Tasks : At(i, "row") => task[i].w \in Workspaces
    BY DEF TaskShape, Shaped, At
  <2>4. RowsBacked /\ (loop'.pc # "seed" => loop.pc # "seed")
    BY DEF Facts, LoopGoesOn
  <2>5. SUFFICES ASSUME loop.pc # "seed", NEW b \in Branches \ hist.torn
                 PROVE  /\ \A w \in Workspaces : Telling(w, b)' => Backed(b)'
                        /\ \A i \in Tasks : At(i, "row") /\ task[i].b = b =>
                             /\ task[i].pr # NoPr => Backed(b)'
                             /\ ~task[i].prOk /\ Telling(task[i].w, b)' => task[i].pr # NoPr
    BY <2>4 DEF RowsBacked, At
  <2>. QED
    BY <2>1, <2>2, <2>3, <2>4, <2>5 DEF RowsBacked
<1>6. NoneKnown'
  BY NoneIsNoBranch DEF Facts, NoneKnown, RowsGo, CacheSays, At, NoRow, TaskShape, Shaped
<1>. QED
  BY <1>1, <1>2, <1>3, <1>4, <1>5, <1>6 DEF Facts

(* What the forge may do: open a pull request where there is none, and merge it. *)
ForgeGrows ==
    \A b \in Branches :
        /\ forge[b].pr # NoPr => forge'[b].pr # NoPr
        /\ forge[b].pr.st = "merged" => forge'[b].pr.st = "merged"
        /\ forge'[b].pr # NoPr => forge'[b].pr.b = b /\ forge'[b].pr.st # "none"

LEMMA ForgeStep ==
    ASSUME Typing, TaskShape, Facts, ForgeGrows,
           UNCHANGED <<srow, cache, gate, observed, ci, loop, task, hist>>
    PROVE  TaskShape' /\ Facts'
<1>1. TaskShape' /\ Exclusion'
  BY DEF TaskShape, Shaped, Facts, Exclusion
<1>2. Copies'
  <2>1. \A pr, b : b \in Branches /\ CopyOf(pr, b) => CopyOf(pr, b)'
    BY DEF CopyOf, ForgeGrows
  <2>2. \A b \in Branches : CopyOf(forge[b].pr, b)'
    BY DEF CopyOf, ForgeGrows
  <2>. QED
    BY <2>1, <2>2 DEF Facts, Copies, ForgeGrows, TaskShape, Shaped, Typing, TablesTyped, RowType, MemoryTyped
<1>3. MergeIsKnown' /\ Witnessed' /\ FixCounted' /\ SeedAlone' /\ NoneKnown'
  BY DEF Facts, MergeIsKnown, Witnessed, FixCounted, SeedAlone, NoneKnown, ForgeGrows, At,
         Typing, HistTyped, HistType
<1>4. WhyNamed' /\ ArchiveHasEvidence'
  BY DEF Facts, WhyNamed, ArchiveHasEvidence, ForgeGrows
<1>5. RowsBacked'
  BY DEF Facts, RowsBacked, Telling, Doomed, Backed, At
<1>. QED
  BY <1>1, <1>2, <1>3, <1>4, <1>5 DEF Facts

(* Entries are removed, of no branch whose removal would be missed or unnoticed. *)
EntriesGo ==
    /\ hist'.sawOpen = hist.sawOpen /\ hist'.merged = hist.merged
    /\ hist.torn \subseteq hist'.torn
    /\ \A b \in Branches :
        \/ cache'[b].on = cache[b].on /\ cache'[b].pr = cache[b].pr
        \/ /\ cache'[b].pr = NoPr
           /\ \/ b \in hist'.torn
              \/ /\ \A j \in Tasks : ~ (At(j, "row") /\ task[j].b = b)
                 /\ \A v \in Workspaces : ~ Telling(v, b)'

(* One task moves, to a place where it holds no answer.                         *)
LEMMA Move ==
    ASSUME Typing, TaskShape, TaskShape', Facts, NEW i \in Tasks, NEW r \in TaskType,
           task' = [task EXCEPT ![i] = r], RowsGo, LoopGoesOn, EntriesGo,
           UNCHANGED forge \/ ForgeGrows, UNCHANGED <<observed, ci>>,
           loop.pc # "seed" \/ r.pc = "none",
           r.pc \notin {"store", "row"},
           r.pc = "fetch" => r.b = task[i].b /\ At(i, "lock") /\ Free(i),
           r.pc = "done" /\ r.pr.st = "merged" =>
                r.pr.b \in Branches /\ forge[r.pr.b].pr.st = "merged",
           i = Client /\ At(i, "unrow") => srow'[task[i].w] = NoRow \/ task[i].b \in hist'.torn
    PROVE  Facts'
<1>1. task'[i] = r /\ \A j \in Tasks \ {i} : task'[j] = task[j]
  BY DEF Typing, CallsTyped
<1>0. ForgeGrows
  BY DEF ForgeGrows, Facts, Copies, CopyOf
<1>2. Exclusion'
  <2>1. SUFFICES ASSUME NEW j \in Tasks \ {i}, r.pc \in HasLock,
                        task[j].pc \in HasLock, task[j].b = r.b
                 PROVE  FALSE
    BY <1>1 DEF Exclusion, Facts
  <2>2. r.pc = "fetch" /\ Free(i) /\ r.b = task[i].b /\ task[i].gate = gate[r.b]
    BY <2>1 DEF HasLock, TaskShape, Shaped, At, Locking
  <2>3. task[j].gate = gate[r.b]
    BY <2>1 DEF TaskShape, Shaped, Locking
  <2>. QED
    BY <2>1, <2>2, <2>3 DEF Free
<1>3. Copies'
  <2>1. \A w \in Workspaces : IF srow'[w].b = None THEN srow'[w].pr = NoPr
                              ELSE CopyOf(srow'[w].pr, srow'[w].b)
    BY DEF Facts, Copies, RowsGo, NoRow
  <2>2. \A b \in Branches : CopyOf(cache'[b].pr, b)
    <3>1. \A b \in Branches : CopyOf(NoPr, b) /\ CopyOf(cache[b].pr, b)
      <4>1. NoPr.st # "merged"
        BY DEF NoPr
      <4>. QED
        BY <4>1 DEF CopyOf, Facts, Copies
    <3>2. \A b \in Branches : cache'[b].pr \in {NoPr, cache[b].pr}
      BY DEF EntriesGo
    <3>. QED
      BY <3>1, <3>2
  <2>3. \A pr, b : b \in Branches /\ CopyOf(pr, b) => CopyOf(pr, b)'
    BY <1>0 DEF CopyOf, ForgeGrows
  <2>4. \A b \in Branches : CopyOf(forge[b].pr, b)'
    BY <1>0 DEF CopyOf, ForgeGrows
  <2>5. \A w \in Workspaces : srow'[w].b # None => srow'[w].b \in Branches
    BY DEF RowsGo, NoRow, Typing, TablesTyped, RowType
  <2>6. \A j \in Tasks : task'[j].pc \in {"store", "row"} =>
            j # i /\ task'[j] = task[j] /\ task[j].b \in Branches
    BY <1>1 DEF TaskShape, Shaped
  <2>. QED
    BY <1>0, <1>1, <2>1, <2>2, <2>3, <2>4, <2>5, <2>6 DEF Facts, Copies, ForgeGrows
<1>4. MergeIsKnown' /\ Witnessed' /\ FixCounted'
  BY <1>0, <1>1 DEF ForgeGrows, Facts, MergeIsKnown, Witnessed, FixCounted, Typing, HistTyped, HistType,
              EntriesGo, NoPr
<1>5. WhyNamed' /\ ArchiveHasEvidence'
  BY <1>0 DEF ForgeGrows, Facts, WhyNamed, ArchiveHasEvidence, LoopGoesOn, EntriesGo
<1>6. SeedAlone'
  BY <1>1 DEF Facts, SeedAlone, LoopGoesOn, At
<1>7. RowsBacked'
  <2>2. \A b \in Branches \ hist'.torn, w \in Workspaces : Telling(w, b)' => Telling(w, b)
    BY <1>1, NoneIsNoBranch DEF Telling, Doomed, RowsGo, At, NoRow, Tasks
  <2>3. \A j \in Tasks : At(j, "row") => task[j].w \in Workspaces
    BY DEF TaskShape, Shaped, At
  <2>4. RowsBacked /\ (loop'.pc # "seed" => loop.pc # "seed")
    BY DEF Facts, LoopGoesOn
  <2>5. \A j \in Tasks : At(j, "row")' => At(j, "row") /\ task'[j] = task[j]
    BY <1>1 DEF At
  <2>6. SUFFICES ASSUME loop.pc # "seed", NEW b \in Branches \ hist'.torn
                 PROVE  /\ \A w \in Workspaces : Telling(w, b)' => Backed(b)'
                        /\ \A j \in Tasks : At(j, "row") /\ task[j].b = b =>
                             /\ task[j].pr # NoPr => Backed(b)'
                             /\ \A v \in Workspaces :
                                  ~task[j].prOk /\ v = task[j].w /\ Telling(v, b)' => task[j].pr # NoPr
    BY <2>3, <2>4, <2>5, <2>6 DEF RowsBacked
  <2>7. /\ \A w \in Workspaces : Telling(w, b) => Backed(b)
        /\ \A j \in Tasks : At(j, "row") /\ task[j].b = b =>
             /\ task[j].pr # NoPr => Backed(b)
             /\ ~task[j].prOk /\ Telling(task[j].w, b) => task[j].pr # NoPr
    BY <2>4, <2>6 DEF RowsBacked, EntriesGo
  <2>8. \/ Backed(b)' <=> Backed(b)
        \/ /\ \A j \in Tasks : ~ (At(j, "row") /\ task[j].b = b)
           /\ \A v \in Workspaces : ~ Telling(v, b)'
    BY <2>6 DEF EntriesGo, Backed
  <2>. QED
    BY <2>2, <2>3, <2>6, <2>7, <2>8
<1>8. NoneKnown'
  BY <1>1, NoneIsNoBranch DEF Facts, NoneKnown, RowsGo, EntriesGo, At, NoRow, TaskShape, Shaped
<1>. QED
  BY <1>2, <1>3, <1>4, <1>5, <1>6, <1>7, <1>8 DEF Facts

LEMMA EntriesStay ==
    ASSUME Typing, UNCHANGED <<cache, hist>>
    PROVE  EntriesGo
BY DEF EntriesGo

LEMMA ShapeKept ==
    ASSUME Typing, TaskShape, NEW i \in Tasks, NEW r \in TaskType,
           task' = [task EXCEPT ![i] = r], Shaped(i, r), UNCHANGED gate
    PROVE  TaskShape'
BY DEF Typing, CallsTyped, TaskShape, Shaped

(* A call that is over holds no lock and knows nothing new.                     *)
LEMMA Returned ==
    ASSUME Typing, TaskShape, NEW i \in Tasks, ~At(i, "none"), NEW pr \in Pr, NEW st \in Ci,
           Return(i, pr, st) \/ ReturnNone(i)
    PROVE  \E r \in TaskType :
              /\ task' = [task EXCEPT ![i] = r]
              /\ r.pc \in {"none", "done"} /\ r.pr \in {pr, NoPr}
              /\ Shaped(i, r)
<1>1. i # Client => i \in Workspaces
  BY DEF Tasks
<1>. DEFINE a == [NoTask EXCEPT !.pc = "done", !.w = i, !.pr = pr, !.ci = st, !.some = TRUE]
            n == [NoTask EXCEPT !.pc = "done", !.w = i]
<1>2. i # Client => /\ a \in TaskType /\ a.pc = "done" /\ a.pr = pr
                    /\ a.w = i /\ a.gate = 0
  BY <1>1, GatesFact DEF NoTask, TaskType, Pcs
<1>3. i # Client => /\ n \in TaskType /\ n.pc = "done" /\ n.pr = NoPr
                    /\ n.w = i /\ n.gate = 0
  BY <1>1, GatesFact, TypesOfValues DEF NoTask, TaskType, Pcs
<1>4. /\ NoTask \in TaskType /\ NoTask.pc = "none" /\ NoTask.pr = NoPr /\ NoTask.w = None
      /\ NoTask.gate = 0
  BY TypesOfValues DEF NoTask
<1>5. /\ Return(i, pr, st) => task' = [task EXCEPT ![i] = IF i = Client THEN NoTask ELSE a]
      /\ ReturnNone(i) => task' = [task EXCEPT ![i] = IF i = Client THEN NoTask ELSE n]
  BY DEF Return, ReturnNone
<1>. HIDE DEF a, n
<1>6. CASE i = Client
  BY <1>4, <1>5, <1>6 DEF Shaped, Locking, HasLock
<1>7. CASE i # Client
  BY <1>1, <1>2, <1>3, <1>5, <1>7 DEF Shaped, Locking, HasLock
<1>. QED
  BY <1>6, <1>7

LEMMA Leave ==
    ASSUME Typing, TaskShape, Facts, NEW i \in Tasks, ~At(i, "none"), ~At(i, "unrow"),
           NEW pr \in Pr, NEW st \in Ci, Return(i, pr, st) \/ ReturnNone(i),
           pr.st = "merged" => pr.b \in Branches /\ forge[pr.b].pr.st = "merged",
           RowsGo, EntriesGo, UNCHANGED <<forge, gate, observed, ci, loop>>
    PROVE  TaskShape' /\ Facts'
<1>1. PICK r \in TaskType :
              /\ task' = [task EXCEPT ![i] = r]
              /\ r.pc \in {"none", "done"} /\ r.pr \in {pr, NoPr}
              /\ Shaped(i, r)
  BY Returned
<1>2. TaskShape'
  BY <1>1, ShapeKept
<1>3. LoopGoesOn /\ loop.pc # "seed"
  BY DEF LoopGoesOn, Facts, SeedAlone
<1>4. NoPr.st = "none"
  BY DEF NoPr
<1>. QED
  BY <1>1, <1>2, <1>3, <1>4, Move

LEMMA EntrySays ==
    ASSUME Facts, NEW b \in Branches
    PROVE  /\ cache[b].pr.st = "merged" =>
                cache[b].pr.b \in Branches /\ forge[cache[b].pr.b].pr.st = "merged"
           /\ NoPr.st = "none"
BY DEF Facts, Copies, CopyOf, NoPr

-----------------------------------------------------------------------------
(* The steps of a call. *)

LEMMA InvLookup ==
    ASSUME Inv, NEW i \in Tasks, Lookup(i)
    PROVE  TaskShape' /\ Facts'
<1>. USE DEF Inv
<1>. DEFINE w == task[i].w
<1>1. /\ w \in Workspaces /\ task[i] \in TaskType /\ ~At(i, "none") /\ ~At(i, "unrow")
      /\ At(i, "lookup")
  BY DEF Lookup, At, TaskShape, Shaped, Typing, CallsTyped
<1>2. UNCHANGED <<forge, gate, cache, observed, ci, loop, hist>> /\ EntriesGo
  BY EntriesStay DEF Lookup, world, memory
<1>3. CASE ~Stored(w)
  <2>1. ReturnNone(i) /\ UNCHANGED tables
    BY <1>3 DEF Lookup
  <2>2. NoPr \in Pr /\ None \in Ci /\ NoPr.st # "merged"
    BY TypesOfValues DEF Ci, NoPr
  <2>3. RowsGo
    BY <2>1, Deletion DEF tables
  <2>. QED
    BY <1>1, <1>2, <2>1, <2>2, <2>3, Leave
<1>4. CASE Stored(w)
  <2>1. RowsGo
    <3>1. IF Active(w) THEN Reconcile(w, ws[w].b) ELSE UNCHANGED tables
      BY <1>4 DEF Lookup
    <3>2. UNCHANGED srow \/ Deleted(w)
      BY <3>1 DEF Reconcile, tables
    <3>. QED
      BY <1>1, <3>2, Deletion
  <2>. DEFINE b == IF Active(w) THEN Actual(w, ws[w].b) ELSE ws[w].b
              p == IF task[i].op = "refresh" THEN "uncache" ELSE "resolve"
              r == [task[i] EXCEPT !.b = b, !.pc = p]
  <2>2. b \in Branches
    <3>1. Active(w) => Actual(w, ws[w].b) \in Branches
      BY <1>1, <1>4, ReconcileTypes DEF Lookup
    <3>2. ws[w].b \in Branches
      BY <1>1, <1>4 DEF Typing, TablesTyped, Consistent, WsType, Stored
    <3>. QED
      BY <3>1, <3>2
  <2>3. task' = [task EXCEPT ![i] = r]
    BY <1>4 DEF Lookup
  <2>4. p \in Pcs /\ p \notin Locking /\ p \notin {"none", "lookup", "done"} /\ p \notin {"store", "row", "fetch"}
    BY DEF Pcs, Locking, HasLock
  <2>. HIDE DEF b, p
  <2>5. r \in TaskType /\ r.pc = p /\ r.b = b /\ r.w = w /\ r.gate = 0
    BY <1>1, <2>2, <2>4 DEF TaskType, TaskShape, Shaped, At, Locking, HasLock
  <2>6. Shaped(i, r)
    BY <1>1, <2>2, <2>4, <2>5 DEF TaskShape, Shaped
  <2>. HIDE DEF r
  <2>7. TaskShape'
    BY <1>2, <2>3, <2>5, <2>6, ShapeKept
  <2>8. LoopGoesOn /\ loop.pc # "seed"
    BY <1>1, <1>2 DEF LoopGoesOn, Facts, SeedAlone
  <2>. QED
    BY <1>1, <1>2, <2>1, <2>3, <2>4, <2>5, <2>7, <2>8, Move
<1>. QED
  BY <1>3, <1>4

LEMMA InvResolveSome ==
    ASSUME Inv, NEW i \in Tasks, ResolveSome(i)
    PROVE  TaskShape' /\ Facts'
<1>. USE DEF Inv
<1>. DEFINE b == task[i].b
<1>1. /\ task[i] \in TaskType /\ At(i, "resolve") /\ ~At(i, "unrow") /\ ~At(i, "none")
      /\ b \in Branches /\ task[i].w \in Workspaces /\ task[i].gate = 0
  BY DEF ResolveSome, At, TaskShape, Shaped, Typing, CallsTyped, Locking, HasLock
<1>2. UNCHANGED <<forge, srow, cache, observed, ci, loop, hist>> /\ EntriesGo /\ RowsGo
  BY EntriesStay, Deletion DEF ResolveSome, world, tables
<1>3. LoopGoesOn /\ loop.pc # "seed"
  BY <1>1, <1>2 DEF LoopGoesOn, Facts, SeedAlone
<1>4. CASE Goto(i, "act") /\ UNCHANGED gate
  <2>. DEFINE r == [task[i] EXCEPT !.pc = "act"]
  <2>1. task' = [task EXCEPT ![i] = r]
    BY <1>4 DEF Goto
  <2>2. r \in TaskType /\ r.pc = "act" /\ r.b = b /\ r.w = task[i].w /\ r.gate = 0
    BY <1>1 DEF TaskType, Pcs
  <2>. HIDE DEF r
  <2>3. Shaped(i, r)
    BY <1>1, <2>2 DEF TaskShape, Shaped, Locking, HasLock
  <2>4. TaskShape'
    BY <1>4, <2>1, <2>2, <2>3, ShapeKept
  <2>. QED
    BY <1>1, <1>2, <1>3, <2>1, <2>2, <2>4, Move
<1>5. ASSUME NEW g \in {gate[b]} \cup (IF Prunable(b) THEN {NewGate(b)} ELSE {}),
             gate' = [gate EXCEPT ![b] = g],
             task' = [task EXCEPT ![i].gate = g, ![i].pc = "lock"]
      PROVE  TaskShape' /\ Facts'
  <2>. DEFINE r == [task[i] EXCEPT !.gate = g, !.pc = "lock"]
  <2>1. gate[b] \in Gates /\ (Prunable(b) => NewGate(b) \in Gates)
    <3>1. gate[b] \in Gates
      BY <1>1 DEF Typing, MemoryTyped
    <3>. QED
      BY <3>1 DEF Prunable, Held, NewGate
  <2>2. task' = [task EXCEPT ![i] = r]
    BY <1>5
  <2>3. r \in TaskType /\ r.pc = "lock" /\ r.b = b /\ r.w = task[i].w /\ r.gate = g
    BY <1>1, <1>5, <2>1 DEF TaskType, Pcs
  <2>. HIDE DEF r
  <2>4. gate'[b] = g /\ \A c \in Branches \ {b} : gate'[c] = gate[c]
    BY <1>1, <1>5 DEF Typing, MemoryTyped
  <2>5. ASSUME NEW j \in Tasks \ {i}, task[j].pc \in Locking, task[j].b = b
        PROVE  g = gate[b]
    <3>1. Held(b)
      BY <2>5 DEF Held, TaskShape, Shaped
    <3>. QED
      BY <1>5, <3>1 DEF Prunable
  <2>6. TaskShape'
    <3>1. ASSUME NEW j \in Tasks \ {i} PROVE Shaped(j, task[j])'
      <4>1. task'[j] = task[j]
        BY <2>2 DEF Typing, CallsTyped
      <4>2. Shaped(j, task[j])
        BY DEF TaskShape
      <4>. QED
        BY <2>4, <2>5, <4>1, <4>2, GatesFact DEF Shaped, Locking, HasLock
    <3>2. Shaped(i, task[i])'
      <4>1. task'[i] = r
        BY <2>2 DEF Typing, CallsTyped
      <4>2. i # Client => task[i].w \in {i, None}
        BY DEF TaskShape, Shaped
      <4>. QED
        BY <1>1, <2>3, <2>4, <4>1, <4>2 DEF Shaped, Locking
    <3>. QED
      BY <3>1, <3>2 DEF TaskShape
  <2>. QED
    BY <1>1, <1>2, <1>3, <2>2, <2>3, <2>6, Move
<1>. QED
  BY <1>4, <1>5 DEF ResolveSome

LEMMA RemovalIsNoticed ==
    ASSUME Typing, NEW b \in Branches, NEW rows \in SUBSET Workspaces, Removed(b, rows), RowsGo,
           \A w \in Workspaces \ rows : ~ Telling(w, b)'
    PROVE  EntriesGo
<1>1. /\ hist'.sawOpen = hist.sawOpen /\ hist'.merged = hist.merged
      /\ hist.torn \subseteq hist'.torn
      /\ \/ b \in hist'.torn
         \/ /\ \A j \in Tasks : ~ (task[j].pc \in HasLock /\ task[j].b = b)
            /\ \A v \in rows : srow[v].b # b
  BY DEF Removed, Tear, Typing, HistTyped, HistType
<1>2. cache'[b].pr = NoPr /\ \A c \in Branches \ {b} : cache'[c] = cache[c]
  BY DEF Removed, Typing, MemoryTyped, NoEntry
<1>3. \A v \in rows : srow[v].b # b => ~ Telling(v, b)'
  BY NoneIsNoBranch DEF Telling, RowsGo, NoRow
<1>. QED
  BY <1>1, <1>2, <1>3 DEF EntriesGo, At, HasLock

LEMMA InvResolveNone ==
    ASSUME Inv, NEW i \in Tasks, ResolveNone(i)
    PROVE  TaskShape' /\ Facts'
<1>. USE DEF Inv
<1>1. /\ task[i] \in TaskType /\ At(i, "resolve") /\ ~At(i, "unrow") /\ ~At(i, "none")
      /\ task[i].b \in Branches /\ task[i].w \in Workspaces /\ task[i].gate = 0
  BY DEF ResolveNone, At, TaskShape, Shaped, Typing, CallsTyped, Locking, HasLock
<1>2. NoPr \in Pr /\ None \in Ci /\ NoPr.st # "merged"
  BY TypesOfValues DEF Ci, NoPr
<1>3. UNCHANGED <<forge, gate, cache, observed, ci, loop, hist>> /\ EntriesGo
  BY EntriesStay DEF ResolveNone, world, memory
<1>4. RowsGo
  BY <1>1, Deletion DEF ResolveNone
<1>5. CASE Return(i, NoPr, None)
  BY <1>1, <1>2, <1>3, <1>4, <1>5, Leave
<1>6. CASE Goto(i, "evict")
  <2>. DEFINE r == [task[i] EXCEPT !.pc = "evict"]
  <2>1. task' = [task EXCEPT ![i] = r]
    BY <1>6 DEF Goto
  <2>2. r \in TaskType /\ r.pc = "evict" /\ r.b = task[i].b /\ r.w = task[i].w /\ r.gate = 0
    BY <1>1 DEF TaskType, Pcs
  <2>. HIDE DEF r
  <2>3. Shaped(i, r)
    BY <1>1, <2>2 DEF TaskShape, Shaped, Locking, HasLock
  <2>4. TaskShape'
    BY <1>3, <2>1, <2>2, <2>3, ShapeKept
  <2>5. LoopGoesOn /\ loop.pc # "seed"
    BY <1>1, <1>3 DEF LoopGoesOn, Facts, SeedAlone
  <2>. QED
    BY <1>1, <1>3, <1>4, <2>1, <2>2, <2>4, <2>5, Move
<1>. QED
  BY <1>5, <1>6 DEF ResolveNone

LEMMA InvEvict ==
    ASSUME Inv, NEW i \in Tasks, Evict(i)
    PROVE  TaskShape' /\ Facts'
<1>. USE DEF Inv
<1>1. /\ At(i, "evict") /\ ~At(i, "unrow") /\ ~At(i, "none") /\ task[i].b \in Branches
  BY DEF Evict, At, TaskShape, Shaped
<1>2. NoPr \in Pr /\ None \in Ci /\ NoPr.st # "merged"
  BY TypesOfValues DEF Ci, NoPr
<1>3. /\ UNCHANGED <<forge, srow, gate, observed, ci, loop>> /\ RowsGo
      /\ Return(i, NoPr, None) /\ Removed(task[i].b, Workspaces)
  BY Deletion DEF Evict, world, tables
<1>4. EntriesGo
  BY <1>1, <1>3, RemovalIsNoticed
<1>. QED
  BY <1>1, <1>2, <1>3, <1>4, Leave

LEMMA InvResolveFails ==
    ASSUME Inv, NEW i \in Tasks, ResolveFails(i)
    PROVE  TaskShape' /\ Facts'
<1>. USE DEF Inv
<1>1. /\ ~At(i, "unrow") /\ ~At(i, "none") /\ task[i].b \in Branches
  BY DEF ResolveFails, At, TaskShape, Shaped
<1>2. cache[task[i].b].pr \in Pr /\ cache[task[i].b].ci \in Ci
  BY <1>1 DEF Typing, MemoryTyped, EntryType
<1>3. UNCHANGED <<forge, gate, observed, ci, loop>> /\ RowsGo /\ EntriesGo
  BY EntriesStay, Deletion DEF ResolveFails, world, tables, memory
<1>. QED
  BY <1>1, <1>2, <1>3, EntrySays, Leave DEF ResolveFails, ReturnEntry

LEMMA InvLock ==
    ASSUME Inv, NEW i \in Tasks, Lock(i)
    PROVE  TaskShape' /\ Facts'
<1>. USE DEF Inv
<1>1. /\ ~At(i, "unrow") /\ ~At(i, "none") /\ task[i].b \in Branches /\ At(i, "lock") /\ Free(i)
      /\ task[i] \in TaskType
  BY DEF Lock, At, TaskShape, Shaped, Typing, CallsTyped
<1>2. cache[task[i].b].pr \in Pr /\ cache[task[i].b].ci \in Ci
  BY <1>1 DEF Typing, MemoryTyped, EntryType
<1>3. UNCHANGED <<forge, gate, observed, ci, loop>> /\ RowsGo /\ EntriesGo
  BY EntriesStay, Deletion DEF Lock, world, tables, memory
<1>4. CASE ReturnEntry(i, cache[task[i].b])
  BY <1>1, <1>2, <1>3, <1>4, EntrySays, Leave DEF ReturnEntry
<1>5. CASE Goto(i, "fetch")
  <2>. DEFINE r == [task[i] EXCEPT !.pc = "fetch"]
  <2>1. task' = [task EXCEPT ![i] = r]
    BY <1>5 DEF Goto
  <2>2. r \in TaskType /\ r.pc = "fetch" /\ r.b = task[i].b /\ r.w = task[i].w /\ r.gate = task[i].gate
    BY <1>1 DEF TaskType, Pcs
  <2>. HIDE DEF r
  <2>3. Shaped(i, r)
    BY <1>1, <2>2 DEF TaskShape, Shaped, Locking, HasLock, At
  <2>4. TaskShape'
    BY <1>3, <2>1, <2>2, <2>3, ShapeKept
  <2>5. LoopGoesOn /\ loop.pc # "seed"
    BY <1>1, <1>3 DEF LoopGoesOn, Facts, SeedAlone
  <2>. QED
    BY <1>1, <1>3, <2>1, <2>2, <2>4, <2>5, Move
<1>. QED
  BY <1>4, <1>5 DEF Lock

LEMMA InvFetch ==
    ASSUME Inv, NEW i \in Tasks, Fetch(i)
    PROVE  TaskShape' /\ Facts'
<1>. USE DEF Inv
<1>. DEFINE b == task[i].b
<1>1. /\ task[i] \in TaskType /\ At(i, "fetch") /\ ~At(i, "none") /\ b \in Branches
      /\ task[i].w \in Workspaces
  BY DEF Fetch, At, TaskShape, Shaped, Typing, CallsTyped
<1>2. UNCHANGED <<forge, srow, gate, cache, observed, ci, loop, hist>>
  BY DEF Fetch, world, tables, memory
<1>3. PICK r \in TaskType :
        /\ task' = [task EXCEPT ![i] = r]
        /\ r.pc = "store" /\ r.b = b /\ r.w = task[i].w /\ r.gate = task[i].gate
        /\ r.pr = forge[b].pr \/ (~r.prOk /\ r.pr = NoPr)
  <2>0. /\ NoPr \in Pr /\ None \in Ci
        /\ forge[b].pr \in Pr /\ forge[b].ci \in Ci
    BY <1>1, TypesOfValues DEF Ci, Typing, WorldTyped
  <2>1. CASE task' = [task EXCEPT ![i].pr = forge[b].pr, ![i].pc = "store",
                                  ![i].ci = IF forge[b].pr = NoPr THEN None ELSE forge[b].ci]
    <3>. DEFINE s == IF forge[b].pr = NoPr THEN None ELSE forge[b].ci
                p == forge[b].pr
                r == [task[i] EXCEPT !.pr = p, !.pc = "store", !.ci = s]
    <3>1. s \in Ci /\ p \in Pr
      BY <2>0
    <3>2. task' = [task EXCEPT ![i] = r]
      BY <2>1
    <3>3. p = forge[b].pr
      OBVIOUS
    <3>. HIDE DEF s, p
    <3>4. /\ r \in TaskType /\ r.pc = "store" /\ r.b = b /\ r.w = task[i].w
          /\ r.gate = task[i].gate /\ r.pr = p
      BY <1>1, <3>1 DEF TaskType, Pcs
    <3>. HIDE DEF r
    <3>. QED
      BY <3>2, <3>3, <3>4
  <2>2. ASSUME NEW prOk \in BOOLEAN, NEW ciOk \in BOOLEAN,
               task' = [task EXCEPT ![i].pc = "store", ![i].prOk = prOk, ![i].ciOk = ciOk,
                                  ![i].pr = IF prOk THEN forge[b].pr ELSE NoPr,
                                  ![i].ci = IF ciOk THEN forge[b].ci ELSE None]
        PROVE  \E r \in TaskType :
                  /\ task' = [task EXCEPT ![i] = r]
                  /\ r.pc = "store" /\ r.b = b /\ r.w = task[i].w /\ r.gate = task[i].gate
                  /\ r.pr = forge[b].pr \/ (~r.prOk /\ r.pr = NoPr)
    <3>. DEFINE p == IF prOk THEN forge[b].pr ELSE NoPr
                s == IF ciOk THEN forge[b].ci ELSE None
                r == [task[i] EXCEPT !.pc = "store", !.prOk = prOk, !.ciOk = ciOk,
                                     !.pr = p, !.ci = s]
    <3>1. p \in Pr /\ s \in Ci /\ (p = forge[b].pr \/ (~prOk /\ p = NoPr))
      BY <2>0
    <3>2. task' = [task EXCEPT ![i] = r]
      BY <2>2
    <3>. HIDE DEF s, p
    <3>4. /\ r \in TaskType /\ r.pc = "store" /\ r.b = b /\ r.w = task[i].w
          /\ r.gate = task[i].gate /\ r.pr = p /\ r.prOk = prOk
      BY <1>1, <3>1 DEF TaskType, Pcs
    <3>. HIDE DEF r
    <3>. QED
      BY <3>1, <3>2, <3>4
  <2>. QED
    BY <2>1, <2>2 DEF Fetch
<1>4. task'[i] = r /\ \A j \in Tasks \ {i} : task'[j] = task[j]
  BY <1>3 DEF Typing, CallsTyped
<1>5. TaskShape'
  <2>1. Shaped(i, r)
    BY <1>1, <1>3 DEF TaskShape, Shaped, Locking, HasLock, At
  <2>. QED
    BY <1>2, <1>3, <2>1, ShapeKept
<1>6. Exclusion'
  BY <1>1, <1>3, <1>4 DEF Facts, Exclusion, HasLock, At
<1>7. CopyOf(forge[b].pr, b) /\ CopyOf(NoPr, b)
  <2>1. NoPr.st # "merged"
    BY DEF NoPr
  <2>. QED
    BY <1>1, <2>1 DEF Facts, Copies, CopyOf
<1>8. Copies'
  <2>1. CopyOf(r.pr, r.b)
    BY <1>3, <1>7
  <2>. QED
    BY <1>2, <1>3, <1>4, <2>1 DEF Facts, Copies, CopyOf
<1>9. MergeIsKnown'
  BY <1>2, <1>3, <1>4 DEF Facts, MergeIsKnown
<1>10. Witnessed' /\ FixCounted' /\ WhyNamed' /\ ArchiveHasEvidence'
  BY <1>2 DEF Facts, Witnessed, FixCounted, WhyNamed, ArchiveHasEvidence
<1>11. SeedAlone'
  BY <1>1, <1>2 DEF Facts, SeedAlone
<1>12. RowsBacked'
  <2>1. RowsBacked
    BY DEF Facts
  <2>2. \A j \in Tasks : At(j, "row")' => j # i /\ At(j, "row") /\ task'[j] = task[j]
    BY <1>3, <1>4 DEF At
  <2>3. \A c \in Branches, w \in Workspaces : Telling(w, c)' => Telling(w, c)
    BY <1>1, <1>2, <1>3, <1>4 DEF Telling, Doomed, At, Tasks
  <2>4. \A j \in Tasks : At(j, "row") => task[j].w \in Workspaces
    BY DEF TaskShape, Shaped, At
  <2>. QED
    BY <1>2, <2>1, <2>2, <2>3, <2>4 DEF RowsBacked, Backed
<1>13. NoneKnown'
  <2>1. r.prOk /\ r.pr = NoPr => /\ cache[b].pr = NoPr
                                 /\ \A w \in Workspaces : srow[w].b = b => srow[w].pr = NoPr
    BY <1>1, <1>3, NoneIsNoBranch DEF Facts, Copies, CopyOf
  <2>. QED
    BY <1>2, <1>3, <1>4, <2>1 DEF Facts, NoneKnown, At
<1>. QED
  BY <1>5, <1>6, <1>8, <1>9, <1>10, <1>11, <1>12, <1>13 DEF Facts

LEMMA InvStore ==
    ASSUME Inv, NEW i \in Tasks, Store(i)
    PROVE  TaskShape' /\ Facts'
<1>. USE DEF Inv
<1>1. /\ task[i] \in TaskType /\ At(i, "store") /\ ~At(i, "none") /\ ~At(i, "unrow")
      /\ task[i].b \in Branches /\ task[i].w \in Workspaces
  BY DEF Store, At, TaskShape, Shaped, Typing, CallsTyped
<1>2. PICK b \in Branches : b = task[i].b
  BY <1>1
<1>3. UNCHANGED <<forge, srow, gate, observed, ci, loop>>
  BY DEF Store, world, tables
<1>4. cache[b] \in EntryType /\ CopyOf(cache[b].pr, b) /\ CopyOf(task[i].pr, b)
  BY <1>1, <1>2 DEF Typing, MemoryTyped, Facts, Copies, At
<1>5. PICK p \in Pr, s \in Ci : /\ p = MergeScmResults(i, cache[b]).pr
                                /\ s = MergeScmResults(i, cache[b]).ci
  BY <1>1, <1>4 DEF MergeScmResults, TaskType, EntryType
<1>6. p = IF task[i].prOk THEN task[i].pr ELSE cache[b].pr
  BY <1>5 DEF MergeScmResults
<1>7. CopyOf(p, b)
  BY <1>4, <1>6
<1>8. CASE Return(i, p, s) /\ UNCHANGED <<cache, hist>>
  <2>1. RowsGo /\ EntriesGo
    BY <1>3, <1>8, Deletion, EntriesStay
  <2>2. p.st = "merged" => p.b \in Branches /\ forge[p.b].pr.st = "merged"
    <3>1. NoPr.st # "merged"
      BY DEF NoPr
    <3>. QED
      BY <1>7, <3>1 DEF CopyOf
  <2>. QED
    BY <1>1, <1>3, <1>8, <2>1, <2>2, Leave
<1>9. CASE /\ cache' = [cache EXCEPT ![b] = [on |-> TRUE, pr |-> p, ci |-> s,
                                             err |-> Failed(i), fresh |-> TRUE]]
           /\ task' = [task EXCEPT ![i].pc = "row", ![i].pr = p, ![i].ci = s]
           /\ hist' = IF p.st = "merged" THEN [hist EXCEPT !.merged = @ \cup {b}] ELSE hist
  <2>1. PICK r \in TaskType :
          /\ task' = [task EXCEPT ![i] = r]
          /\ r.pc = "row" /\ r.b = b /\ r.w = task[i].w /\ r.gate = task[i].gate
          /\ r.pr = p /\ r.prOk = task[i].prOk
    <3>. DEFINE r == [task[i] EXCEPT !.pc = "row", !.pr = p, !.ci = s]
    <3>1. task' = [task EXCEPT ![i] = r]
      BY <1>9
    <3>2. /\ r \in TaskType /\ r.pc = "row" /\ r.b = b /\ r.w = task[i].w
          /\ r.gate = task[i].gate /\ r.pr = p /\ r.prOk = task[i].prOk
      BY <1>1, <1>2 DEF TaskType, Pcs
    <3>. HIDE DEF r
    <3>. QED
      BY <3>1, <3>2
  <2>2. task'[i] = r /\ \A j \in Tasks \ {i} : task'[j] = task[j]
    BY <2>1 DEF Typing, CallsTyped
  <2>3. /\ cache'[b].on /\ cache'[b].pr = p
        /\ \A c \in Branches \ {b} : cache'[c] = cache[c]
    BY <1>9 DEF Typing, MemoryTyped
  <2>4. /\ hist'.sawOpen = hist.sawOpen /\ hist'.torn = hist.torn
        /\ hist'.merged = hist.merged \cup (IF p.st = "merged" THEN {b} ELSE {})
    BY <1>9 DEF Typing, HistTyped, HistType
  <2>5. \A j \in Tasks \ {i} : task[j].pc \in HasLock => task[j].b # b
    BY <1>1, <1>2 DEF Facts, Exclusion, HasLock, At
  <2>6. TaskShape'
    <3>1. Shaped(i, r)
      BY <1>1, <1>2, <2>1 DEF TaskShape, Shaped, Locking, HasLock, At
    <3>. QED
      BY <1>3, <2>1, <3>1, ShapeKept
  <2>7. Exclusion'
    BY <1>1, <1>2, <2>1, <2>2 DEF Facts, Exclusion, HasLock, At
  <2>8. Copies'
    BY <1>3, <1>7, <2>1, <2>2, <2>3 DEF Facts, Copies, CopyOf
  <2>9. MergeIsKnown'
    <3>1. ASSUME NEW c \in hist'.merged
          PROVE  /\ forge[c].pr.st = "merged"
                 /\ cache'[c].pr.st # "open"
                 /\ \A j \in Tasks : task'[j].pc = "store" /\ task'[j].b = c /\ task'[j].prOk
                                        => task'[j].pr.st # "open"
      <4>1. CASE c = b
        <5>1. forge[b].pr.st = "merged" /\ p.st # "open"
          BY <1>1, <1>2, <1>6, <1>7, <2>4, <3>1, <4>1 DEF Facts, MergeIsKnown, CopyOf, At
        <5>. QED
          BY <2>1, <2>2, <2>3, <2>5, <4>1, <5>1 DEF HasLock
      <4>2. CASE c # b
        <5>1. c \in hist.merged /\ c \in Branches
          BY <2>4, <3>1, <4>2 DEF Typing, HistTyped, HistType
        <5>. QED
          BY <2>1, <2>2, <2>3, <4>2, <5>1 DEF Facts, MergeIsKnown
      <4>. QED
        BY <4>1, <4>2
    <3>. QED
      BY <1>3, <3>1 DEF MergeIsKnown
  <2>10. Witnessed' /\ FixCounted' /\ WhyNamed' /\ ArchiveHasEvidence'
    BY <1>3, <2>4 DEF Facts, Witnessed, FixCounted, WhyNamed, ArchiveHasEvidence
  <2>11. SeedAlone' /\ loop.pc # "seed"
    BY <1>1, <1>3 DEF Facts, SeedAlone
  <2>12. RowsBacked'
    <3>1. \A c \in Branches, w \in Workspaces : Telling(w, c)' => Telling(w, c)
      BY <1>1, <1>3, <2>1, <2>2 DEF Telling, Doomed, At, Tasks
    <3>2. RowsBacked
      BY DEF Facts
    <3>3. ASSUME NEW c \in Branches \ hist.torn
          PROVE  /\ \A w \in Workspaces : Telling(w, c)' => Backed(c)'
                 /\ \A j \in Tasks : At(j, "row")' /\ task'[j].b = c =>
                      /\ task'[j].pr # NoPr => Backed(c)'
                      /\ ~task'[j].prOk /\ Telling(task[j].w, c)' => task'[j].pr # NoPr
      <4>0. task'[i].w = task[i].w
        BY <2>1, <2>2
      <4>1. /\ \A w \in Workspaces : Telling(w, c) => Backed(c)
            /\ \A j \in Tasks : At(j, "row") /\ task[j].b = c =>
                /\ task[j].pr # NoPr => Backed(c)
                /\ ~task[j].prOk /\ Telling(task[j].w, c) => task[j].pr # NoPr
        BY <2>11, <3>2 DEF RowsBacked
      <4>2. CASE c = b
        <5>1. ASSUME NEW w \in Workspaces, Telling(w, b) PROVE p # NoPr
          <6>1. CASE task[i].prOk
            BY <1>1, <1>2, <1>6, <5>1, <6>1 DEF Facts, NoneKnown, Telling
          <6>2. CASE ~task[i].prOk
            BY <1>6, <4>1, <4>2, <5>1, <6>2 DEF Backed
          <6>. QED
            BY <6>1, <6>2
        <5>2. Backed(b)' <=> p # NoPr
          BY <2>3 DEF Backed
        <5>3. \A w \in Workspaces : Telling(w, b)' => p # NoPr
          BY <3>1, <5>1
        <5>4. \A j \in Tasks : At(j, "row")' /\ task'[j].b = b => j = i
          BY <2>2, <2>5 DEF HasLock, At
        <5>. QED
          BY <1>1, <2>1, <2>2, <4>0, <4>2, <5>2, <5>3, <5>4
      <4>3. CASE c # b
        <5>1. Backed(c)' <=> Backed(c)
          BY <2>3, <4>3 DEF Backed
        <5>2. \A j \in Tasks : At(j, "row")' /\ task'[j].b = c =>
                 j # i /\ task'[j] = task[j] /\ At(j, "row") /\ task[j].w \in Workspaces
          BY <2>1, <2>2, <4>3 DEF At, TaskShape, Shaped
        <5>. QED
          BY <3>1, <4>1, <5>1, <5>2
      <4>. QED
        BY <4>2, <4>3
    <3>. QED
      BY <2>4, <3>3 DEF RowsBacked
  <2>13. NoneKnown'
    <3>1. \A j \in Tasks : At(j, "store")' => j # i /\ At(j, "store") /\ task'[j] = task[j]
                                              /\ task[j].b # b /\ task[j].b \in Branches
      BY <2>1, <2>2, <2>5 DEF At, HasLock, TaskShape, Shaped
    <3>. QED
      BY <1>3, <2>3, <3>1 DEF Facts, NoneKnown
  <2>. QED
    BY <2>6, <2>7, <2>8, <2>9, <2>10, <2>11, <2>12, <2>13 DEF Facts
<1>. QED
  BY <1>2, <1>5, <1>8, <1>9 DEF Store

(* The forge opens and merges a pull request. *)
LEMMA Opening ==
    ASSUME Inv, NEW b \in Branches, forge[b].pr = NoPr,
           forge' = [forge EXCEPT ![b].pr = Opened(b)]
    PROVE  ForgeGrows
<1>1. Opened(b).b = b /\ Opened(b).st = "open" /\ NoPr.st = "none"
  BY DEF Opened, NoPr
<1>2. forge'[b].pr = Opened(b) /\ \A c \in Branches \ {b} : forge'[c] = forge[c]
  BY DEF Inv, Typing, WorldTyped
<1>. QED
  BY <1>1, <1>2 DEF ForgeGrows, Inv, Facts, Copies, CopyOf

LEMMA Merging ==
    ASSUME Inv, NEW b \in Branches, NEW stamp, forge[b].pr.st = "open",
           forge' = [forge EXCEPT ![b].pr = MergedPr(@, stamp, Alive)]
    PROVE  ForgeGrows
<1>0. forge[b].pr \in Pr
  BY DEF Inv, Typing, WorldTyped
<1>1. /\ MergedPr(forge[b].pr, stamp, Alive).b = forge[b].pr.b
      /\ MergedPr(forge[b].pr, stamp, Alive).st = "merged" /\ NoPr.st = "none"
  BY <1>0 DEF MergedPr, NoPr, Pr
<1>2. forge'[b].pr = MergedPr(forge[b].pr, stamp, Alive)
      /\ \A c \in Branches \ {b} : forge'[c] = forge[c]
  BY DEF Inv, Typing, WorldTyped
<1>3. forge[b].pr.b = b
  BY <1>1 DEF Inv, Facts, Copies, CopyOf
<1>. QED
  BY <1>1, <1>2, <1>3 DEF ForgeGrows, Inv, Facts, Copies, CopyOf

LEMMA InvUpsert ==
    ASSUME Inv, NEW i \in Tasks, Upsert(i)
    PROVE  TaskShape' /\ Facts'
<1>. USE DEF Inv
<1>1. /\ task[i] \in TaskType /\ At(i, "row") /\ ~At(i, "none") /\ ~At(i, "unrow")
      /\ task[i].b \in Branches /\ task[i].w \in Workspaces
  BY DEF Upsert, At, TaskShape, Shaped, Typing, CallsTyped
<1>2. PICK b \in Branches, v \in Workspaces : b = task[i].b /\ v = task[i].w
  BY <1>1
<1>3. UNCHANGED <<forge, gate, cache, observed, ci, loop, hist>>
  BY DEF Upsert, world, memory
<1>4. PICK r \in TaskType :
        /\ task' = [task EXCEPT ![i] = r]
        /\ r.pc \in {"none", "done"} /\ r.pr \in {task[i].pr, NoPr}
        /\ Shaped(i, r)
  BY <1>1, Returned DEF Upsert, TaskType
<1>5. task'[i] = r /\ \A j \in Tasks \ {i} : task'[j] = task[j]
  BY <1>4 DEF Typing, CallsTyped
<1>6. /\ \A w \in Workspaces \ {v} : srow'[w] = srow[w]
      /\ \/ srow'[v] = srow[v]
         \/ srow'[v].b = b /\ srow'[v].pr = task[i].pr
  BY <1>1, <1>2 DEF Upsert, Typing, TablesTyped
<1>7. CopyOf(task[i].pr, b) /\ NoPr.st # "merged"
  BY <1>1, <1>2 DEF Facts, Copies, At, NoPr
<1>8. \A j \in Tasks \ {i} : task[j].pc \in HasLock => task[j].b # b
  BY <1>1, <1>2 DEF Facts, Exclusion, HasLock, At
<1>9. TaskShape'
  BY <1>3, <1>4, ShapeKept
<1>10. Exclusion'
  BY <1>4, <1>5 DEF Facts, Exclusion, HasLock
<1>11. Copies'
  <2>1. \A w \in Workspaces : IF srow'[w].b = None THEN srow'[w].pr = NoPr
                              ELSE CopyOf(srow'[w].pr, srow'[w].b)
    BY <1>6, <1>7, NoneIsNoBranch DEF Facts, Copies
  <2>2. r.pr.st = "merged" => r.pr.b \in Branches /\ forge[r.pr.b].pr.st = "merged"
    BY <1>4, <1>7 DEF CopyOf
  <2>. QED
    BY <1>3, <1>4, <1>5, <2>1, <2>2 DEF Facts, Copies, CopyOf
<1>12. MergeIsKnown'
  BY <1>3, <1>4, <1>5 DEF Facts, MergeIsKnown
<1>13. Witnessed' /\ FixCounted' /\ WhyNamed' /\ ArchiveHasEvidence'
  BY <1>3 DEF Facts, Witnessed, FixCounted, WhyNamed, ArchiveHasEvidence
<1>14. SeedAlone' /\ loop.pc # "seed"
  BY <1>1, <1>3 DEF Facts, SeedAlone
<1>15. RowsBacked'
  <2>1. RowsBacked
    BY DEF Facts
  <2>2. \A j \in Tasks : At(j, "row")' =>
            j # i /\ task'[j] = task[j] /\ At(j, "row") /\ task[j].w \in Workspaces
    BY <1>4, <1>5 DEF At, TaskShape, Shaped
  <2>3. \A c \in Branches, w \in Workspaces : Telling(w, c)' =>
            Telling(w, c) \/ (w = v /\ c = b /\ task[i].pr # NoPr)
    BY <1>1, <1>4, <1>5, <1>6 DEF Telling, Doomed, At, Tasks
  <2>4. ASSUME NEW c \in Branches \ hist.torn
        PROVE  /\ \A w \in Workspaces : Telling(w, c)' => Backed(c)
               /\ \A j \in Tasks : At(j, "row")' /\ task[j].b = c =>
                    /\ task[j].pr # NoPr => Backed(c)
                    /\ \A w \in Workspaces :
                          ~task[j].prOk /\ w = task[j].w /\ Telling(w, c)' => task[j].pr # NoPr
    <3>1. /\ \A w \in Workspaces : Telling(w, c) => Backed(c)
          /\ \A j \in Tasks : At(j, "row") /\ task[j].b = c =>
              /\ task[j].pr # NoPr => Backed(c)
              /\ ~task[j].prOk /\ Telling(task[j].w, c) => task[j].pr # NoPr
      BY <1>14, <2>1 DEF RowsBacked
    <3>2. \A j \in Tasks : At(j, "row")' /\ task[j].b = c => c # b
      BY <1>8, <2>2 DEF HasLock, At
    <3>. QED
      BY <1>1, <1>2, <2>2, <2>3, <3>1, <3>2
  <2>. QED
    BY <1>3, <1>14, <2>2, <2>4 DEF RowsBacked, Backed
<1>16. NoneKnown'
  <2>1. \A j \in Tasks : At(j, "store")' => j # i /\ At(j, "store") /\ task'[j] = task[j]
                                            /\ task[j].b # b
    BY <1>4, <1>5, <1>8 DEF At, HasLock
  <2>. QED
    BY <1>3, <1>6, <2>1 DEF Facts, NoneKnown
<1>. QED
  BY <1>9, <1>10, <1>11, <1>12, <1>13, <1>14, <1>15, <1>16 DEF Facts

(* The commands. *)
LEMMA InvAct ==
    ASSUME Inv, Act
    PROVE  TaskShape' /\ Facts'
<1>. USE DEF Inv
<1>. DEFINE b == task[Client].b
<1>0. Client \in Tasks
  BY DEF Tasks
<1>1. /\ task[Client] \in TaskType /\ At(Client, "act") /\ ~At(Client, "none")
      /\ ~At(Client, "unrow") /\ b \in Branches /\ task[Client].w \in Workspaces
  BY <1>0 DEF Act, At, TaskShape, Shaped, Typing, CallsTyped
<1>2. UNCHANGED <<srow, gate, cache, observed, ci, loop, hist>> /\ RowsGo /\ EntriesGo
  BY EntriesStay, Deletion DEF Act, tables, memory
<1>3. LoopGoesOn /\ loop.pc # "seed"
  BY <1>0, <1>1, <1>2 DEF LoopGoesOn, Facts, SeedAlone
<1>4. CASE Return(Client, NoPr, None) /\ UNCHANGED forge
  <2>1. NoPr \in Pr /\ None \in Ci /\ NoPr.st # "merged"
    BY TypesOfValues DEF Ci, NoPr
  <2>. QED
    BY <1>0, <1>1, <1>2, <1>4, <2>1, Leave
<1>5. CASE Goto(Client, "uncache") /\ ForgeGrows
  <2>. DEFINE r == [task[Client] EXCEPT !.pc = "uncache"]
  <2>1. task' = [task EXCEPT ![Client] = r]
    BY <1>5 DEF Goto
  <2>2. /\ r \in TaskType /\ r.pc = "uncache" /\ r.b = b /\ r.w = task[Client].w
        /\ r.gate = task[Client].gate
    BY <1>1 DEF TaskType, Pcs
  <2>. HIDE DEF r
  <2>3. Shaped(Client, r)
    BY <1>0, <1>1, <2>2 DEF TaskShape, Shaped, Locking, HasLock, At
  <2>4. TaskShape'
    BY <1>0, <1>2, <2>1, <2>2, <2>3, ShapeKept
  <2>. QED
    BY <1>0, <1>1, <1>2, <1>3, <1>5, <2>1, <2>2, <2>4, Move
<1>6. ASSUME forge[b].pr = NoPr, forge' = [forge EXCEPT ![b].pr = Opened(b)]
      PROVE  ForgeGrows
  BY <1>1, <1>6, Opening DEF Inv
<1>7. ASSUME NEW stamp \in Stamps, forge[b].pr.st = "open",
             forge' = [forge EXCEPT ![b].pr = MergedPr(@, stamp, Alive)]
      PROVE  ForgeGrows
  BY <1>1, <1>7, Merging DEF Inv
<1>. QED
  BY <1>4, <1>5, <1>6, <1>7 DEF Act

LEMMA InvUncache ==
    ASSUME Inv, Uncache
    PROVE  TaskShape' /\ Facts'
<1>. USE DEF Inv
<1>0. Client \in Tasks
  BY DEF Tasks
<1>1. /\ task[Client] \in TaskType /\ At(Client, "uncache") /\ ~At(Client, "none")
      /\ ~At(Client, "unrow") /\ task[Client].b \in Branches /\ task[Client].w \in Workspaces
  BY <1>0 DEF Uncache, At, TaskShape, Shaped, Typing, CallsTyped
<1>2. PICK w \in Workspaces, b \in Branches : w = task[Client].w /\ b = task[Client].b
  BY <1>1
<1>3. /\ UNCHANGED <<forge, srow, gate, observed, ci, loop>> /\ RowsGo
      /\ Removed(b, Workspaces \ {w})
  BY <1>2, Deletion DEF Uncache, tables, world
<1>4. LoopGoesOn /\ loop.pc # "seed"
  BY <1>0, <1>1, <1>3 DEF LoopGoesOn, Facts, SeedAlone
<1>. DEFINE r == [task[Client] EXCEPT !.pc = "unrow"]
<1>5. task' = [task EXCEPT ![Client] = r]
  BY DEF Uncache, Goto
<1>6. /\ r \in TaskType /\ r.pc = "unrow" /\ r.b = b /\ r.w = w
      /\ r.gate = task[Client].gate
  BY <1>1, <1>2 DEF TaskType, Pcs
<1>. HIDE DEF r
<1>7. Shaped(Client, r)
  BY <1>0, <1>1, <1>6 DEF TaskShape, Shaped, Locking, HasLock, At
<1>8. TaskShape'
  BY <1>0, <1>3, <1>5, <1>6, <1>7, ShapeKept
<1>9. ~ Telling(w, b)'
  BY <1>0, <1>5, <1>6 DEF Telling, Doomed, At, Typing, CallsTyped
<1>10. EntriesGo
  BY <1>3, <1>9, RemovalIsNoticed
<1>. QED
  BY <1>0, <1>1, <1>3, <1>4, <1>5, <1>6, <1>8, <1>10, Move

LEMMA InvUnrow ==
    ASSUME Inv, Unrow
    PROVE  TaskShape' /\ Facts'
<1>. USE DEF Inv
<1>0. Client \in Tasks
  BY DEF Tasks
<1>1. /\ task[Client] \in TaskType /\ At(Client, "unrow") /\ ~At(Client, "none")
      /\ task[Client].w \in Workspaces
  BY <1>0 DEF Unrow, At, TaskShape, Shaped, Typing, CallsTyped
<1>2. UNCHANGED <<forge, gate, cache, observed, ci, loop>>
  BY DEF Unrow, memory, world
<1>3. /\ RowsGo /\ EntriesGo
      /\ srow'[task[Client].w] = NoRow \/ task[Client].b \in hist'.torn
  <2>1. CASE Deleted(task[Client].w) /\ UNCHANGED hist
    BY <1>1, <1>2, <2>1, Deletion, EntriesStay
  <2>2. CASE UNCHANGED srow /\ Tear(task[Client].b)
    <3>1. /\ hist'.sawOpen = hist.sawOpen /\ hist'.merged = hist.merged
          /\ hist'.torn = hist.torn \cup {task[Client].b}
      BY <2>2 DEF Tear, Typing, HistTyped, HistType
    <3>. QED
      BY <1>2, <2>2, <3>1, Deletion DEF EntriesGo
  <2>. QED
    BY <2>1, <2>2 DEF Unrow
<1>4. LoopGoesOn /\ loop.pc # "seed"
  BY <1>0, <1>1, <1>2 DEF LoopGoesOn, Facts, SeedAlone
<1>. DEFINE q == [NoTask EXCEPT !.pc = "lookup", !.op = "load", !.w = task[Client].w]
            r == IF task[Client].op = "refresh" THEN q ELSE NoTask
<1>5. task' = [task EXCEPT ![Client] = r]
  BY <1>0 DEF Unrow, Typing, CallsTyped
<1>6. /\ q \in TaskType /\ q.pc = "lookup" /\ q.w = task[Client].w /\ q.gate = 0
      /\ NoTask \in TaskType /\ NoTask.pc = "none" /\ NoTask.gate = 0
  BY <1>1, TypesOfValues DEF TaskType, Pcs, Commands, NoTask
<1>. HIDE DEF q
<1>7. r \in TaskType /\ r.pc \in {"lookup", "none"} /\ Shaped(Client, r)
  BY <1>1, <1>6 DEF Shaped, Locking, HasLock
<1>. HIDE DEF r
<1>8. TaskShape'
  BY <1>0, <1>2, <1>5, <1>7, ShapeKept
<1>. QED
  BY <1>0, <1>1, <1>2, <1>3, <1>4, <1>5, <1>7, <1>8, Move

LEMMA InvCall ==
    ASSUME Inv, NEW op \in Commands, NEW w \in Workspaces, Call(op, w)
    PROVE  TaskShape' /\ Facts'
<1>. USE DEF Inv
<1>0. Client \in Tasks /\ At(Client, "none")
  BY DEF Tasks, Call
<1>1. UNCHANGED <<forge, srow, gate, cache, observed, ci, loop, hist>> /\ EntriesGo /\ RowsGo
  BY EntriesStay, Deletion DEF Call, memory, world, tables
<1>2. LoopGoesOn /\ loop.pc # "seed"
  BY <1>1 DEF LoopGoesOn, Call
<1>. DEFINE r == [NoTask EXCEPT !.pc = "lookup", !.op = op, !.w = w]
<1>3. task' = [task EXCEPT ![Client] = r]
  BY DEF Call
<1>4. r \in TaskType /\ r.pc = "lookup" /\ r.w = w /\ r.gate = 0
  BY TypesOfValues DEF TaskType, Pcs, NoTask
<1>. HIDE DEF r
<1>5. Shaped(Client, r)
  BY <1>4 DEF Shaped, Locking, HasLock
<1>6. TaskShape'
  BY <1>0, <1>1, <1>3, <1>4, <1>5, ShapeKept
<1>. QED
  BY <1>0, <1>1, <1>2, <1>3, <1>4, <1>6, Move DEF At

-----------------------------------------------------------------------------
(* The loop. *)

LEMMA InvSeed ==
    ASSUME Inv, Seed
    PROVE  TaskShape' /\ Facts'
<1>. USE DEF Inv
<1>1. UNCHANGED <<forge, srow, gate, observed, ci, task>> /\ loop.pc = "seed" /\ loop' = Idle
  BY DEF Seed, world, tables
<1>2. \A i \in Tasks : At(i, "none")
  BY <1>1 DEF Facts, SeedAlone
<1>3. Idle.pc = "idle"
  BY DEF Idle
<1>4. \A b \in Branches :
        \/ cache'[b] = cache[b] /\ (RowsOf(b) = {} \/ b \in hist'.torn)
        \/ \E w \in RowsOf(b) :
              /\ cache'[b].on /\ cache'[b].pr \in {srow[w].pr, NoPr}
              /\ b \notin hist'.torn => cache'[b].pr = srow[w].pr /\ ~RowsDiffer(b)
  <2>1. CASE UNCHANGED cache /\ hist'.torn = {b \in Branches : RowsOf(b) # {}}
    BY <2>1
  <2>2. ASSUME NEW bad, SeedRows(cache', bad),
               hist'.torn = {b \in Branches : RowsDiffer(b) \/ RowsOf(b) \cap bad # {}},
               NEW b \in Branches, RowsOf(b) # {}
        PROVE  \E w \in RowsOf(b) :
                  /\ cache'[b].on /\ cache'[b].pr \in {srow[w].pr, NoPr}
                  /\ b \notin hist'.torn => cache'[b].pr = srow[w].pr /\ ~RowsDiffer(b)
    <3>1. PICK w \in RowsOf(b) : \E r \in Parsed(w, bad) : cache'[b] = SeedEntry(r)
      BY <2>2 DEF SeedRows
    <3>2. PICK r \in Parsed(w, bad) : cache'[b] = SeedEntry(r)
      BY <3>1
    <3>3. srow[w] \in RowType
      BY <3>1 DEF RowsOf, Typing, TablesTyped
    <3>4. r.pr = IF w \in bad THEN NoPr ELSE srow[w].pr
      BY <3>2, <3>3 DEF Parsed, RowType
    <3>5. cache'[b].on /\ cache'[b].pr = r.pr
      BY <3>2 DEF SeedEntry
    <3>6. b \notin hist'.torn => w \notin bad /\ ~RowsDiffer(b)
      BY <2>2, <3>1
    <3>. QED
      BY <3>1, <3>4, <3>5, <3>6
  <2>3. ASSUME NEW bad, SeedRows(cache', bad), NEW b \in Branches, RowsOf(b) = {}
        PROVE  cache'[b] = cache[b]
    BY <2>3 DEF SeedRows
  <2>4. \/ UNCHANGED cache /\ hist'.torn = {b \in Branches : RowsOf(b) # {}}
        \/ \E bad \in SUBSET Workspaces :
              /\ SeedRows(cache', bad)
              /\ hist'.torn = {b \in Branches : RowsDiffer(b) \/ RowsOf(b) \cap bad # {}}
    <3>1. ASSUME NEW bad \in SUBSET Workspaces, SeedFrom(bad)
          PROVE  /\ SeedRows(cache', bad)
                 /\ hist'.torn = {b \in Branches : RowsDiffer(b) \/ RowsOf(b) \cap bad # {}}
      BY <3>1 DEF SeedFrom, Typing, HistTyped, HistType
    <3>2. \/ UNCHANGED cache /\ hist'.torn = {b \in Branches : RowsOf(b) # {}}
          \/ \E bad \in SUBSET Workspaces : SeedFrom(bad)
      BY DEF Seed, Typing, HistTyped, HistType
    <3>. QED
      BY <3>1, <3>2
  <2>. QED
    BY <2>1, <2>2, <2>3, <2>4
<1>5. hist'.sawOpen = hist.sawOpen /\ hist'.merged = {}
  BY DEF Seed, SeedFrom, Typing, HistTyped, HistType
<1>6. TaskShape' /\ Exclusion'
  BY <1>1 DEF TaskShape, Shaped, Facts, Exclusion
<1>7. Copies'
  <2>1. \A b \in Branches : CopyOf(cache'[b].pr, b)
    <3>1. \A b \in Branches : \A w \in RowsOf(b) : CopyOf(srow[w].pr, b)
      BY NoneIsNoBranch DEF RowsOf, Facts, Copies
    <3>2. \A b \in Branches : CopyOf(cache[b].pr, b)
      BY DEF Facts, Copies
    <3>3. \A b \in Branches : CopyOf(NoPr, b)
      BY DEF CopyOf, NoPr
    <3>. QED
      BY <1>4, <3>1, <3>2, <3>3
  <2>. QED
    BY <1>1, <2>1 DEF Facts, Copies, CopyOf
<1>8. MergeIsKnown' /\ Witnessed' /\ FixCounted' /\ WhyNamed' /\ ArchiveHasEvidence' /\ SeedAlone'
  BY <1>1, <1>3, <1>5 DEF Facts, MergeIsKnown, Witnessed, FixCounted, WhyNamed,
                          ArchiveHasEvidence, SeedAlone, Archiving
<1>9. RowsBacked'
  <2>1. ASSUME NEW b \in Branches \ hist'.torn, NEW w \in Workspaces, Telling(w, b)'
        PROVE  cache'[b].on /\ cache'[b].pr # NoPr
    <3>1. w \in RowsOf(b) /\ srow[w].pr # NoPr
      BY <1>1, <2>1 DEF Telling, RowsOf
    <3>2. PICK v \in RowsOf(b) : cache'[b].on /\ cache'[b].pr = srow[v].pr /\ ~RowsDiffer(b)
      BY <1>4, <2>1, <3>1
    <3>3. srow[v].pr # NoPr
      BY <3>1, <3>2 DEF RowsDiffer
    <3>. QED
      BY <3>2, <3>3
  <2>. QED
    BY <1>1, <1>2, <2>1 DEF RowsBacked, At, Backed
<1>10. NoneKnown'
  BY <1>1, <1>2 DEF NoneKnown, At
<1>. QED
  BY <1>6, <1>7, <1>8, <1>9, <1>10 DEF Facts

LEMMA InvTick ==
    ASSUME Inv, Tick
    PROVE  TaskShape' /\ Facts'
<1>. USE DEF Inv
<1>1. /\ UNCHANGED <<forge, srow, gate, cache, observed, ci, hist>>
      /\ loop.pc = "idle" /\ loop'.pc = "collect"
  BY DEF Tick, world, tables, memory, Typing, LoopTyped, LoopType
<1>2. \A i \in Tasks : task'[i] = IF i \in Due THEN [NoTask EXCEPT !.pc = "lookup", !.op = "poll", !.w = i]
                                  ELSE task[i]
  BY DEF Tick
<1>3. \A i \in Tasks : \/ task'[i] = task[i]
                       \/ /\ i \in Workspaces /\ task'[i].pc = "lookup"
                          /\ task'[i].w = i /\ task'[i].gate = 0
  BY <1>2 DEF NoTask, Due
<1>4. TaskShape'
  BY <1>1, <1>3, NoneIsNoBranch DEF TaskShape, Shaped, Locking, HasLock
<1>5. Exclusion' /\ Copies'
  BY <1>1, <1>3 DEF Facts, Exclusion, HasLock, Copies, CopyOf
<1>6. MergeIsKnown' /\ Witnessed' /\ FixCounted' /\ WhyNamed' /\ ArchiveHasEvidence' /\ SeedAlone'
  BY <1>1, <1>3 DEF Facts, MergeIsKnown, Witnessed, FixCounted, WhyNamed,
                    ArchiveHasEvidence, SeedAlone, Archiving
<1>7. RowsBacked'
  <2>1. RowsBacked
    BY DEF Facts
  <2>2. task'[Client] = task[Client] /\ Client \in Tasks
    BY <1>3, NoneIsNoBranch DEF Tasks
  <2>3. \A c \in Branches, w \in Workspaces : Telling(w, c)' => Telling(w, c)
    BY <1>1, <2>2 DEF Telling, Doomed, At
  <2>4. \A j \in Tasks : At(j, "row")' =>
            At(j, "row") /\ task'[j] = task[j] /\ task[j].w \in Workspaces
    BY <1>3 DEF At, TaskShape, Shaped
  <2>. QED
    BY <1>1, <2>1, <2>3, <2>4 DEF RowsBacked, Backed
<1>8. NoneKnown'
  BY <1>1, <1>3 DEF Facts, NoneKnown, At
<1>. QED
  BY <1>4, <1>5, <1>6, <1>7, <1>8 DEF Facts

LEMMA InvHandleNone ==
    ASSUME Inv, NEW w \in Workspaces, HandleNone(w)
    PROVE  TaskShape' /\ Facts'
<1>. USE DEF Inv
<1>1. UNCHANGED <<forge, srow, gate, cache, observed, ci, loop, hist>> /\ EntriesGo /\ RowsGo
  BY EntriesStay, Deletion DEF HandleNone, memory, world, tables
<1>2. LoopGoesOn /\ w \in Tasks /\ w # Client
  BY <1>1, NoneIsNoBranch DEF LoopGoesOn, Tasks
<1>3. task' = [task EXCEPT ![w] = NoTask]
  BY DEF HandleNone
<1>4. NoTask \in TaskType /\ NoTask.pc = "none" /\ Shaped(w, NoTask)
  BY TypesOfValues DEF NoTask, Shaped, Locking, HasLock
<1>5. TaskShape'
  BY <1>1, <1>2, <1>3, <1>4, ShapeKept
<1>. QED
  BY <1>1, <1>2, <1>3, <1>4, <1>5, Move

(* The handling of a result: first what it does to the observations.            *)
LEMMA InvHandle ==
    ASSUME Inv, NEW w \in Workspaces, Handle(w)
    PROVE  TaskShape' /\ Facts'
<1>. USE DEF Inv
<1>. DEFINE pr == task[w].pr
<1>0. /\ w \in Tasks /\ w # Client /\ At(w, "done") /\ loop.pc = "collect"
      /\ task[w] \in TaskType /\ pr \in Pr /\ task[w].ci \in Ci
  BY NoneIsNoBranch DEF Handle, Collected, Tasks, Typing, CallsTyped, TaskType
<1>1. UNCHANGED <<forge, gate, cache>>
  BY DEF Handle, world
<1>2. pr.st = "merged" => pr.b \in Branches /\ forge[pr.b].pr.st = "merged"
  BY <1>0 DEF Facts, Copies, At
<1>3. task'[w] = NoTask /\ \A j \in Tasks \ {w} : task'[j] = task[j]
  BY <1>0 DEF Handle, Typing, CallsTyped
<1>4. /\ hist'.merged = hist.merged /\ hist'.torn = hist.torn
      /\ \A v \in Workspaces : hist.sawOpen[v] \subseteq hist'.sawOpen[v]
      /\ pr.st = "open" => pr.b \in hist'.sawOpen[w]
  BY DEF Handle, Typing, HistTyped, HistType
<1>5. /\ observed'[w].b = pr.b /\ observed'[w].st = pr.st
      /\ \A v \in Workspaces \ {w} : observed'[v] = observed[v]
  BY DEF Handle, Typing, MemoryTyped
<1>6. NoTask \in TaskType /\ NoTask.pc = "none" /\ NoTask.gate = 0 /\ Shaped(w, NoTask)
  BY TypesOfValues DEF NoTask, Shaped, Locking, HasLock
<1>7. TaskShape'
  BY <1>0, <1>1, <1>6, ShapeKept DEF Handle
<1>8. RowsGo /\ FixCounted'
  <2>1. CASE UNCHANGED <<tables, ci>>
    BY <2>1, Deletion DEF tables, Facts, FixCounted
  <2>2. CASE CiFix(w, task[w].ci)
    BY <1>0, <2>2, CiFixEffect, Deletion DEF Facts, RowsGo, Typing, TablesTyped
  <2>. QED
    BY <2>1, <2>2 DEF Handle
<1>9. \/ UNCHANGED loop
      \/ /\ Evaluate(w, pr) /\ loop'.pc = "archRead" /\ loop'.w = w /\ loop'.why = pr
  BY DEF Handle, Typing, LoopTyped, LoopType
<1>10. Exclusion'
  BY <1>3, <1>6 DEF Facts, Exclusion, HasLock
<1>11. Copies'
  <2>1. \A v \in Workspaces : IF srow'[v].b = None THEN srow'[v].pr = NoPr
                              ELSE CopyOf(srow'[v].pr, srow'[v].b)
    BY <1>8 DEF Facts, Copies, RowsGo, NoRow
  <2>. QED
    BY <1>1, <1>3, <1>6, <2>1 DEF Facts, Copies, CopyOf
<1>12. MergeIsKnown'
  BY <1>1, <1>3, <1>4, <1>6 DEF Facts, MergeIsKnown
<1>13. Witnessed'
  BY <1>4, <1>5 DEF Facts, Witnessed
<1>14. WhyNamed' /\ ArchiveHasEvidence'
  <2>1. CASE UNCHANGED loop
    BY <1>0, <2>1 DEF WhyNamed, ArchiveHasEvidence, Archiving
  <2>2. CASE Evaluate(w, pr) /\ loop'.pc = "archRead" /\ loop'.w = w /\ loop'.why = pr
    <3>1. pr.b \in Branches /\ forge'[pr.b].pr.st = "merged"
      BY <1>1, <1>2, <2>2 DEF Evaluate
    <3>2. (pr.stamp /\ w \in pr.since) \/ pr.b \in hist'.sawOpen[w]
      BY <1>4, <2>2 DEF Evaluate, Facts, Witnessed
    <3>. QED
      BY <2>2, <3>1, <3>2 DEF WhyNamed, ArchiveHasEvidence
  <2>. QED
    BY <1>9, <2>1, <2>2
<1>15. SeedAlone'
  BY <1>0, <1>9 DEF SeedAlone
<1>16. RowsBacked'
  <2>1. RowsBacked
    BY DEF Facts
  <2>2. task'[Client] = task[Client]
    BY <1>0, <1>3 DEF Tasks
  <2>3. \A c \in Branches, v \in Workspaces : Telling(v, c)' => Telling(v, c)
    BY <1>8, <2>2, NoneIsNoBranch DEF Telling, Doomed, At, RowsGo, NoRow
  <2>4. \A j \in Tasks : At(j, "row")' =>
            At(j, "row") /\ task'[j] = task[j] /\ task[j].w \in Workspaces
    BY <1>3, <1>6 DEF At, TaskShape, Shaped
  <2>. QED
    BY <1>0, <1>1, <1>4, <2>1, <2>3, <2>4 DEF RowsBacked, Backed
<1>17. NoneKnown'
  BY <1>1, <1>3, <1>6, <1>8, NoneIsNoBranch
     DEF Facts, NoneKnown, At, RowsGo, NoRow, TaskShape, Shaped
<1>. QED
  BY <1>7, <1>8, <1>10, <1>11, <1>12, <1>13, <1>14, <1>15, <1>16, <1>17 DEF Facts

LEMMA InvSleepArchive ==
    ASSUME Inv, Sleep \/ ArchiveRead \/ ArchiveTree \/ ArchiveCommit \/ CiAfterArchive
    PROVE  TaskShape' /\ Facts'
<1>. USE DEF Inv
<1>1. UNCHANGED <<forge, gate, observed, task, hist>> /\ CacheSays
  BY DEF Sleep, ArchiveRead, ArchiveTree, ArchiveCommit, CiAfterArchive, CacheSays, memory, world
<1>2. LoopGoesOn
  <2>1. loop \in LoopType /\ Idle.pc = "idle" /\ [Idle EXCEPT !.pc = "collect"].pc = "collect"
    BY DEF Typing, LoopTyped, Idle
  <2>. QED
    BY <2>1 DEF Sleep, ArchiveRead, ArchiveTree, ArchiveCommit, CiAfterArchive,
                LoopGoesOn, LoopType, Archiving
<1>3. CASE CiAfterArchive
  <2>1. loop.w \in Workspaces /\ loop.ci \in Ci
    BY <1>3 DEF CiAfterArchive, Typing, LoopTyped, LoopType
  <2>2. FixCounted' /\ RowsGo
    BY <1>3, <2>1, CiFixEffect, Deletion DEF CiAfterArchive, Facts, RowsGo, Typing, TablesTyped
  <2>. QED
    BY <1>1, <1>2, <2>2, Bystander
<1>4. CASE ArchiveCommit
  <2>1. loop.w \in Workspaces
    BY <1>4 DEF ArchiveCommit, Typing, LoopTyped, Archiving
  <2>2. RowsGo
    BY <1>4, <2>1, Deletion DEF ArchiveCommit, Archived, tables
  <2>3. FixCounted'
    BY <1>4 DEF ArchiveCommit, memory, Facts, FixCounted
  <2>. QED
    BY <1>1, <1>2, <2>2, <2>3, Bystander
<1>5. CASE Sleep \/ ArchiveRead \/ ArchiveTree
  <2>1. RowsGo /\ FixCounted'
    BY <1>5, Deletion DEF Sleep, ArchiveRead, ArchiveTree, tables, memory, Facts, FixCounted
  <2>. QED
    BY <1>1, <1>2, <2>1, Bystander
<1>. QED
  BY <1>3, <1>4, <1>5

-----------------------------------------------------------------------------
(* Users, agents, the forge and time. *)

LEMMA InvWorkspaces ==
    ASSUME Inv, NEW w \in Workspaces,
           \/ ArchiveByUser(w) \/ RestoreByUser(w) \/ SyncBranch(w)
           \/ AutoRenameBegin(w) \/ AutoRenameGit
           \/ \E b \in Branches :
                CreateWorkspace(w, b) \/ RenameByAgent(w, b) \/ AutoRenameRow(b)
    PROVE  TaskShape' /\ Facts'
<1>. USE DEF Inv
<1>1. UNCHANGED <<forge, gate, cache, observed, ci, task, loop, hist>>
  BY DEF ArchiveByUser, RestoreByUser, SyncBranch, AutoRenameGit, CreateWorkspace,
         RenameByAgent, AutoRenameBegin, AutoRenameRow, memory, world
<1>2. UNCHANGED srow \/ Deleted(w)
  BY DEF ArchiveByUser, RestoreByUser, SyncBranch, AutoRenameGit, CreateWorkspace,
         RenameByAgent, AutoRenameBegin, AutoRenameRow, tables, Archived
<1>3. RowsGo
  BY <1>2, Deletion
<1>4. LoopGoesOn /\ CacheSays /\ FixCounted'
  BY <1>1 DEF LoopGoesOn, CacheSays, Facts, FixCounted
<1>. QED
  BY <1>1, <1>3, <1>4, Bystander

LEMMA InvForge ==
    ASSUME Inv, NEW b \in Branches,
           \/ OpenPr(b)
           \/ \E stamp \in Stamps : MergePr(b, stamp)
           \/ \E st \in Statuses : CiChanges(b, st)
    PROVE  TaskShape' /\ Facts'
<1>1. UNCHANGED <<srow, cache, gate, observed, ci, loop, task, hist>>
  BY DEF OpenPr, MergePr, CiChanges, tables, memory
<1>2. ForgeGrows
  <2>1. CASE OpenPr(b)
    BY <2>1, Opening DEF OpenPr
  <2>2. CASE \E stamp \in Stamps : MergePr(b, stamp)
    BY <2>2, Merging DEF MergePr
  <2>3. ASSUME NEW st \in Statuses, CiChanges(b, st) PROVE ForgeGrows
    <3>1. \A c \in Branches : forge'[c].pr = forge[c].pr
      BY <2>3 DEF CiChanges, Inv, Typing, WorldTyped
    <3>. QED
      BY <3>1 DEF ForgeGrows, Inv, Facts, Copies, CopyOf
  <2>. QED
    BY <2>1, <2>2, <2>3
<1>. QED
  BY <1>1, <1>2, ForgeStep DEF Inv

LEMMA InvTime ==
    ASSUME Inv, Time \/ \E w \in Workspaces : Select(w)
    PROVE  TaskShape' /\ Facts'
<1>. USE DEF Inv
<1>1. UNCHANGED <<forge, srow, gate, observed, ci, task, loop, hist>>
  BY DEF Time, Expire, Elapse, Rest, Select, world, tables
<1>2. CacheSays
  BY DEF Time, Expire, Elapse, Rest, Select, CacheSays, Typing, MemoryTyped, EntryType
<1>3. RowsGo /\ LoopGoesOn /\ FixCounted'
  BY <1>1, Deletion DEF LoopGoesOn, Facts, FixCounted
<1>. QED
  BY <1>1, <1>2, <1>3, Bystander

LEMMA InvRestart ==
    ASSUME Inv, Restart
    PROVE  TaskShape' /\ Facts'
<1>. USE DEF Inv
<1>1. /\ NoTask.pc = "none" /\ NoTask.gate = 0 /\ NoTask.w = None
      /\ NoPr.st = "none" /\ NoEntry.pr = NoPr /\ NoObs.st = "none"
  BY DEF NoTask, NoPr, NoEntry, NoObs
<1>2. /\ UNCHANGED <<forge, srow>> /\ loop'.pc = "seed" /\ hist'.merged = {}
      /\ \A b \in Branches : cache'[b] = NoEntry
      /\ \A i \in Tasks : task'[i] = NoTask
      /\ \A w \in Workspaces : /\ observed'[w] = NoObs
                               /\ ci'[w].fixes = 0
  BY DEF Restart, world, tables, Idle
<1>3. TaskShape' /\ Exclusion'
  BY <1>1, <1>2 DEF TaskShape, Shaped, Exclusion, Locking, HasLock
<1>4. Copies'
  BY <1>1, <1>2 DEF Facts, Copies, CopyOf
<1>5. MergeIsKnown' /\ Witnessed' /\ FixCounted' /\ WhyNamed' /\ ArchiveHasEvidence' /\ SeedAlone'
  BY <1>1, <1>2 DEF MergeIsKnown, Witnessed, FixCounted, WhyNamed, ArchiveHasEvidence,
                    SeedAlone, Archiving, At
<1>6. RowsBacked' /\ NoneKnown'
  BY <1>1, <1>2 DEF RowsBacked, NoneKnown, At
<1>. QED
  BY <1>3, <1>4, <1>5, <1>6 DEF Facts

LEMMA InvStutter ==
    ASSUME Inv, UNCHANGED vars
    PROVE  TaskShape' /\ Facts'
<1>1. UNCHANGED <<forge, srow, gate, cache, observed, ci, task, loop, hist>>
  BY DEF vars, world, tables, memory
<1>2. CacheSays /\ RowsGo /\ LoopGoesOn /\ FixCounted'
  BY <1>1, Deletion DEF CacheSays, LoopGoesOn, Inv, Facts, FixCounted
<1>. QED
  BY <1>1, <1>2, Bystander DEF Inv

LEMMA InvNext ==
    ASSUME Inv, [Next]_vars
    PROVE  Inv'
<1>1. TaskShape' /\ Facts'
  <2>1. CASE UNCHANGED vars
    BY <2>1, InvStutter
  <2>2. CASE \E i \in Tasks : TaskStep(i)
    BY <2>2, InvLookup, InvResolveSome, InvResolveNone, InvEvict, InvResolveFails, InvLock, InvFetch,
       InvStore, InvUpsert DEF TaskStep
  <2>3. CASE CommandStep
    BY <2>3, InvAct, InvUncache, InvUnrow DEF CommandStep
  <2>4. CASE LoopStep
    BY <2>4, InvSeed, InvTick, InvHandle, InvHandleNone, InvSleepArchive DEF LoopStep
  <2>5. CASE User
    <3>1. CASE AutoRenameGit \/ \E b \in Branches : AutoRenameRow(b)
      BY <3>1, InvWorkspaces, ScmAssumption DEF ScmAssumption
    <3>2. CASE \E op \in {"load", "refresh", "create", "merge"}, w \in Workspaces : Call(op, w)
      BY <3>2, InvCall DEF Commands
    <3>3. CASE \E w \in Workspaces, b \in Branches : CreateWorkspace(w, b) \/ RenameByAgent(w, b)
      BY <3>3, InvWorkspaces
    <3>4. CASE \E w \in Workspaces : \/ SyncBranch(w) \/ ArchiveByUser(w) \/ RestoreByUser(w)
                                    \/ AutoRenameBegin(w)
      BY <3>4, InvWorkspaces
    <3>5. CASE \/ \E b \in Branches : OpenPr(b) \/ \E stamp \in Stamps : MergePr(b, stamp)
               \/ \E b \in Branches, st \in Statuses : CiChanges(b, st)
      BY <3>5, InvForge
    <3>6. CASE \E w \in Workspaces : Select(w)
      BY <3>6, InvTime
    <3>. QED
      BY <2>5, <3>1, <3>2, <3>3, <3>4, <3>5, <3>6, InvRestart DEF User
  <2>6. CASE Time
    BY <2>6, InvTime
  <2>. QED
    BY <2>1, <2>2, <2>3, <2>4, <2>5, <2>6 DEF Next
<1>2. Typing'
  BY TypingNext DEF Inv
<1>. QED
  BY <1>1, <1>2 DEF Inv

LEMMA InvInit == Init => Inv
<1> SUFFICES ASSUME Init PROVE Inv
  OBVIOUS
<1>1. /\ NoTask.pc = "none" /\ NoTask.gate = 0 /\ NoTask.w = None
      /\ NoPr.st = "none" /\ NoEntry.pr = NoPr /\ NoObs.st = "none"
      /\ NoRow.b = None /\ NoRow.pr = NoPr
  BY DEF NoTask, NoPr, NoEntry, NoObs, NoRow
<1>2. /\ loop.pc = "idle" /\ hist.merged = {}
      /\ \A b \in Branches : cache[b] = NoEntry
      /\ \A i \in Tasks : task[i] = NoTask
      /\ \A w \in Workspaces : /\ observed[w] = NoObs /\ srow[w] = NoRow
                               /\ ci[w].fixes = 0
  BY DEF Init, Idle
<1>3. TaskShape /\ Exclusion
  BY <1>1, <1>2 DEF TaskShape, Shaped, Exclusion, Locking, HasLock
<1>4. \A b \in Branches : CopyOf(forge[b].pr, b)
  <2>. DEFINE S == {NoPr, Opened(Home)}
                    \cup {MergedPr(Opened(b), TRUE, {}) : b \in Branches \ {Home}}
  <2>1. forge \in [Branches -> [pr: S, ci: {"good"}]] /\ \A b \in Branches : forge[b].pr.b \in {b, None}
    BY DEF Init
  <2>2. \A pr \in S : pr = NoPr \/ (pr.b \in Branches /\ pr.st \in {"open", "merged"})
    BY ScmAssumption DEF ScmAssumption, Opened, MergedPr, NoPr
  <2>3. \A b \in Branches : forge[b].pr \in S
    BY <2>1
  <2>. HIDE DEF S
  <2>. QED
    BY <1>1, <2>1, <2>2, <2>3, NoneIsNoBranch DEF CopyOf
<1>5. Copies
  BY <1>1, <1>2, <1>4 DEF Copies, CopyOf
<1>6. MergeIsKnown /\ Witnessed /\ FixCounted /\ WhyNamed /\ ArchiveHasEvidence /\ SeedAlone
  BY <1>1, <1>2 DEF MergeIsKnown, Witnessed, FixCounted, WhyNamed, ArchiveHasEvidence,
                    SeedAlone, Archiving, At
<1>7. RowsBacked /\ NoneKnown
  BY <1>1, <1>2, NoneIsNoBranch DEF RowsBacked, NoneKnown, At, Telling
<1>. QED
  BY <1>3, <1>5, <1>6, <1>7, InitTyping DEF Inv, Facts

LEMMA Invariant == Spec => []Inv
<1>1. Inv /\ [Next]_vars => Inv'
  BY InvNext
<1>. QED
  BY <1>1, InvInit, PTL DEF Spec

-----------------------------------------------------------------------------
(* The results. *)

(* Every variable keeps its type, and a row of the table has a branch exactly    *)
(* while its workspace is active or archived: no rename, restore, reconciliation  *)
(* or archive in between leaves an active workspace without one.                 *)
THEOREM Typed == Spec => []TypeOK
<1>1. Inv => TypeOK
  BY TypingImpliesTypeOK DEF Inv, Facts
<1>. QED
  BY <1>1, Invariant, PTL

(* auto_archive::evaluate lets a workspace be archived only for a pull request   *)
(* that did merge, after the workspace existed or under the eyes of its polls.   *)
THEOREM ArchivesHaveEvidence == Spec => []ArchiveHasEvidence
<1>1. Inv => ArchiveHasEvidence
  BY DEF Inv, Facts
<1>. QED
  BY <1>1, Invariant, PTL

(* A failure of CI gets one session (auto_create_ci_fix_session), however many    *)
(* polls see it and whether or not the session could be created at first.         *)
THEOREM OneFix == Spec => []OneFixPerFailure
<1>1. Inv => OneFixPerFailure
  BY DEF Inv, Facts, FixCounted, OneFixPerFailure
<1>. QED
  BY <1>1, Invariant, PTL

(* A merge that is cached stays (scm_fetch_lock_for_key, poll_workspace_scm): the  *)
(* lock of a branch excludes a second fetch even when idle locks are dropped.      *)
THEOREM MergesStay == Spec => NeverUnmerges
<1>1. Inv' => \A b \in Branches : b \in hist.merged /\ b \in hist'.merged => cache'[b].pr.st # "open"
  BY DEF Inv, Facts, MergeIsKnown
<1>2. Inv' => [\A b \in Branches : b \in hist.merged /\ b \in hist'.merged => cache'[b].pr.st # "open"]_vars
  BY <1>1
<1>. QED
  BY <1>2, Invariant, PTL DEF NeverUnmerges

(* Only the end of a fetch writes a row; every other step deletes rows at most. *)
LEMMA RowsAreWrittenByFetches ==
    ASSUME Inv, [Next]_vars
    PROVE  RowsGo \/ \E i \in Tasks : Upsert(i)
<1>. USE DEF Inv
<1>1. ASSUME UNCHANGED srow \/ \E w \in Workspaces : Deleted(w) PROVE RowsGo
  BY <1>1, Deletion
<1>2. CASE UNCHANGED vars
  BY <1>1, <1>2 DEF vars, tables
<1>3. ASSUME NEW i \in Tasks, TaskStep(i), ~Upsert(i) PROVE RowsGo
  <2>1. task[i].pc # "none" => task[i].w \in Workspaces
    BY DEF TaskShape, Shaped
  <2>2. CASE Lookup(i)
    BY <1>1, <2>1, <2>2 DEF Lookup, Reconcile, tables, At
  <2>3. CASE ResolveNone(i)
    BY <1>1, <2>1, <2>3 DEF ResolveNone, At
  <2>4. CASE ResolveSome(i) \/ Evict(i) \/ ResolveFails(i) \/ Lock(i) \/ Fetch(i) \/ Store(i)
    BY <1>1, <2>4 DEF ResolveSome, Evict, ResolveFails, Lock, Fetch, Store, tables
  <2>. QED
    BY <1>3, <2>2, <2>3, <2>4 DEF TaskStep
<1>4. CASE CommandStep
  <2>1. Unrow => task[Client].w \in Workspaces
    BY DEF Unrow, At, TaskShape, Shaped, Tasks
  <2>. QED
    BY <1>1, <1>4, <2>1 DEF CommandStep, Act, Uncache, Unrow, tables
<1>5. CASE LoopStep
  <2>1. CASE Seed \/ Tick \/ Sleep \/ ArchiveRead \/ ArchiveTree
    BY <1>1, <2>1 DEF Seed, Tick, Sleep, ArchiveRead, ArchiveTree, tables
  <2>2. ASSUME NEW w \in Workspaces, NEW st \in Ci, CiFix(w, st) PROVE RowsGo
    BY <2>2, CiFixEffect DEF RowsGo, Typing, TablesTyped
  <2>3. ASSUME NEW w \in Workspaces, Handle(w) \/ HandleNone(w) PROVE RowsGo
    <3>1. task[w].ci \in Ci
      BY DEF Typing, CallsTyped, TaskType, Tasks
    <3>. QED
      BY <1>1, <2>2, <2>3, <3>1 DEF Handle, HandleNone, tables
  <2>4. CASE ArchiveCommit \/ CiAfterArchive
    <3>1. loop.w \in Workspaces /\ loop.ci \in Ci
      BY <2>4 DEF ArchiveCommit, CiAfterArchive, Typing, LoopTyped, LoopType, Archiving
    <3>. QED
      BY <1>1, <2>2, <2>4, <3>1 DEF ArchiveCommit, Archived, CiAfterArchive, tables
  <2>. QED
    BY <1>5, <2>1, <2>3, <2>4 DEF LoopStep
<1>6. CASE User
  <2>1. CASE \E w \in Workspaces : ArchiveByUser(w)
    BY <1>1, <2>1 DEF ArchiveByUser, Archived
  <2>2. User => UNCHANGED srow \/ \E w \in Workspaces : ArchiveByUser(w)
    BY DEF User, Call, CreateWorkspace, RenameByAgent, AutoRenameBegin, AutoRenameRow,
           AutoRenameGit, SyncBranch, Select, RestoreByUser, OpenPr, MergePr, CiChanges, Restart, tables
  <2>. QED
    BY <1>1, <1>6, <2>1, <2>2
<1>7. CASE Time
  BY <1>1, <1>7 DEF Time, Expire, Elapse, Rest, tables
<1>. QED
  BY <1>2, <1>3, <1>4, <1>5, <1>6, <1>7 DEF Next

(* An outage does not lose what is stored (merge_scm_results,                     *)
(* seed_scm_cache_from_db): a fetch in which the list failed writes back the pull  *)
(* request that the row had, because the entry of its branch still has one.       *)
THEOREM OutagesLoseNothing == Spec => OutageKeepsPr
<1>. DEFINE Kept(w) ==
        srow[w].pr # NoPr /\ srow'[w].b = srow[w].b /\ srow'[w].pr = NoPr =>
            \/ srow[w].b \in hist.torn
            \/ \E i \in Tasks : At(i, "row") /\ task[i].w = w /\ task[i].prOk
            \/ At(Client, "unrow") /\ task[Client].w = w /\ task[Client].b = srow[w].b
<1>1. ASSUME Inv, [Next]_vars, NEW w \in Workspaces PROVE Kept(w)
  <2>1. SUFFICES ASSUME srow[w].pr # NoPr, srow'[w].b = srow[w].b, srow'[w].pr = NoPr,
                        srow[w].b \notin hist.torn, ~Doomed(w, srow[w].b),
                        \A i \in Tasks : ~ (At(i, "row") /\ task[i].w = w /\ task[i].prOk)
                 PROVE  FALSE
    BY DEF Doomed
  <2>2. srow[w].b # None
    BY <1>1, <2>1 DEF Inv, Facts, Copies
  <2>3. ~RowsGo
    BY <2>1, <2>2 DEF RowsGo, NoRow
  <2>4. PICK i \in Tasks : Upsert(i)
    BY <1>1, <2>3, RowsAreWrittenByFetches
  <2>5. At(i, "row") /\ task[i].b \in Branches
    BY <1>1, <2>4 DEF Upsert, Inv, TaskShape, Shaped, At
  <2>6. task[i].w = w /\ srow'[w].b = task[i].b /\ srow'[w].pr = task[i].pr
    BY <1>1, <2>1, <2>4 DEF Upsert, Inv, Typing, TablesTyped
  <2>7. Telling(w, task[i].b) /\ ~task[i].prOk
    BY <2>1, <2>5, <2>6 DEF Telling
  <2>8. loop.pc # "seed"
    BY <1>1, <2>5 DEF Inv, Facts, SeedAlone, At
  <2>. QED
    BY <1>1, <2>1, <2>5, <2>6, <2>7, <2>8 DEF Inv, Facts, RowsBacked
<1>2. Inv /\ [Next]_vars => [\A w \in Workspaces : Kept(w)]_vars
  BY <1>1
<1>. QED
  BY <1>2, Invariant, PTL DEF OutageKeepsPr, Spec
=============================================================================

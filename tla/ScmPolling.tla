------------------------------ MODULE ScmPolling ------------------------------
(***************************************************************************)
(* Pull-request polling of the workspaces of one repository                 *)
(* (src/src-tauri/src/commands/scm.rs): the loop of start_scm_polling with   *)
(* its concurrent polls, the commands a client runs beside it, the cache in   *)
(* memory and its table, and the two things a poll may set off, archiving a   *)
(* workspace whose pull request merged (scm/auto_archive.rs) and opening a     *)
(* session that fixes a failed CI run.                                        *)
(*                                                                           *)
(* A branch has at most one pull request, so the branch stands for its        *)
(* number. A timestamp is kept as what it is compared with: the workspaces    *)
(* that existed when the pull request merged. Git and the forge are external. *)
(* Time passes by Expire and Elapse.                                          *)
(***************************************************************************)
EXTENDS Naturals, FiniteSets

CONSTANTS
    First, Home, \* the workspace that exists at the start, and its branch
    Workspaces,  \* all of them
    Branches,    \* branch names
    Client,      \* the client's call, beside one poll per workspace
    Stamps,      \* may the provider report, or leave out, merged_at
    DeleteBranch, \* values of git_delete_branch_on_archive
    Events,      \* bound: what users, agents, the forge and failures do
    None

ASSUME ScmAssumption ==
    /\ First \in Workspaces /\ Home \in Branches /\ IsFiniteSet(Workspaces)
    /\ Client \notin Workspaces /\ None \notin Branches \cup Workspaces
    /\ Stamps \subseteq BOOLEAN /\ DeleteBranch \subseteq BOOLEAN
    /\ Events \in Nat

Tasks == Workspaces \cup {Client}
Gates == 1 .. Cardinality(Tasks)
Statuses == {"good", "failure"}   \* pending and success are treated alike

VARIABLES
    forge,     \* external: the pull request of each branch and its CI status
    head,      \* external: the branch checked out in a worktree
    tree,      \* external: worktrees on disk
    ws,        \* workspaces.status and branch_name
    srow,      \* scm_status_cache
    cache,     \* scm_cache, by branch
    gate,      \* scm_fetch_locks: the lock of a branch
    polled,    \* scm_last_polled: workspaces whose tier interval has not elapsed
    observed,  \* pr_last_observed
    ci,        \* ci_last_status
    task,      \* polls and the client's call
    loop,      \* start_scm_polling
    naming,    \* try_auto_rename: the table is renamed, git not yet
    left,      \* events still to come
    hist       \* history: pull requests a workspace saw open, branches whose
               \* merge was cached, branches whose entry was lost to a fetch or a row

world == <<forge, head, tree>>
tables == <<ws, srow>>
memory == <<cache, gate, polled, observed, ci>>
vars == <<world, tables, memory, task, loop, naming, left, hist>>

NoPr == [b |-> None, st |-> "none", stamp |-> FALSE, since |-> {}]
NoEntry == [on |-> FALSE, pr |-> NoPr, ci |-> None, err |-> FALSE, fresh |-> FALSE]
NoRow == [b |-> None, pr |-> NoPr, ci |-> None, err |-> FALSE]
NoTask == [pc |-> "none", op |-> "none", w |-> None, b |-> None, gate |-> 0,
           pr |-> NoPr, prOk |-> TRUE, ci |-> None, ciOk |-> TRUE, some |-> FALSE]
NoObs == [b |-> None, st |-> "none"]
Idle == [pc |-> "idle", w |-> None, why |-> NoPr, ci |-> None, b |-> None,
         path |-> FALSE, del |-> FALSE]
NoName == [w |-> None, b |-> None, old |-> None]

(* A pull request at the forge. *)
Opened(b) == [NoPr EXCEPT !.b = b, !.st = "open"]
MergedPr(pr, stamp, alive) == [pr EXCEPT !.st = "merged", !.stamp = stamp, !.since = alive]

(* The app is started with an empty cache. The pull request of the first         *)
(* workspace may be open, and those of other branches may have merged before it   *)
(* was created.                                                                   *)
Init ==
    /\ forge \in [Branches -> [pr: {NoPr, Opened(Home)}
                    \cup {MergedPr(Opened(b), TRUE, {}) : b \in Branches \ {Home}},
                                ci: {"good"}]]
    /\ \A b \in Branches : forge[b].pr.b \in {b, None}
    /\ head = [w \in Workspaces |-> IF w = First THEN Home ELSE None]
    /\ ws = [w \in Workspaces |-> IF w = First THEN [st |-> "active", b |-> Home]
                                 ELSE [st |-> "none", b |-> None]]
    /\ tree = {First}
    /\ srow = [w \in Workspaces |-> NoRow]
    /\ cache = [b \in Branches |-> NoEntry]
    /\ gate = [b \in Branches |-> 1]
    /\ polled = {}
    /\ observed = [w \in Workspaces |-> NoObs]
    /\ ci = [w \in Workspaces |-> [st |-> None, triggered |-> FALSE, fixes |-> 0]]
    /\ task = [i \in Tasks |-> NoTask]
    /\ loop = Idle
    /\ naming = NoName
    /\ left = Events
    /\ hist = [sawOpen |-> [w \in Workspaces |-> {}], merged |-> {}, torn |-> {}]

-----------------------------------------------------------------------------
(* Helper operators. *)

Event == left > 0 /\ left' = left - 1
Active(w) == ws[w].st = "active"
Stored(w) == ws[w].st \in {"active", "archived"}   \* there is a row

At(i, pc) == task[i].pc = pc
Goto(i, pc) == task' = [task EXCEPT ![i].pc = pc]
HasLock == {"fetch", "store", "row"}

(* The call is over. A poll keeps the detail it returns for the loop, which    *)
(* collects it; the client shows it to the user.                               *)
Return(i, pr, st) ==
    task' = [task EXCEPT ![i] =
        IF i = Client THEN NoTask
        ELSE [NoTask EXCEPT !.pc = "done", !.w = i, !.pr = pr, !.ci = st, !.some = TRUE]]

(* The workspace is not in the table any more: the poll returns None.          *)
ReturnNone(i) ==
    task' = [task EXCEPT ![i] = IF i = Client THEN NoTask
                                ELSE [NoTask EXCEPT !.pc = "done", !.w = i]]

(* A removal of an entry takes no lock, so it may meet a fetch that has it, and  *)
(* it does not ask which rows, beside one it deletes, still rely on the entry.   *)
Tear(b) == hist' = [hist EXCEPT !.torn = @ \cup {b}]
Removed(b, rows) ==
    /\ cache' = [cache EXCEPT ![b] = NoEntry]
    /\ IF \/ \E i \in Tasks : task[i].pc \in HasLock /\ task[i].b = b
          \/ \E v \in rows : srow[v].b = b
       THEN Tear(b) ELSE UNCHANGED hist

ReturnEntry(i, e) == Return(i, e.pr, e.ci)

Deleted(w) == srow' = [srow EXCEPT ![w] = NoRow]

Alive == {w \in Workspaces : ws[w].st # "none"}

-----------------------------------------------------------------------------
(* lookup_workspace_context *)

(* The branch git names replaces the stored one; without a worktree the stored *)
(* one is used. That the row may change while git is asked is left out.        *)
Actual(w, b) == IF w \in tree THEN head[w] ELSE b
Reconcile(w, b) ==
    \/ /\ Actual(w, b) # b
       /\ ws' = [ws EXCEPT ![w].b = head[w]]
       /\ Deleted(w)
    \/ Actual(w, b) = b /\ UNCHANGED tables

Lookup(i) ==
    LET w == task[i].w IN
    /\ At(i, "lookup")
    /\ \/ /\ Stored(w)
          /\ task' = [task EXCEPT ![i].b = IF Active(w) THEN Actual(w, ws[w].b) ELSE ws[w].b,
                        ![i].pc = IF task[i].op = "refresh" THEN "uncache" ELSE "resolve"]
          /\ IF Active(w) THEN Reconcile(w, ws[w].b) ELSE UNCHANGED tables
       \/ /\ ~Stored(w)
          /\ ReturnNone(i)
          /\ UNCHANGED tables
    /\ UNCHANGED <<world, memory, loop, naming, left, hist>>

-----------------------------------------------------------------------------
(* poll_workspace_scm and load_scm_detail, which differ in what is fresh.      *)

(* Arc::strong_count of the lock in the table is above one. *)
Held(b) == \E i \in Tasks : task[i].gate = gate[b] /\ task[i].b = b
(* The first one that no task of the branch has: a lock nobody has is like new. *)
NewGate(b) == CHOOSE g \in Gates : \A i \in Tasks : task[i].b = b => task[i].gate # g

(* Mutant: an idle entry is dropped although a task has its lock. *)
PrunableByAge(b) == TRUE
Prunable(b) == ~Held(b)

(* resolve_provider: found; no plugin matches; or git failed. With a provider   *)
(* the lock of the branch is looked up (scm_fetch_lock_for_key): an entry that   *)
(* is old and that nobody holds is dropped, and one that is missing is made.     *)
ResolveSome(i) ==
    LET b == task[i].b IN
    /\ At(i, "resolve")
    /\ \/ /\ task[i].op \in {"create", "merge"}
          /\ Goto(i, "act")
          /\ UNCHANGED gate
       \/ /\ task[i].op \in {"poll", "load"}
          /\ \E g \in {gate[b]} \cup (IF Prunable(b) THEN {NewGate(b)} ELSE {}) :
                /\ gate' = [gate EXCEPT ![b] = g]
                /\ task' = [task EXCEPT ![i].gate = g, ![i].pc = "lock"]
    /\ UNCHANGED <<world, tables, cache, polled, observed, ci, loop, naming, left, hist>>

(* No plugin matches: the row is deleted, an error of which is ignored, and     *)
(* then, once the lock of the map is there, the entry is removed.               *)
ResolveNone(i) ==
    /\ At(i, "resolve")
    /\ Event
    /\ \/ /\ task[i].op \in {"create", "merge"}
          /\ Return(i, NoPr, None)
          /\ UNCHANGED srow
       \/ /\ task[i].op \in {"poll", "load"}
          /\ Deleted(task[i].w) \/ UNCHANGED srow
          /\ Goto(i, "evict")
    /\ UNCHANGED <<world, ws, memory, loop, naming, hist>>

Evict(i) ==
    /\ At(i, "evict")
    /\ Removed(task[i].b, Workspaces)
    /\ Return(i, NoPr, None)
    /\ UNCHANGED <<world, tables, gate, polled, observed, ci, loop, naming, left>>

ResolveFails(i) ==
    /\ At(i, "resolve")
    /\ Event
    /\ ReturnEntry(i, cache[task[i].b])
    /\ UNCHANGED <<world, tables, memory, loop, naming, hist>>

Free(i) == \A j \in Tasks \ {i} :
    ~ (task[j].pc \in HasLock /\ task[j].b = task[i].b /\ task[j].gate = task[i].gate)

(* scm_cache_entry_fresh: an entry is older than ten seconds before it is older *)
(* than thirty, and a commit outdates for a poll an entry that has no request.  *)
Usable(i, e) == e.on /\ e.fresh
MayBeOld(i, e) == task[i].op = "load" \/ (e.pr = NoPr /\ ~e.err)

Lock(i) ==
    LET e == cache[task[i].b] IN
    /\ At(i, "lock") /\ Free(i)
    /\ \/ Usable(i, e) /\ ReturnEntry(i, e)
       \/ (~Usable(i, e) \/ MayBeOld(i, e)) /\ Goto(i, "fetch")
    /\ UNCHANGED <<world, tables, memory, loop, naming, left, hist>>

(* fetch_branch_scm_results: the list, then the CI status unless the list came   *)
(* without a request. Either call may fail.                                      *)
Fetch(i) ==
    LET f == forge[task[i].b] IN
    /\ At(i, "fetch")
    /\ \/ /\ task' = [task EXCEPT ![i].pr = f.pr, ![i].pc = "store",
                                  ![i].ci = IF f.pr = NoPr THEN None ELSE f.ci]
          /\ UNCHANGED left
       \/ /\ Event
          /\ \E prOk, ciOk \in BOOLEAN :
                /\ ~prOk \/ (~ciOk /\ f.pr # NoPr)
                /\ task' = [task EXCEPT ![i].pc = "store", ![i].prOk = prOk, ![i].ciOk = ciOk,
                                      ![i].pr = IF prOk THEN f.pr ELSE NoPr,
                                      ![i].ci = IF ciOk THEN f.ci ELSE None]
    /\ UNCHANGED <<world, tables, memory, loop, naming, hist>>

ShouldPersist(i, e) == task[i].prOk \/ task[i].ciOk \/ ~e.on

(* Mutant: a call that failed counts as one that found nothing. *)
MergeForgets(i, e) == [pr |-> task[i].pr, ci |-> task[i].ci]
MergeScmResults(i, e) ==
    [pr |-> IF task[i].prOk THEN task[i].pr ELSE e.pr,
     ci |-> IF task[i].ciOk THEN task[i].ci ELSE e.ci]

Failed(i) == ~ (task[i].prOk /\ task[i].ciOk)

(* The answers are merged with the entry; persist_scm_cache writes the map,      *)
Store(i) ==
    LET b == task[i].b
        e == cache[b]
        out == MergeScmResults(i, e)
    IN  /\ At(i, "store")
        /\ \/ /\ ShouldPersist(i, e)
              /\ cache' = [cache EXCEPT ![b] = [on |-> TRUE, pr |-> out.pr, ci |-> out.ci,
                                               err |-> Failed(i), fresh |-> TRUE]]
              /\ task' = [task EXCEPT ![i].pc = "row", ![i].pr = out.pr, ![i].ci = out.ci]
              /\ hist' = IF out.pr.st = "merged"
                         THEN [hist EXCEPT !.merged = @ \cup {b}] ELSE hist
           \/ /\ ~ShouldPersist(i, e)
              /\ Return(i, out.pr, out.ci)
              /\ UNCHANGED <<cache, hist>>
        /\ UNCHANGED <<world, tables, gate, polled, observed, ci, loop, naming, left>>

(* and the table, whose row cascades with its workspace; an error is logged.   *)
Upsert(i) ==
    LET w == task[i].w IN
    /\ At(i, "row")
    /\ \/ /\ Stored(w)
          /\ srow' = [srow EXCEPT ![w] = [b |-> task[i].b, pr |-> task[i].pr,
                                          ci |-> task[i].ci, err |-> Failed(i)]]
          /\ UNCHANGED left
       \/ /\ IF Stored(w) THEN Event ELSE UNCHANGED left
          /\ UNCHANGED srow
    /\ Return(i, task[i].pr, task[i].ci)
    /\ UNCHANGED <<world, ws, memory, loop, naming, hist>>

-----------------------------------------------------------------------------
(* The client's commands. None of them takes the lock of the branch. The poller *)
(* is started during setup and its seed is over before a window is loaded.       *)

Call(op, w) ==
    /\ At(Client, "none") /\ Stored(w) /\ loop.pc # "seed"
    /\ Event
    /\ task' = [task EXCEPT ![Client] = [NoTask EXCEPT !.pc = "lookup", !.op = op, !.w = w]]
    /\ UNCHANGED <<world, tables, memory, loop, naming, hist>>

(* create_pull_request and merge_pull_request at the forge.                    *)
Act ==
    LET b == task[Client].b IN
    /\ At(Client, "act")
    /\ \/ /\ task[Client].op = "create" /\ forge[b].pr = NoPr
          /\ forge' = [forge EXCEPT ![b].pr = Opened(b)]
          /\ Goto(Client, "uncache")
          /\ UNCHANGED left
       \/ /\ task[Client].op = "merge" /\ forge[b].pr.st = "open"
          /\ \E stamp \in Stamps : forge' = [forge EXCEPT ![b].pr = MergedPr(@, stamp, Alive)]
          /\ Goto(Client, "uncache")
          /\ UNCHANGED left
       \/ /\ Return(Client, NoPr, None)
          /\ UNCHANGED <<forge, left>>
    /\ UNCHANGED <<head, tree, tables, memory, loop, naming, hist>>

(* The entry is removed, then the row. A refresh goes on as load_scm_detail.    *)
Uncache ==
    /\ At(Client, "uncache")
    /\ Removed(task[Client].b, Workspaces \ {task[Client].w})
    /\ Goto(Client, "unrow")
    /\ UNCHANGED <<world, tables, gate, polled, observed, ci, loop, naming, left>>

(* An error of the deletion is ignored: the row stays without its entry.        *)
Unrow ==
    /\ At(Client, "unrow")
    /\ \/ Deleted(task[Client].w) /\ UNCHANGED hist
       \/ UNCHANGED srow /\ Tear(task[Client].b)
    /\ task' = [task EXCEPT ![Client] =
                IF @.op = "refresh"
                THEN [NoTask EXCEPT !.pc = "lookup", !.op = "load", !.w = task[Client].w]
                ELSE NoTask]
    /\ UNCHANGED <<world, ws, memory, loop, naming, left>>

-----------------------------------------------------------------------------
(* start_scm_polling *)

(* seed_scm_cache_from_db: every row becomes an entry that is already stale. One *)
(* whose pull request or checks do not parse becomes an entry without them.      *)
SeedEntry(r) == [on |-> TRUE, pr |-> r.pr, ci |-> r.ci, err |-> r.err, fresh |-> FALSE]
Parsed(w, bad) ==
    {[srow[w] EXCEPT !.pr = IF w \in bad THEN NoPr ELSE @, !.ci = c] : c \in {srow[w].ci, None}}
RowsOf(b) == {w \in Workspaces : srow[w].b = b}
RowsDiffer(b) == \E v, w \in RowsOf(b) : srow[v].pr = NoPr /\ srow[w].pr # NoPr

SeedRows(c, bad) ==
    \A b \in Branches :
        IF RowsOf(b) = {} THEN c[b] = cache[b]
        ELSE \E w \in RowsOf(b) : \E r \in Parsed(w, bad) : c[b] = SeedEntry(r)

SeedFrom(bad) ==
    /\ \E c \in [Branches -> {cache[b] : b \in Branches}
              \cup UNION {{SeedEntry(r) : r \in Parsed(w, bad)} : w \in Workspaces}] :
          SeedRows(c, bad) /\ cache' = c
    /\ hist' = [hist EXCEPT !.merged = {},
                  !.torn = {b \in Branches : RowsDiffer(b) \/ RowsOf(b) \cap bad # {}}]

(* The table is read, or the database cannot be opened or read at all.          *)
Seed ==
    /\ loop.pc = "seed"
    /\ \/ \E bad \in SUBSET {w \in Workspaces : srow[w].pr # NoPr} : SeedFrom(bad)
       \/ /\ UNCHANGED cache
          /\ hist' = [hist EXCEPT !.merged = {}, !.torn = {b \in Branches : RowsOf(b) # {}}]
    /\ loop' = Idle
    /\ UNCHANGED <<world, tables, gate, polled, observed, ci, task, naming, left>>

(* One tick: the due workspaces are polled concurrently.                       *)
Due == {w \in Workspaces : Active(w) /\ w \notin polled}

Tick ==
    /\ loop.pc = "idle" /\ Due # {}
    /\ loop' = [loop EXCEPT !.pc = "collect"]
    /\ task' = [i \in Tasks |->
                IF i \in Due THEN [NoTask EXCEPT !.pc = "lookup", !.op = "poll", !.w = i]
                ELSE task[i]]
    /\ UNCHANGED <<world, tables, memory, naming, left, hist>>

(* buffer_unordered: all results are there before the first one is handled.    *)
Collected == loop.pc = "collect" /\ \A w \in Workspaces : task[w].pc \in {"none", "done"}

(* Mutants: an observation of another number counts too; only a merge between *)
(* two polls counts.                                                         *)
AnyNumber(w, pr) ==
    /\ pr.st = "merged"
    /\ (pr.stamp /\ w \in pr.since) \/ observed[w].st = "open"
TransitionOnly(w, pr) == pr.st = "merged" /\ observed[w] = [b |-> pr.b, st |-> "open"]
(* auto_archive::evaluate: merged at or after the creation, or seen to merge.   *)
Evaluate(w, pr) ==
    /\ pr.st = "merged"
    /\ (pr.stamp /\ w \in pr.since) \/ observed[w] = [b |-> pr.b, st |-> "open"]

(* CI auto-fix. The session is not created if the lookup or the insert fails;   *)
(* the status is recorded all the same, the time only with a session.           *)
(* Mutant: a failure counts whatever came before it. *)
AnyFailure(w, st) == st = "failure"
IsCiFailureTransition(w, st) == ci[w].st \notin {None, "failure"} /\ st = "failure"

CiFix(w, st) ==
    \E within \in (IF ci[w].triggered THEN BOOLEAN ELSE {FALSE}) :
        \/ /\ IsCiFailureTransition(w, st) /\ ~within
           /\ IF Active(w) THEN Reconcile(w, ws[w].b) ELSE UNCHANGED tables
           /\ \/ /\ Stored(w)
                 /\ ci' = [ci EXCEPT ![w] = [st |-> st, triggered |-> TRUE,
                                             fixes |-> @.fixes + 1]]
                 /\ UNCHANGED left
              \/ /\ IF Stored(w) THEN Event ELSE UNCHANGED left
                 /\ ci' = [ci EXCEPT ![w].st = st]
        \/ /\ ~IsCiFailureTransition(w, st) \/ within
           /\ ci' = [ci EXCEPT ![w].st = st,
                               ![w].fixes = IF st = "good" THEN 0 ELSE @]
           /\ UNCHANGED <<tables, left>>

(* The results are handled one by one, in the order the polls ended: the stamp, *)
(* the observation, the archive, the CI status.                                 *)
Handle(w) ==
    LET pr == task[w].pr IN
    /\ Collected /\ At(w, "done") /\ task[w].some
    /\ task' = [task EXCEPT ![w] = NoTask]
    /\ polled' = polled \cup {w}
    /\ observed' = [observed EXCEPT ![w] = [b |-> pr.b, st |-> pr.st]]
    /\ hist' = IF pr.st = "open" THEN [hist EXCEPT !.sawOpen[w] = @ \cup {pr.b}] ELSE hist
    /\ \/ /\ Evaluate(w, pr)
          /\ loop' = [loop EXCEPT !.w = w, !.ci = task[w].ci, !.why = pr, !.pc = "archRead"]
          /\ UNCHANGED <<tables, ci, left>>
       \/ /\ ~Evaluate(w, pr)
          /\ CiFix(w, task[w].ci)
          /\ UNCHANGED loop
    /\ UNCHANGED <<world, cache, gate, naming>>

HandleNone(w) ==
    /\ Collected /\ At(w, "done") /\ ~task[w].some
    /\ task' = [task EXCEPT ![w] = NoTask]
    /\ UNCHANGED <<world, tables, memory, loop, naming, left, hist>>

Sleep ==
    /\ loop.pc = "collect" /\ \A w \in Workspaces : At(w, "none")
    /\ loop' = Idle
    /\ UNCHANGED <<world, tables, memory, task, naming, left, hist>>

-----------------------------------------------------------------------------
(* auto_archive_workspace. It does not look at the status it finds.            *)
Archiving == {"archRead", "archTree", "archCommit"}

ArchiveRead ==
    LET w == loop.w IN
    /\ loop.pc = "archRead"
    /\ \/ /\ Stored(w)
          /\ \E del \in DeleteBranch :
                loop' = [loop EXCEPT !.b = ws[w].b, !.path = Active(w), !.del = del,
                                     !.pc = "archTree"]
          /\ UNCHANGED left
       \/ /\ IF Stored(w) THEN Event ELSE UNCHANGED left
          /\ loop' = [loop EXCEPT !.pc = "ci"]
    /\ UNCHANGED <<world, tables, memory, task, naming, hist>>

(* The branch that the row named is deleted if the setting is on, which git     *)
(* refuses for one that is checked out in a worktree.                           *)
DeleteHead(b, del, checkedOut) ==
    head' = IF del /\ \A v \in checkedOut : head[v] # b
            THEN [v \in Workspaces |-> IF head[v] = b THEN None ELSE head[v]] ELSE head

(* The worktree is removed unless git finds changes in it. The agents of the     *)
(* workspace are stopped too (ChatSession).                                     *)
ArchiveTree ==
    /\ loop.pc = "archTree"
    /\ loop' = [loop EXCEPT !.pc = "archCommit"]
    /\ \/ loop.path /\ tree' = tree \ {loop.w} /\ UNCHANGED left
       \/ loop.path /\ Event /\ UNCHANGED tree
       \/ ~loop.path /\ UNCHANGED <<tree, left>>
    /\ DeleteHead(loop.b, loop.del, tree')
    /\ UNCHANGED <<forge, tables, memory, task, naming, hist>>

(* Mutant: the status is written whether or not the row is there. *)
ArchivedBlindly(w, del) ==
    /\ Deleted(w)
    /\ ws' = IF del THEN [ws EXCEPT ![w] = [st |-> "deleted", b |-> None]]
             ELSE [ws EXCEPT ![w].st = "archived"]

(* delete_workspace_with_summary, or the status; the row of the cache goes too. *)
Archived(w, del) ==
    /\ Deleted(w)
    /\ ws' = IF ~Stored(w) THEN ws
             ELSE IF del THEN [ws EXCEPT ![w] = [st |-> "deleted", b |-> None]]
             ELSE [ws EXCEPT ![w].st = "archived"]

ArchiveCommit ==
    /\ loop.pc = "archCommit"
    /\ \/ Archived(loop.w, loop.del) /\ UNCHANGED left
       \/ Event /\ UNCHANGED tables
    /\ loop' = [loop EXCEPT !.pc = "ci"]
    /\ UNCHANGED <<world, memory, task, naming, hist>>

-----------------------------------------------------------------------------
(* The rest of the handling of that result. *)
CiAfterArchive ==
    /\ loop.pc = "ci"
    /\ CiFix(loop.w, loop.ci)
    /\ loop' = [Idle EXCEPT !.pc = "collect"]
    /\ UNCHANGED <<world, cache, gate, polled, observed, task, naming, hist>>

-----------------------------------------------------------------------------
(* Users, agents and the forge. *)

Taken(b) == \E w \in Workspaces : head[w] = b

CreateWorkspace(w, b) ==
    /\ ws[w].st = "none" /\ ~Taken(b)
    /\ Event
    /\ ws' = [ws EXCEPT ![w] = [st |-> "active", b |-> b]]
    /\ head' = [head EXCEPT ![w] = b]
    /\ tree' = tree \cup {w}
    /\ UNCHANGED <<forge, srow, memory, task, loop, naming, hist>>

(* git branch -m by an agent. *)
RenameByAgent(w, b) ==
    /\ w \in tree /\ Active(w) /\ ~Taken(b)
    /\ Event
    /\ head' = [head EXCEPT ![w] = b]
    /\ UNCHANGED <<forge, tree, tables, memory, task, loop, naming, hist>>

(* A turn starts try_auto_rename with the branch it found; once Haiku has a      *)
(* name, the table is written, then git renames, or the table is written again.  *)
AutoRenameBegin(w) ==
    /\ naming = NoName /\ w \in tree /\ Active(w)
    /\ Event
    /\ naming' = [w |-> w, b |-> None, old |-> ws[w].b]
    /\ UNCHANGED <<world, tables, memory, task, loop, hist>>

AutoRenameRow(b) ==
    /\ naming # NoName /\ naming.b = None /\ b # naming.old
    /\ naming' = [naming EXCEPT !.b = b]
    /\ ws' = IF Stored(naming.w) THEN [ws EXCEPT ![naming.w].b = b] ELSE ws
    /\ UNCHANGED <<world, srow, memory, task, loop, left, hist>>

AutoRenameGit ==
    LET w == naming.w IN
    /\ naming.b # None
    /\ naming' = NoName
    /\ \/ /\ w \in tree /\ ~Taken(naming.b) /\ head[w] = naming.old
          /\ head' = [head EXCEPT ![w] = naming.b]
          /\ UNCHANGED ws
       \/ /\ ~ (w \in tree /\ ~Taken(naming.b) /\ head[w] = naming.old)
          /\ ws' = IF Stored(w) THEN [ws EXCEPT ![w].b = naming.old] ELSE ws
          /\ UNCHANGED head
    /\ UNCHANGED <<forge, tree, srow, memory, task, loop, left, hist>>

(* reconcile_single_workspace_branch: the row of the cache is left alone.       *)
SyncBranch(w) ==
    /\ Active(w) /\ w \in tree /\ ws[w].b # head[w]
    /\ ws' = [ws EXCEPT ![w].b = head[w]]
    /\ UNCHANGED <<world, srow, memory, task, loop, naming, left, hist>>

(* notify_workspace_selected: the next tick polls the workspace the user looks at. *)
Select(w) ==
    /\ w \in polled
    /\ polled' = polled \ {w}
    /\ UNCHANGED <<world, tables, cache, gate, observed, ci, task, loop, naming, left, hist>>

(* archive_workspace by the user, which keeps a worktree with changes too, and   *)
(* restore_workspace, whose worktree gets the branch that the row names.         *)
ArchiveByUser(w) ==
    /\ Active(w)
    /\ Event
    /\ tree' \in {tree, tree \ {w}}
    /\ \E del \in DeleteBranch : DeleteHead(ws[w].b, del, tree') /\ Archived(w, del)
    /\ UNCHANGED <<forge, memory, task, loop, naming, hist>>

RestoreByUser(w) ==
    /\ ws[w].st = "archived"
    /\ w \notin tree /\ \A v \in tree : head[v] # ws[w].b
    /\ Event
    /\ ws' = [ws EXCEPT ![w].st = "active"]
    /\ tree' = tree \cup {w}
    /\ head' = [head EXCEPT ![w] = ws[w].b]
    /\ UNCHANGED <<forge, srow, memory, task, loop, naming, hist>>

OpenPr(b) ==
    /\ forge[b].pr = NoPr
    /\ Event
    /\ forge' = [forge EXCEPT ![b].pr = Opened(b)]
    /\ UNCHANGED <<head, tree, tables, memory, task, loop, naming, hist>>

MergePr(b, stamp) ==
    /\ forge[b].pr.st = "open"
    /\ Event
    /\ forge' = [forge EXCEPT ![b].pr = MergedPr(@, stamp, Alive)]
    /\ UNCHANGED <<head, tree, tables, memory, task, loop, naming, hist>>

CiChanges(b, st) ==
    /\ forge[b].ci # st
    /\ Event
    /\ forge' = [forge EXCEPT ![b].ci = st]
    /\ UNCHANGED <<head, tree, tables, memory, task, loop, naming, hist>>

(* Time limits run out, where the code looks at them.                           *)
Expire(b) ==
    /\ cache[b].fresh
    /\ loop.pc = "idle" \/ \E i \in Tasks : At(i, "lock") /\ task[i].b = b
    /\ cache' = [cache EXCEPT ![b].fresh = FALSE]
    /\ UNCHANGED <<world, tables, gate, polled, observed, ci, task, loop, naming, left, hist>>

Elapse(w) ==
    /\ w \in polled /\ loop.pc = "idle"
    /\ polled' = polled \ {w}
    /\ UNCHANGED <<world, tables, cache, gate, observed, ci, task, loop, naming, left, hist>>

(* All of them: the loop sleeps, and nobody asks for longer than the limits.     *)
Rest ==
    /\ loop.pc = "idle"
    /\ polled # {} \/ \E b \in Branches : cache[b].fresh
    /\ polled' = {}
    /\ cache' = [b \in Branches |-> [cache[b] EXCEPT !.fresh = FALSE]]
    /\ UNCHANGED <<world, tables, gate, observed, ci, task, loop, naming, left, hist>>

(* The app quits and starts again.                                              *)
Restart ==
    /\ Event
    /\ cache' = [b \in Branches |-> NoEntry]
    /\ gate' = [b \in Branches |-> 1]
    /\ polled' = {}
    /\ observed' = [w \in Workspaces |-> NoObs]
    /\ ci' = [w \in Workspaces |-> [st |-> None, triggered |-> FALSE, fixes |-> 0]]
    /\ task' = [i \in Tasks |-> NoTask]
    /\ loop' = [Idle EXCEPT !.pc = "seed"]
    /\ naming' = NoName
    /\ hist' = [sawOpen |-> [w \in Workspaces |-> {}], merged |-> {}, torn |-> {}]
    /\ UNCHANGED <<world, tables>>

-----------------------------------------------------------------------------
TaskStep(i) ==
    \/ Lookup(i) \/ ResolveSome(i) \/ ResolveNone(i) \/ Evict(i) \/ ResolveFails(i)
    \/ Lock(i) \/ Fetch(i) \/ Store(i) \/ Upsert(i)

CommandStep == Act \/ Uncache \/ Unrow

LoopStep ==
    \/ Seed \/ Tick \/ (\E w \in Workspaces : Handle(w) \/ HandleNone(w)) \/ Sleep
    \/ ArchiveRead \/ ArchiveTree \/ ArchiveCommit \/ CiAfterArchive

User ==
    \/ \E op \in {"load", "refresh", "create", "merge"}, w \in Workspaces : Call(op, w)
    \/ \E w \in Workspaces, b \in Branches :
        CreateWorkspace(w, b) \/ RenameByAgent(w, b)
    \/ \E w \in Workspaces : AutoRenameBegin(w)
    \/ \E b \in Branches : AutoRenameRow(b)
    \/ AutoRenameGit
    \/ \E w \in Workspaces : SyncBranch(w) \/ Select(w) \/ ArchiveByUser(w) \/ RestoreByUser(w)
    \/ \E b \in Branches : OpenPr(b) \/ \E stamp \in Stamps : MergePr(b, stamp)
    \/ \E b \in Branches, st \in Statuses : CiChanges(b, st)
    \/ Restart

Time ==
    \/ \E b \in Branches : Expire(b)
    \/ \E w \in Workspaces : Elapse(w)
    \/ Rest

Next == (\E i \in Tasks : TaskStep(i)) \/ CommandStep \/ LoopStep \/ User \/ Time

Spec == Init /\ [][Next]_vars

Fairness ==
    /\ \A i \in Tasks : WF_vars(TaskStep(i))
    /\ WF_vars(CommandStep) /\ WF_vars(LoopStep) /\ WF_vars(AutoRenameGit)
    /\ SF_vars(Rest)

FairSpec == Spec /\ Fairness

-----------------------------------------------------------------------------
(* Type invariant. *)
Pr == [b: Branches \cup {None}, st: {"none", "open", "merged"}, stamp: BOOLEAN,
       since: SUBSET Workspaces]
Ci == Statuses \cup {None}
TypeOK ==
    /\ forge \in [Branches -> [pr: Pr, ci: Statuses]]
    /\ head \in [Workspaces -> Branches \cup {None}]
    /\ tree \subseteq Workspaces
    /\ ws \in [Workspaces -> [st: {"none", "active", "archived", "deleted"},
                              b: Branches \cup {None}]]
    /\ \A w \in Workspaces : Stored(w) <=> ws[w].b # None
    /\ srow \in [Workspaces -> [b: Branches \cup {None}, pr: Pr, ci: Ci, err: BOOLEAN]]
    /\ cache \in [Branches -> [on: BOOLEAN, pr: Pr, ci: Ci, err: BOOLEAN, fresh: BOOLEAN]]
    /\ gate \in [Branches -> Gates]
    /\ polled \subseteq Workspaces
    /\ observed \in [Workspaces -> [b: Branches \cup {None}, st: {"none", "open", "merged"}]]
    /\ ci \in [Workspaces -> [st: Ci, triggered: BOOLEAN, fixes: 0 .. Events + 1]]
    /\ \A i \in Tasks : task[i].w \in Workspaces \cup {None} /\ task[i].pr \in Pr
    /\ left \in 0 .. Events

(* A workspace is archived only for a pull request that is merged, and either  *)
(* merged after the workspace was created by the provider's time, or was seen   *)
(* open by a poll of this workspace in this run of the app, whatever was        *)
(* cached, renamed or polled in between (auto_archive::evaluate).               *)
ArchiveHasEvidence ==
    loop.pc \in Archiving =>
        /\ forge[loop.why.b].pr.st = "merged"
        /\ \/ loop.why.stamp /\ loop.w \in loop.why.since
           \/ loop.why.b \in hist.sawOpen[loop.w]

(* Once the merge of a pull request is in the cache, no answer that was fetched *)
(* earlier brings it back as open, even after a refresh has emptied the entry:   *)
(* two tasks never ask the forge about one branch at a time, although entries of  *)
(* the lock table are dropped when they are idle (scm_fetch_lock_for_key).        *)
NeverUnmerges == [][\A b \in Branches :
    b \in hist.merged /\ b \in hist'.merged => cache'[b].pr.st # "open"]_vars

(* A stored pull request is overwritten by nothing only by a fetch in which the *)
(* list itself succeeded, also after a restart (merge_scm_results, the seed).    *)
(* Excepted are a command that is about to delete the row, and a branch whose row *)
(* has lost its entry (hist.torn): it was removed under a fetch about to store it, *)
(* or under a row that was another workspace's, came back, or could not be         *)
(* deleted; or the seed could not read the row, or found two that disagree.        *)
OutageKeepsPr == [][\A w \in Workspaces :
    srow[w].pr # NoPr /\ srow'[w].b = srow[w].b /\ srow'[w].pr = NoPr =>
        \/ srow[w].b \in hist.torn
        \/ \E i \in Tasks : At(i, "row") /\ task[i].w = w /\ task[i].prOk
        \/ At(Client, "unrow") /\ task[Client].w = w /\ task[Client].b = srow[w].b]_vars

(* A failure of CI gets one session: no second one before a poll has seen the   *)
(* checks running or passing again (is_ci_failure_transition).                   *)
OneFixPerFailure == \A w \in Workspaces : ci[w].fixes <= 1

(* A workspace on a branch whose pull request merged, with a time the provider  *)
(* reports, after it was created, is archived or leaves the branch.             *)
OwnMerge(w) ==
    /\ Active(w) /\ w \in tree
    /\ LET pr == forge[head[w]].pr IN pr.st = "merged" /\ pr.stamp /\ w \in pr.since
MergedIsArchived == \A w \in Workspaces : OwnMerge(w) ~> ~OwnMerge(w)

(* A merged pull request adopted through a branch name collision authorizes     *)
(* nothing: the one a workspace is archived for did not merge before the         *)
(* workspace was created (auto_archive.rs).                                      *)
CollisionDeclined ==
    loop.pc \in Archiving => loop.w \in loop.why.since
=============================================================================

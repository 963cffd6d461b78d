-------------------------- MODULE ChatSessionProofs --------------------------
(***************************************************************************)
(* Proofs about ChatSession, for any number of calls and any bounds, with or *)
(* without overlapping messages and background tasks.                        *)
(***************************************************************************)
EXTENDS ChatSession, SequenceTheorems, TLAPS

-----------------------------------------------------------------------------
\* The inductive invariant.

\* Every toggle of the MCP rows is paid for.
TogglesPaid == mcp.version + left["toggle"] <= Budget["toggle"]

\* A CLI that works has the prompt it works on.
WorkHasPrompt == \A p \in Turns : proc[p].phase # "idle" => proc[p].queue # <<>>

\* A stream task knows the process it listens to.
Listening == {"prompted", "streaming", "saving", "auth", "authClear"}
StreamHasPid == \A t \in Turns : turn[t].pc \in Listening => turn[t].pid # None

\* The id a call is about to start a process on is one it resumes, or its own.
Starting == {"respawn", "minted", "spawning"}
SpawnIds ==
    \A t \in Turns : turn[t].pc \in Starting =>
        /\ turn[t].sid # None
        /\ ~turn[t].resume => turn[t].sid = <<t, "spawn">>

OwnIds(p) == {<<p, "spawn">>, <<p, "retry">>}

\* A process was started on an id it resumes, or on one drawn for it.
ProcIds ==
    \A p \in Turns : proc[p].st # "none" =>
        /\ proc[p].sid # None
        /\ ~proc[p].resume => proc[p].sid \in OwnIds(p)

\* No conversation exists under the ids of a process that was never started.
UnstartedUnused ==
    \A p \in Turns : proc[p].st = "none" => OwnIds(p) \cap transcripts = {}

\* A call that keeps the guard has an entry to work on: nobody removes it meanwhile.
HoldsEntry == lock # None => ses.on

\* The groups of the invariant: the entry, the calls, the guard, the processes,
\* and what is kept outside them.
SesOK ==
    /\ ses \in Session
    /\ ~ses.on => ses = NoSession
    /\ ActiveIsPersistent
    /\ HoldsEntry

TurnOK == turn \in [Turns -> TurnState] /\ StreamHasPid /\ SpawnIds

LockOK == lock \in Pids /\ \A t \in Turns : turn[t].pc \in Holding <=> lock = t

ProcOK ==
    /\ proc \in [Turns -> Process]
    /\ transcripts \subseteq Sids
    /\ WorkHasPrompt
    /\ ProcIds
    /\ UnstartedUnused

RestOK ==
    /\ db \in [sid: SidOrNone, turns: Counts]
    /\ mcp \in [version: Versions, marked: Versions, missed: SUBSET Turns]
    /\ replies \subseteq [to: Turns, ask: Turns]
    /\ kills \subseteq Turns
    /\ reset \in {"idle", "removed"}
    /\ stopped \in SidOrNone
    /\ left \in [Rare -> Nat]
    /\ TogglesPaid

Inv == SesOK /\ TurnOK /\ LockOK /\ ProcOK /\ RestOK

-----------------------------------------------------------------------------
\* What the helpers preserve.

\* Session ids and the absent id are different values.
LEMMA SidFacts ==
    /\ None \notin Turns
    /\ None \notin Sids
    /\ \A t \in Turns : \A k \in SidKinds : <<t, k>> \in Sids
BY NoneAssumption DEF Sids

\* The invariant's parts only depend on their own variables.
LEMMA Frames ==
    /\ SesOK /\ UNCHANGED ses /\ lock' \in {lock, None} => SesOK'
    /\ TurnOK /\ UNCHANGED turn => TurnOK'
    /\ LockOK /\ UNCHANGED <<lock, turn>> => LockOK'
    /\ ProcOK /\ UNCHANGED <<proc, transcripts>> => ProcOK'
    /\ RestOK /\ UNCHANGED <<db, mcp, replies, kills, reset, stopped, left>> => RestOK'
<1>1. SesOK /\ UNCHANGED ses /\ lock' \in {lock, None} => SesOK'
  BY DEF SesOK, ActiveIsPersistent, HoldsEntry
<1>2. TurnOK /\ UNCHANGED turn => TurnOK'
  BY Zenon DEF TurnOK, StreamHasPid, SpawnIds
<1>3. LockOK /\ UNCHANGED <<lock, turn>> => LockOK'
  BY Zenon DEF LockOK
<1>4. ProcOK /\ UNCHANGED <<proc, transcripts>> => ProcOK'
  BY Zenon DEF ProcOK, WorkHasPrompt, ProcIds, UnstartedUnused
<1>5. RestOK /\ UNCHANGED <<db, mcp, replies, kills, reset, stopped, left>> => RestOK'
  BY Zenon DEF RestOK, TogglesPaid
<1>6. QED
  BY <1>1, <1>2, <1>3, <1>4, <1>5

\* The guard follows the step of the one call that moves from step pc.
GuardFollows(t, pc) ==
    \/ /\ lock = t \/ lock = None
       /\ lock' = IF pc \in Holding THEN t ELSE None
    \/ /\ lock' = lock
       /\ turn[t].pc \in Holding <=> pc \in Holding

\* One call moves: its new locals have to be well formed.
LEMMA MoveOK ==
    ASSUME TurnOK, LockOK, NEW t \in Turns, NEW r \in TurnState,
           turn' = [turn EXCEPT ![t] = r],
           r.pc \in Listening => r.pid # None,
           r.pc \in Starting => r.sid # None /\ (~r.resume => r.sid = <<t, "spawn">>),
           GuardFollows(t, r.pc)
    PROVE  TurnOK' /\ LockOK'
<1>1. turn \in [Turns -> TurnState]
  BY DEF TurnOK
<1>2. turn' \in [Turns -> TurnState]
  BY <1>1
<1>3. turn'[t] = r /\ \A u \in Turns : u # t => turn'[u] = turn[u]
  BY <1>1
<1>4. StreamHasPid' /\ SpawnIds'
  BY <1>3 DEF TurnOK, StreamHasPid, SpawnIds
<1>5. LockOK'
  BY <1>3, SidFacts DEF LockOK, Pids, GuardFollows
<1>6. QED
  BY <1>2, <1>4, <1>5 DEF TurnOK

\* A call that moves on with the same locals may only enter a listening or a
\* starting step from one.
LEMMA GotoOK ==
    ASSUME TurnOK, LockOK, NEW t \in Turns, NEW pc \in Steps, Goto(t, pc),
           pc \in Starting => turn[t].pc \in Starting,
           pc \in Listening => turn[t].pc \in Listening,
           GuardFollows(t, pc)
    PROVE  TurnOK' /\ LockOK'
<1> DEFINE r == [turn[t] EXCEPT !.pc = pc]
<1>1. turn \in [Turns -> TurnState]
  BY DEF TurnOK
<1>2. turn' = [turn EXCEPT ![t] = r]
  BY <1>1 DEF Goto
<1>3. r \in TurnState
  BY <1>1 DEF TurnState
<1>4. r.pc = pc /\ r.pid = turn[t].pid /\ r.sid = turn[t].sid /\ r.resume = turn[t].resume
  BY <1>1 DEF TurnState
<1>5. /\ turn[t].pc \in Listening => turn[t].pid # None
      /\ turn[t].pc \in Starting =>
            turn[t].sid # None /\ (~turn[t].resume => turn[t].sid = <<t, "spawn">>)
  BY DEF TurnOK, StreamHasPid, SpawnIds
<1> HIDE DEF r
<1>6. QED
  BY <1>2, <1>3, <1>4, <1>5, MoveOK

\* The locals of a call that has not started, or has dropped them, are well formed.
LEMMA NewTurnType == NewTurn \in TurnState
BY BudgetAssumption
   DEF NewTurn, TurnState, Steps, Versions, SidOrNone, Pids, Counts, Rare

\* The call that ends leaves no trace in the other calls or in the guard.
LEMMA OverOK ==
    ASSUME TurnOK, LockOK, NEW t \in Turns, NEW pc \in {"done", "failed"},
           turn' = [turn EXCEPT ![t] = Over(pc)],
           GuardFollows(t, pc)
    PROVE  TurnOK' /\ LockOK'
<1>1. pc \in Steps /\ pc \notin Listening \cup Starting
  BY DEF Steps, Listening, Starting
<1>2. Over(pc) \in TurnState /\ Over(pc).pc = pc
  BY <1>1, NewTurnType DEF Over, TurnState, NewTurn
<1>3. QED
  BY <1>1, <1>2, MoveOK

\* A kill changes no process but into a killed one.
LEMMA KillOK ==
    ASSUME ProcOK, NEW S, proc' = Kill(proc, S), transcripts' = transcripts
    PROVE  ProcOK'
<1>1. proc \in [Turns -> Process]
  BY DEF ProcOK
<1>2. proc' \in [Turns -> Process]
  BY <1>1 DEF Kill, Process
<1>3. \A p \in Turns : /\ proc'[p].sid = proc[p].sid
                       /\ proc'[p].resume = proc[p].resume
                       /\ proc'[p].phase = proc[p].phase
                       /\ proc'[p].queue = proc[p].queue
                       /\ proc'[p].st = "none" <=> proc[p].st = "none"
  BY <1>1 DEF Kill, Process
<1>4. QED
  BY <1>2, <1>3 DEF ProcOK, WorkHasPrompt, ProcIds, UnstartedUnused

\* An event reaches the inboxes and changes nothing else a call knows.
LEMMA BroadcastOK ==
    ASSUME TurnOK, NEW p \in Turns, NEW e \in Events, turn' = Broadcast(p, e)
    PROVE  /\ TurnOK'
           /\ \A t \in Turns : turn'[t].pc = turn[t].pc
<1>1. turn \in [Turns -> TurnState]
  BY DEF TurnOK
<1>2. \A t \in Turns : Append(turn[t].inbox, e) \in Seq(Events)
  BY <1>1 DEF TurnState
<1>3. turn' \in [Turns -> TurnState]
  <2> DEFINE got(t) == [turn[t] EXCEPT !.inbox = Append(@, e),
                                       !.sub = IF e.kind \in Ends THEN None ELSE @]
  <2>1. \A t \in Turns : got(t) \in TurnState
    BY <1>1, <1>2 DEF TurnState, Pids
  <2>2. turn' = [t \in Turns |-> IF turn[t].sub # p THEN turn[t] ELSE got(t)]
    BY DEF Broadcast
  <2> HIDE DEF got
  <2>3. QED
    BY <1>1, <2>1, <2>2
<1>4. \A t \in Turns : /\ turn'[t].pc = turn[t].pc
                       /\ turn'[t].pid = turn[t].pid
                       /\ turn'[t].sid = turn[t].sid
                       /\ turn'[t].resume = turn[t].resume
  BY <1>1 DEF Broadcast, TurnState
<1>5. QED
  BY <1>3, <1>4 DEF TurnOK, StreamHasPid, SpawnIds

\* A rare event only makes the budget smaller.
LEMMA SpendOK ==
    ASSUME RestOK, NEW k \in Rare, Spend(k)
    PROVE  left' \in [Rare -> Nat] /\ left'["toggle"] <= left["toggle"]
BY DEF RestOK, Spend, Rare

\* A step that toggles nothing keeps every toggle paid for.
LEMMA PaidOK ==
    ASSUME RestOK, left' \in [Rare -> Nat], left'["toggle"] <= left["toggle"],
           mcp'.version = mcp.version
    PROVE  TogglesPaid'
<1>1. /\ mcp.version \in Nat /\ left["toggle"] \in Nat /\ left'["toggle"] \in Nat
      /\ Budget["toggle"] \in Nat
  BY BudgetAssumption DEF RestOK, Versions, Rare
<1>2. mcp.version + left["toggle"] <= Budget["toggle"]
  BY DEF RestOK, TogglesPaid
<1>3. mcp.version + left'["toggle"] <= Budget["toggle"]
  BY <1>1, <1>2
<1>4. QED
  BY <1>3 DEF TogglesPaid

\* A rare event that changes nothing but the budget and the calls.
LEMMA SpendRest ==
    ASSUME RestOK, NEW k \in Rare, Spend(k),
           UNCHANGED <<db, mcp, replies, kills, reset, stopped>>
    PROVE  RestOK'
<1>1. left' \in [Rare -> Nat] /\ TogglesPaid'
  BY SpendOK, PaidOK
<1>2. QED
  BY <1>1 DEF RestOK

\* A teardown, a stop and a drain leave a well-formed entry.
LEMMA SesUpdates ==
    ASSUME NEW s \in Session, s.on
    PROVE  /\ Torn(s) \in Session /\ Torn(s).on /\ Torn(s).active = None
           /\ Drained(s) \in Session /\ Drained(s).on
           /\ Drained(s).ps = s.ps /\ Drained(s).active = s.active
           /\ Counted(s) \in Session /\ Counted(s).on
           /\ Counted(s).ps = s.ps /\ Counted(s).active = s.active
           /\ Exited(s) \in Session /\ Exited(s).on /\ Exited(s).active = None
<1>1. Torn(s) \in Session /\ Torn(s).on /\ Torn(s).active = None
  BY DEF Torn, Session, Pids
<1>2. /\ Drained(s) \in Session /\ Drained(s).on
      /\ Drained(s).ps = s.ps /\ Drained(s).active = s.active
  BY DEF Drained, Session
<1>3. /\ Counted(s) \in Session /\ Counted(s).on
      /\ Counted(s).ps = s.ps /\ Counted(s).active = s.active
  BY DEF Counted, Session, Counts
<1>4. Exited(s) \in Session /\ Exited(s).on /\ Exited(s).active = None
  BY DEF Exited, Session, Pids
<1>5. QED
  BY <1>1, <1>2, <1>3, <1>4

\* No entry is a well-formed value with nothing in it.
LEMMA NoSessionOK == NoSession \in Session /\ ~NoSession.on /\ NoSession.active = None
BY DEF NoSession, Session, SidOrNone, Pids, Counts

\* Denials go to the process of the entry.
LEMMA DenialsType ==
    ASSUME NEW s \in Session
    PROVE  Denials(s) \subseteq [to: Turns, ask: Turns]
BY DEF Denials, Session, Pids

-----------------------------------------------------------------------------
\* send_chat_message up to the choice between reuse and spawn.

\* or_insert_with leaves a well-formed entry, restored or new.
LEMMA EntryOK ==
    ASSUME SesOK, RestOK, NEW t \in Turns
    PROVE  /\ Entry(t) \in Session /\ Entry(t).on
           /\ Entry(t).active # None => Entry(t).ps = Entry(t).active
<1>1. CASE ses.on
  BY <1>1 DEF Entry, SesOK, ActiveIsPersistent
<1>2. CASE ~ses.on /\ db.sid # None
  BY <1>2, NoSessionOK DEF Entry, RestOK, Session, NoSession
<1>3. CASE ~ses.on /\ db.sid = None
  <2>1. <<t, "entry">> \in SidOrNone
    BY SidFacts DEF SidKinds, SidOrNone
  <2>2. QED
    BY <1>3, <2>1, NoSessionOK DEF Entry, Session, NoSession
<1>4. QED
  BY <1>1, <1>2, <1>3

\* The row and the MCP rows are read before the guard is taken.
LEMMA ReadSteps ==
    ASSUME Inv, NEW t \in Turns, SendRead(t) \/ SendConfig(t)
    PROVE  Inv'
<1>1. CASE SendRead(t)
  <2> DEFINE read(b) == [turn[t] EXCEPT !.pc = "read", !.persisted = b,
                                        !.due = mcp.marked]
             r == read(db.sid # None)
  <2>1. turn \in [Turns -> TurnState] /\ mcp.marked \in Versions
    BY DEF Inv, TurnOK, RestOK
  <2>2. turn' = [turn EXCEPT ![t] = r]
    BY <1>1, <2>1 DEF SendRead
  <2>3. r \in TurnState /\ r.pc = "read"
    <3>1. "read" \in Steps
      BY DEF Steps
    <3>2. turn[t] \in TurnState
      BY <2>1
    <3>3. \A b \in BOOLEAN : read(b) \in TurnState /\ read(b).pc = "read"
      BY <2>1, <3>1, <3>2 DEF TurnState
    <3>4. (db.sid # None) \in BOOLEAN
      OBVIOUS
    <3> HIDE DEF read
    <3>5. QED
      BY <3>3, <3>4
  <2>4. GuardFollows(t, "read")
    BY <1>1 DEF SendRead, At, GuardFollows, Holding
  <2> HIDE DEF r, read
  <2>5. TurnOK' /\ LockOK'
    BY <2>2, <2>3, <2>4, MoveOK DEF Inv, Listening, Starting
  <2>6. RestOK'
    BY <1>1 DEF Inv, RestOK, TogglesPaid, SendRead, SidOrNone
  <2>7. QED
    BY <1>1, <2>5, <2>6, Frames DEF Inv, SendRead
<1>2. CASE SendConfig(t)
  <2> DEFINE r == [turn[t] EXCEPT !.pc = "configured", !.cfg = mcp.version]
  <2>1. turn \in [Turns -> TurnState] /\ mcp.version \in Versions
    BY DEF Inv, TurnOK, RestOK
  <2>2. turn' = [turn EXCEPT ![t] = r]
    BY <1>2, <2>1 DEF SendConfig
  <2>3. r \in TurnState /\ r.pc = "configured"
    BY <2>1 DEF TurnState, Steps
  <2>4. GuardFollows(t, "configured")
    BY <1>2 DEF SendConfig, At, GuardFollows, Holding
  <2> HIDE DEF r
  <2>5. TurnOK' /\ LockOK'
    BY <2>2, <2>3, <2>4, MoveOK DEF Inv, Listening, Starting
  <2>6. QED
    BY <1>2, <2>5, Frames DEF Inv, SendConfig
<1>3. QED
  BY <1>1, <1>2

\* An entry that is there, with its pid and its process in agreement.
LEMMA SesSet ==
    ASSUME ses' \in Session, ses'.on, ses'.active # None => ses'.ps = ses'.active
    PROVE  SesOK'
BY DEF SesOK, ActiveIsPersistent, HoldsEntry

\* The first critical section: the entry is there afterwards, its pid that of its
\* process, and the guard kept or given up.
LEMMA EnterStep ==
    ASSUME Inv, NEW t \in Turns, SendEnter(t)
    PROVE  Inv'
<1> DEFINE s == Entry(t)
           stale == IF s.ps = None /\ s.active # None THEN {s.active} ELSE {}
           release == Denials(s) # {} \/ stale # {}
           pc == IF stale # {} THEN "stale"
                 ELSE IF release THEN "drained" ELSE "entered"
<1>1. s \in Session /\ s.on /\ (s.active # None => s.ps = s.active)
  BY EntryOK DEF Inv
<1>2. SesOK'
  <2>1. Drained(s) \in Session /\ Drained(s).on /\ Drained(s).ps = s.ps
        /\ Drained(s).active = s.active
    BY <1>1, SesUpdates
  <2>2. ses' = [Drained(s) EXCEPT !.active = IF s.ps = None THEN None ELSE @]
    BY DEF SendEnter
  <2> HIDE DEF s
  <2>3. QED
    BY <1>1, <2>1, <2>2, SesSet DEF Session, Pids
<1>3. TurnOK' /\ LockOK'
  <2>1. Goto(t, pc) /\ lock = None /\ turn[t].pc = "configured"
        /\ lock' = IF release THEN None ELSE t
    BY DEF SendEnter, Acquirable, At
  <2>5. stale # {} => release
    OBVIOUS
  <2> HIDE DEF release, stale
  <2>2. GuardFollows(t, pc)
    BY <2>1, <2>5 DEF GuardFollows, Holding
  <2>3. pc \in Steps /\ pc \notin Listening \cup Starting
    BY DEF Steps, Holding, Released, Listening, Starting
  <2> HIDE DEF pc
  <2>4. QED
    BY <2>1, <2>2, <2>3, GotoOK DEF Inv
<1>4. ProcOK'
  BY KillOK DEF Inv, SendEnter
<1>5. RestOK'
  <2>1. Denials(s) \subseteq [to: Turns, ask: Turns]
    BY <1>1, DenialsType
  <2>2. replies' = replies \cup Denials(s)
    BY DEF SendEnter
  <2> HIDE DEF s
  <2>3. QED
    BY <2>1, <2>2 DEF Inv, RestOK, TogglesPaid, SendEnter
<1>6. QED
  BY <1>2, <1>3, <1>4, <1>5 DEF Inv

\* The guard is taken again, on the entry that is there or not at all.
LEMMA RelockStep ==
    ASSUME Inv, NEW t \in Turns, SendRelock(t)
    PROVE  Inv'
<1>1. lock = None /\ turn[t].pc \in Released
  BY DEF SendRelock, Acquirable
<1>2. CASE ses.on
  <2> DEFINE pc == Resumes[turn[t].pc]
  <2>1. pc \in Holding
    BY <1>1 DEF Resumes, Released, Holding
  <2>2. Goto(t, pc) /\ lock' = t
    BY <1>2 DEF SendRelock
  <2> HIDE DEF pc
  <2>3. GuardFollows(t, pc)
    BY <1>1, <2>1, <2>2 DEF GuardFollows
  <2>4. pc \in Steps /\ pc \notin Listening \cup Starting
    BY <2>1 DEF Steps, Holding, Listening, Starting
  <2>5. TurnOK' /\ LockOK'
    BY <2>2, <2>3, <2>4, GotoOK DEF Inv
  <2>6. SesOK'
    <3>1. ses \in Session /\ (ses.active # None => ses.ps = ses.active)
      BY DEF Inv, SesOK, ActiveIsPersistent
    <3>2. ses' = ses \/ ses' = [ses EXCEPT !.active = None]
      BY DEF SendRelock
    <3>3. QED
      BY <1>2, <3>1, <3>2, SesSet DEF Session, Pids
  <2>7. QED
    BY <2>5, <2>6, Frames DEF Inv, SendRelock
<1>3. CASE ~ses.on
  <2>1. turn' = [turn EXCEPT ![t] = Over("failed")] /\ lock' = None
    BY <1>3 DEF SendRelock, Failed
  <2>2. GuardFollows(t, "failed")
    BY <1>1, <2>1 DEF GuardFollows, Holding
  <2>3. TurnOK' /\ LockOK'
    BY <2>1, <2>2, OverOK DEF Inv
  <2>4. UNCHANGED ses
    BY <1>3 DEF SendRelock
  <2>5. QED
    BY <2>1, <2>3, <2>4, Frames DEF Inv, SendRelock
<1>4. QED
  BY <1>2, <1>3

\* A changed MCP configuration tears the process down or is deferred.
LEMMA DirtyStep ==
    ASSUME Inv, NEW t \in Turns, SendDirty(t)
    PROVE  Inv'
<1> DEFINE tear == ses.dirty /\ ~ShouldDefer(ses)
           release == tear /\ ses.ps # None
           pc == IF release THEN "torn" ELSE "clean"
           late == ses.dirty /\ ~tear
<1>1. lock = t /\ turn[t].pc = "entered" /\ ses \in Session /\ ses.on
  BY SidFacts DEF SendDirty, At, Inv, LockOK, SesOK, HoldsEntry, Holding
<1>2. SesOK'
  <2>1. Torn(ses) \in Session /\ Torn(ses).on /\ Torn(ses).active = None
    BY <1>1, SesUpdates
  <2>2. ses' = IF tear THEN [Torn(ses) EXCEPT !.dirty = FALSE] ELSE ses
    BY DEF SendDirty
  <2>3. ses.active # None => ses.ps = ses.active
    BY DEF Inv, SesOK, ActiveIsPersistent
  <2> HIDE DEF tear
  <2>4. CASE tear
    BY <2>1, <2>2, <2>4, SesSet DEF Session
  <2>5. CASE ~tear
    BY <1>1, <2>2, <2>3, <2>5, SesSet
  <2>6. QED
    BY <2>4, <2>5
<1>3. TurnOK' /\ LockOK'
  <2> DEFINE moved(b) == [turn[t] EXCEPT !.pc = pc, !.deferred = b]
             r == moved(late)
  <2>1. turn \in [Turns -> TurnState]
    BY DEF Inv, TurnOK
  <2>2. lock' = IF release THEN None ELSE t
    BY DEF SendDirty
  <2>3. turn' = [turn EXCEPT ![t].pc = pc, ![t].deferred = late]
    BY DEF SendDirty
  <2>4. late \in BOOLEAN
    BY <1>1 DEF Session
  <2> HIDE DEF release, late
  <2>5. turn' = [turn EXCEPT ![t] = r]
    BY <2>1, <2>3
  <2>6. pc \in Steps /\ pc \notin Listening \cup Starting /\ GuardFollows(t, pc)
    BY <1>1, <2>2 DEF GuardFollows, Steps, Holding, Released, Listening, Starting
  <2> HIDE DEF pc
  <2>7. \A b \in BOOLEAN : moved(b) \in TurnState /\ moved(b).pc = pc
    BY <2>1, <2>6 DEF TurnState
  <2> HIDE DEF moved
  <2>8. r \in TurnState /\ r.pc = pc
    BY <2>4, <2>7
  <2> HIDE DEF r
  <2>9. QED
    BY <2>5, <2>6, <2>8, MoveOK DEF Inv
<1>4. ProcOK'
  <2>1. \/ proc' = Kill(proc, {ses.ps})
        \/ proc' = proc
    BY DEF SendDirty
  <2>2. QED
    BY <2>1, KillOK, Frames DEF Inv, SendDirty
<1>5. RestOK'
  <2>1. Denials(ses) \subseteq [to: Turns, ask: Turns]
    BY <1>1, DenialsType
  <2>2. replies' = replies \cup Denials(ses) \/ replies' = replies
    BY DEF SendDirty
  <2>3. QED
    BY <2>1, <2>2 DEF Inv, RestOK, TogglesPaid, SendDirty
<1>6. QED
  BY <1>2, <1>3, <1>4, <1>5 DEF Inv

\* A drifted process is torn down, or the entry kept: the two comparisons of a send.
LEMMA DriftStep ==
    ASSUME Inv, NEW t \in Turns, lock = t, NEW s \in Session, s.on,
           s.active # None => s.ps = s.active,
           NEW released \in Released, NEW kept \in Holding, Drift(t, s, released, kept),
           UNCHANGED <<db, mcp, kills, transcripts, reset, stopped, left>>
    PROVE  Inv'
<1>1. /\ released \in Steps /\ released \notin Listening \cup Starting
      /\ kept \in Steps /\ kept \notin Listening \cup Starting
      /\ released \notin Holding
  BY DEF Steps, Holding, Released, Listening, Starting
<1>2. CASE /\ ses' = Torn(s)
           /\ replies' = replies \cup Denials(s)
           /\ proc' = Kill(proc, {s.ps})
           /\ lock' = None
           /\ Goto(t, released)
  <2>1. SesOK'
    BY <1>2, SesUpdates, SesSet
  <2>2. GuardFollows(t, released)
    BY <1>1, <1>2 DEF GuardFollows
  <2>3. TurnOK' /\ LockOK'
    BY <1>1, <1>2, <2>2, GotoOK DEF Inv
  <2>4. ProcOK'
    BY <1>2, KillOK DEF Inv
  <2>5. RestOK'
    BY <1>2, DenialsType DEF Inv, RestOK, TogglesPaid
  <2>6. QED
    BY <2>1, <2>3, <2>4, <2>5 DEF Inv
<1>3. CASE ses' = s /\ Goto(t, kept) /\ UNCHANGED <<replies, proc, lock>>
  <2>1. SesOK'
    BY <1>3, SesSet
  <2>2. GuardFollows(t, kept)
    BY <1>1, <1>3 DEF GuardFollows
  <2>3. TurnOK' /\ LockOK'
    BY <1>1, <1>3, <2>2, GotoOK DEF Inv
  <2>4. QED
    BY <1>3, <2>1, <2>3, Frames DEF Inv
<1>4. QED
  BY <1>2, <1>3 DEF Drift

\* The turn is counted and its flags compared, then its environment.
LEMMA CountStep ==
    ASSUME Inv, NEW t \in Turns, SendCount(t) \/ SendEnv(t)
    PROVE  Inv'
<1>1. lock = t /\ ses \in Session /\ ses.on /\ (ses.active # None => ses.ps = ses.active)
  BY SidFacts DEF SendCount, SendEnv, At, Inv, LockOK, SesOK, ActiveIsPersistent,
     HoldsEntry, Holding
<1>2. /\ Counted(ses) \in Session /\ Counted(ses).on
      /\ Counted(ses).ps = ses.ps /\ Counted(ses).active = ses.active
  BY <1>1, SesUpdates
<1>3. UNCHANGED <<db, mcp, kills, transcripts, reset, stopped, left>>
  BY DEF SendCount, SendEnv
<1>4. "flagDrift" \in Released /\ "counted" \in Holding
      /\ "envDrift" \in Released /\ "ready" \in Holding
  BY DEF Released, Holding
<1>5. CASE SendCount(t)
  <2>1. Drift(t, Counted(ses), "flagDrift", "counted")
    BY <1>5 DEF SendCount
  <2>2. QED
    BY <1>1, <1>2, <1>3, <1>4, <2>1, DriftStep
<1>6. CASE SendEnv(t)
  <2>1. Drift(t, ses, "envDrift", "ready")
    BY <1>6 DEF SendEnv
  <2>2. QED
    BY <1>1, <1>3, <1>4, <2>1, DriftStep
<1>7. QED
  BY <1>5, <1>6

\* An early return gives the guard up.
LEMMA ErrorStep ==
    ASSUME Inv, NEW t \in Turns, SendError(t)
    PROVE  Inv'
<1>1. turn[t].pc \in {"read", "configured"} => turn[t].pc \notin Holding
  BY DEF Holding
<1>2. turn[t].pc = "counted" => lock = t
  BY DEF Inv, LockOK, Holding
<1>3. GuardFollows(t, "failed")
  BY <1>1, <1>2 DEF SendError, At, GuardFollows, Holding
<1>4. TurnOK' /\ LockOK'
  BY <1>3, OverOK DEF Inv, SendError, Failed
<1>5. RestOK'
  BY SpendRest DEF Inv, SendError, Rare
<1>6. lock' \in {lock, None}
  BY DEF SendError
<1>7. QED
  BY <1>4, <1>5, <1>6, Frames DEF Inv, SendError

-----------------------------------------------------------------------------
\* send_chat_message: the process for the turn.

\* A prompt is queued at a process that was started.
LEMMA PromptedOK ==
    ASSUME ProcOK, NEW t \in Turns, NEW p \in Turns,
           proc' = Prompted(t, p), transcripts' = transcripts
    PROVE  ProcOK'
<1>1. proc \in [Turns -> Process] /\ Append(proc[p].queue, t) \in Seq(Turns)
  BY DEF ProcOK, Process
<1>2. proc' \in [Turns -> Process]
  BY <1>1 DEF Prompted, Process
<1>3. Append(proc[p].queue, t) # <<>>
  <2>1. proc[p].queue \in Seq(Turns)
    BY <1>1 DEF Process
  <2>2. QED
    BY <2>1, AppendProperties
<1>4. \A q \in Turns : /\ proc'[q].sid = proc[q].sid
                       /\ proc'[q].resume = proc[q].resume
                       /\ proc'[q].phase = proc[q].phase
                       /\ proc'[q].st = proc[q].st
                       /\ proc'[q].queue = proc[q].queue \/ proc'[q].queue # <<>>
  BY <1>1, <1>3 DEF Prompted, Process
<1>5. QED
  BY <1>2, <1>4 DEF ProcOK, WorkHasPrompt, ProcIds, UnstartedUnused

\* A process that was never started is a well-formed value.
LEMMA NoProcessType == NoProcess \in Process
BY BudgetAssumption DEF NoProcess, Process, SidOrNone, Versions, Rare

\* A process starts on an id it resumes, or on one drawn for it.
LEMMA LaunchedOK ==
    ASSUME ProcOK, TurnOK, NEW t \in Turns, NEW sid \in Sids, NEW resume \in BOOLEAN,
           ~resume => sid \in OwnIds(t),
           proc' = Launched(t, sid, resume), transcripts' = transcripts
    PROVE  ProcOK'
<1> DEFINE r == [NoProcess EXCEPT !.st = "live", !.sid = sid, !.resume = resume,
                                  !.cfg = turn[t].cfg]
<1>1. proc \in [Turns -> Process] /\ turn[t].cfg \in Versions
  BY DEF ProcOK, TurnOK, TurnState
<1>2. r \in Process
  BY <1>1, NoProcessType DEF Process, SidOrNone
<1>3. r.st = "live" /\ r.sid = sid /\ r.resume = resume /\ r.phase = "idle"
  BY DEF NoProcess
<1>4. proc' = [proc EXCEPT ![t] = r]
  BY DEF Launched
<1> HIDE DEF r
<1>5. proc' \in [Turns -> Process] /\ \A q \in Turns : proc'[q] = IF q = t THEN r ELSE proc[q]
  BY <1>1, <1>2, <1>4
<1>6. QED
  BY <1>3, <1>5, SidFacts DEF ProcOK, WorkHasPrompt, ProcIds, UnstartedUnused

\* The prompt goes to the process the entry holds.
LEMMA ReuseStep ==
    ASSUME Inv, NEW t \in Turns, SendReuse(t)
    PROVE  Inv'
<1> DEFINE p == ses.ps
           r == [turn[t] EXCEPT !.pid = p, !.sub = p, !.pc = "streaming"]
<1>1. /\ lock = t /\ turn[t].pc = "ready" /\ ses \in Session /\ ses.on /\ p \in Turns
      /\ turn \in [Turns -> TurnState]
  BY SidFacts DEF SendReuse, At, Inv, LockOK, SesOK, TurnOK, HoldsEntry, Holding,
                  Session, Pids
<1>2. SesOK'
  BY <1>1, SesSet DEF SendReuse, Session, Pids
<1>3. TurnOK' /\ LockOK'
  <2>1. turn' = [turn EXCEPT ![t] = r]
    BY <1>1 DEF SendReuse, Subscribed
  <2>2. r \in TurnState /\ r.pc = "streaming" /\ r.pid # None
    <3>1. "streaming" \in Steps /\ p \in Pids /\ p # None
      BY <1>1, SidFacts DEF Steps, Pids
    <3> HIDE DEF p
    <3>2. QED
      BY <1>1, <3>1 DEF TurnState
  <2>3. GuardFollows(t, "streaming")
    BY <1>1 DEF SendReuse, GuardFollows, Holding
  <2> HIDE DEF r
  <2>4. QED
    BY <2>1, <2>2, <2>3, MoveOK DEF Inv, Starting
<1>4. ProcOK'
  BY <1>1, PromptedOK DEF Inv, SendReuse
<1>5. RestOK'
  BY <1>1 DEF Inv, RestOK, TogglesPaid, SendReuse, Saved, Session
<1>6. QED
  BY <1>2, <1>3, <1>4, <1>5 DEF Inv

\* The id and the flag a launch is given.
LEMMA LaunchingOK ==
    ASSUME Inv, NEW t \in Turns, NEW pc \in {"respawn", "spawning"},
           turn' = Launching(t, pc), GuardFollows(t, pc)
    PROVE  /\ TurnOK' /\ LockOK'
           /\ turn'[t].sid \in Sids
<1> DEFINE res == ShouldResume(t, ses)
           sid == ResolveSpawnSid(t, ses.sid, res)
           launch(b) == [turn[t] EXCEPT !.pc = pc, !.resume = b, !.sid = sid]
           r == launch(res)
<1>1. ses \in Session /\ turn \in [Turns -> TurnState]
  BY DEF Inv, SesOK, TurnOK
<1>2. res => ses.sid # None
  BY DEF ShouldResume
<1>3. <<t, "spawn">> \in Sids
  BY SidFacts DEF SidKinds
<1>4. sid \in Sids /\ (~res => sid = <<t, "spawn">>)
  <2>1. ses.sid \in SidOrNone
    BY <1>1 DEF Session
  <2> HIDE DEF res
  <2>2. QED
    BY <1>2, <1>3, <2>1 DEF ResolveSpawnSid, SidOrNone
<1>5. turn' = [turn EXCEPT ![t].pc = pc, ![t].resume = res, ![t].sid = sid]
  BY DEF Launching
<1>6. res \in BOOLEAN
  BY DEF ShouldResume
<1> HIDE DEF res, sid
<1>7. turn' = [turn EXCEPT ![t] = r]
  BY <1>1, <1>5
<1>8. pc \in Steps /\ pc \notin Listening
  BY DEF Steps, Listening
<1>9. \A b \in BOOLEAN : launch(b) \in TurnState /\ launch(b).pc = pc
          /\ launch(b).sid = sid /\ launch(b).resume = b
  BY <1>1, <1>4, <1>8 DEF TurnState, SidOrNone
<1> HIDE DEF launch
<1>10. r \in TurnState /\ r.pc = pc /\ r.sid = sid /\ r.resume = res
  BY <1>6, <1>9
<1> HIDE DEF r
<1>11. TurnOK' /\ LockOK'
  BY <1>4, <1>7, <1>8, <1>10, SidFacts, MoveOK DEF Inv
<1>12. turn'[t] = r
  BY <1>1, <1>7
<1>13. QED
  BY <1>4, <1>10, <1>11, <1>12

\* A failed reuse and a first start draw the id of the process to come.
LEMMA LaunchSteps ==
    ASSUME Inv, NEW t \in Turns, SendRespawn(t) \/ SendMint(t) \/ SendFresh(t)
    PROVE  Inv'
<1>1. ses \in Session /\ (ses.active # None => ses.ps = ses.active)
  BY DEF Inv, SesOK, ActiveIsPersistent
<1>2. turn[t].pc = "ready" => lock = t /\ ses.on
  BY SidFacts DEF Inv, LockOK, SesOK, HoldsEntry, Holding
<1>3. CASE SendRespawn(t)
  <2>1. turn' = Launching(t, "respawn") /\ lock' = None /\ lock = t /\ ses.on
    BY <1>2, <1>3 DEF SendRespawn, At
  <2>2. GuardFollows(t, "respawn")
    BY <2>1 DEF GuardFollows, Holding
  <2>3. TurnOK' /\ LockOK'
    BY <2>1, <2>2, LaunchingOK
  <2>4. SesOK'
    BY <1>1, <1>3, <2>1, SesSet DEF SendRespawn, Session, Pids
  <2>5. QED
    BY <1>3, <2>3, <2>4, Frames DEF Inv, SendRespawn
<1>4. CASE SendMint(t)
  <2>1. GuardFollows(t, "minted")
    BY <1>4 DEF SendMint, At, GuardFollows, Holding
  <2>2. turn[t].pc = "respawn" /\ Goto(t, "minted")
    BY <1>4 DEF SendMint, At
  <2>3. TurnOK' /\ LockOK'
    BY <2>1, <2>2, GotoOK DEF Inv, Steps, Starting, Listening
  <2>4. turn[t].sid \in SidOrNone
    BY DEF Inv, TurnOK, TurnState
  <2>5. SesOK'
    <3>1. CASE ses.on /\ ~turn[t].resume
      BY <1>1, <1>4, <2>4, <3>1, SesSet DEF SendMint, Session
    <3>2. CASE ~(ses.on /\ ~turn[t].resume)
      BY <1>4, <3>2, Frames DEF Inv, SendMint
    <3>3. QED
      BY <3>1, <3>2
  <2>6. QED
    BY <1>4, <2>3, <2>5, Frames DEF Inv, SendMint
<1>5. CASE SendFresh(t)
  <2>1. turn' = Launching(t, "spawning") /\ lock' = None /\ lock = t /\ ses.on
    BY <1>2, <1>5 DEF SendFresh, At
  <2>2. GuardFollows(t, "spawning")
    BY <2>1 DEF GuardFollows, Holding
  <2>3. TurnOK' /\ LockOK' /\ turn'[t].sid \in Sids
    BY <2>1, <2>2, LaunchingOK
  <2>4. SesOK'
    <3>1. ses' = ses \/ ses' = [ses EXCEPT !.sid = turn'[t].sid]
      BY <1>5 DEF SendFresh
    <3>2. CASE ses' = ses
      BY <1>1, <2>1, <3>2, SesSet
    <3>3. CASE ses' = [ses EXCEPT !.sid = turn'[t].sid]
      BY <1>1, <2>1, <2>3, <3>3, SesSet DEF Session, SidOrNone
    <3>4. QED
      BY <3>1, <3>2, <3>3
  <2>5. QED
    BY <1>5, <2>3, <2>4, Frames DEF Inv, SendFresh
<1>6. QED
  BY <1>3, <1>4, <1>5

\* A process starts, under the id of the call or, after a failed --resume, under
\* a new one.
LEMMA SpawnSteps ==
    ASSUME Inv, NEW t \in Turns, Spawn(t) \/ SpawnRetry(t)
    PROVE  Inv'
<1>1. turn \in [Turns -> TurnState] /\ turn[t].pc \in {"spawning", "minted"}
  BY DEF Inv, TurnOK, Spawn, SpawnRetry
<1>2. turn[t].sid \in Sids /\ turn[t].resume \in BOOLEAN
      /\ (~turn[t].resume => turn[t].sid = <<t, "spawn">>)
  BY <1>1 DEF Inv, TurnOK, SpawnIds, Starting, TurnState, SidOrNone
<1>3. "spawned" \in Steps /\ "spawned" \notin Listening \cup Starting
  BY DEF Steps, Listening, Starting
<1>4. lock' = lock => GuardFollows(t, "spawned")
  BY <1>1 DEF GuardFollows, Holding
<1>5. CASE Spawn(t)
  <2>1. TurnOK' /\ LockOK'
    BY <1>3, <1>4, <1>5, GotoOK DEF Inv, Spawn
  <2>2. ProcOK'
    BY <1>2, <1>5, LaunchedOK DEF Inv, Spawn, OwnIds
  <2>3. QED
    BY <1>5, <2>1, <2>2, Frames DEF Inv, Spawn
<1>6. CASE SpawnRetry(t)
  <2> DEFINE r == [turn[t] EXCEPT !.pc = "spawned", !.sid = RetrySid(t)]
  <2>1. RetrySid(t) \in Sids /\ RetrySid(t) \in OwnIds(t)
    BY SidFacts DEF RetrySid, OwnIds, SidKinds
  <2>2. turn' = [turn EXCEPT ![t] = r]
    BY <1>1, <1>6 DEF SpawnRetry
  <2>3. r \in TurnState /\ r.pc = "spawned"
    BY <1>1, <1>3, <2>1 DEF TurnState, SidOrNone
  <2> HIDE DEF r
  <2>4. TurnOK' /\ LockOK'
    BY <1>3, <1>4, <1>6, <2>2, <2>3, MoveOK DEF Inv, SpawnRetry
  <2>5. ProcOK'
    BY <1>6, <2>1, LaunchedOK DEF Inv, SpawnRetry
  <2>6. RestOK'
    BY <1>6, SpendRest DEF Inv, SpawnRetry, Rare
  <2>7. QED
    BY <1>6, <2>4, <2>5, <2>6, Frames DEF Inv, SpawnRetry
<1>7. QED
  BY <1>5, <1>6

\* A start that fails, with or without clearing the conversation.
LEMMA SpawnFailSteps ==
    ASSUME Inv, NEW t \in Turns, SpawnError(t) \/ SpawnFails(t) \/ SpawnCleared(t)
    PROVE  Inv'
<1>1. turn[t].pc \notin Holding
  BY DEF SpawnError, SpawnFails, SpawnCleared, At, Holding
<1>2. lock' = lock => GuardFollows(t, "failed") /\ GuardFollows(t, "clearing")
  BY <1>1 DEF GuardFollows, Holding
<1>3. CASE SpawnError(t)
  <2>1. TurnOK' /\ LockOK'
    BY <1>2, <1>3, OverOK DEF Inv, SpawnError, Failed
  <2>2. RestOK'
    BY <1>3, SpendRest DEF Inv, SpawnError, Rare
  <2>3. QED
    BY <1>3, <2>1, <2>2, Frames DEF Inv, SpawnError
<1>4. CASE SpawnFails(t)
  <2>1. TurnOK' /\ LockOK'
    BY <1>2, <1>4, GotoOK DEF Inv, SpawnFails, Steps, Listening, Starting
  <2>2. RestOK'
    <3>1. left' \in [Rare -> Nat] /\ TogglesPaid'
      BY <1>4, SpendOK, PaidOK DEF Inv, SpawnFails, Rare
    <3>2. db' \in [sid: SidOrNone, turns: Counts]
      BY <1>4 DEF SpawnFails, Forgotten, SidOrNone, Counts
    <3>3. QED
      BY <1>4, <3>1, <3>2 DEF Inv, RestOK, SpawnFails
  <2>3. QED
    BY <1>4, <2>1, <2>2, Frames DEF Inv, SpawnFails
<1>5. CASE SpawnCleared(t)
  <2>1. TurnOK' /\ LockOK'
    BY <1>2, <1>5, OverOK DEF Inv, SpawnCleared, Failed
  <2>2. SesOK'
    <3>1. CASE ses.on
      <4>1. ses \in Session /\ (ses.active # None => ses.ps = ses.active)
        BY DEF Inv, SesOK, ActiveIsPersistent
      <4>2. ses' = [ses EXCEPT !.sid = None, !.turns = 0]
        BY <1>5, <3>1 DEF SpawnCleared
      <4>3. None \in SidOrNone /\ 0 \in Counts
        BY DEF SidOrNone, Counts
      <4>4. QED
        BY <3>1, <4>1, <4>2, <4>3, SesSet DEF Session
    <3>2. CASE ~ses.on
      BY <1>5, <3>2, Frames DEF SpawnCleared, Inv
    <3>3. QED
      BY <3>1, <3>2
  <2>3. QED
    BY <1>5, <2>1, <2>2, Frames DEF Inv, SpawnCleared
<1>6. QED
  BY <1>3, <1>4, <1>5

\* The prompt is written to the new process, which becomes the tab's.
LEMMA PromptSteps ==
    ASSUME Inv, NEW t \in Turns, Prompt(t) \/ PromptFails(t) \/ Store(t)
    PROVE  Inv'
<1>1. turn \in [Turns -> TurnState] /\ ses \in Session
  BY DEF Inv, TurnOK, SesOK
<1>2. turn[t].pc \in {"spawned", "prompted"} /\ lock' = lock
  BY DEF Prompt, PromptFails, Store, At
<1>3. \A pc \in {"prompted", "streaming", "failed"} : GuardFollows(t, pc)
  BY <1>2 DEF GuardFollows, Holding
<1>4. t \in Pids /\ t # None
  BY SidFacts DEF Pids
<1>5. CASE Prompt(t)
  <2> DEFINE r == [turn[t] EXCEPT !.pid = t, !.sub = t, !.pc = "prompted"]
  <2>1. turn' = [turn EXCEPT ![t] = r]
    BY <1>1, <1>5 DEF Prompt, Subscribed
  <2>2. "prompted" \in Steps /\ "prompted" \notin Starting
    BY DEF Steps, Starting
  <2>3. r \in TurnState /\ r.pc = "prompted" /\ r.pid = t
    BY <1>1, <1>4, <2>2 DEF TurnState
  <2> HIDE DEF r
  <2>4. TurnOK' /\ LockOK'
    BY <1>3, <1>4, <2>1, <2>2, <2>3, MoveOK DEF Inv
  <2>5. ProcOK'
    BY <1>5, PromptedOK DEF Inv, Prompt
  <2>6. QED
    BY <1>5, <2>4, <2>5, Frames DEF Inv, Prompt
<1>6. CASE PromptFails(t)
  <2>1. TurnOK' /\ LockOK'
    BY <1>3, <1>6, OverOK DEF Inv, PromptFails, Failed
  <2>2. QED
    BY <1>6, <2>1, Frames DEF Inv, PromptFails
<1>7. CASE Store(t) /\ ses.on
  <2>1. Goto(t, "streaming") /\ turn[t].pc = "prompted"
    BY <1>7 DEF Store, At
  <2>2. TurnOK' /\ LockOK'
    BY <1>3, <2>1, GotoOK DEF Inv, Steps, Starting, Listening
  <2>3. ses' = [ses EXCEPT !.ps = t, !.active = t, !.sid = turn[t].sid]
    BY <1>7 DEF Store
  <2>4. turn[t].sid \in SidOrNone
    BY <1>1 DEF TurnState
  <2>5. ses' \in Session /\ ses'.on /\ ses'.ps = t /\ ses'.active = t
    BY <1>1, <1>4, <1>7, <2>3, <2>4 DEF Session
  <2>6. SesOK'
    BY <2>5, SesSet
  <2>7. RestOK'
    <3>1. db' = Saved(ses')
      BY <1>7 DEF Store
    <3>2. db' \in [sid: SidOrNone, turns: Counts]
      BY <2>5, <3>1 DEF Saved, Session
    <3>3. QED
      BY <1>7, <3>2 DEF Inv, RestOK, TogglesPaid, Store
  <2>8. QED
    BY <1>7, <2>2, <2>6, <2>7, Frames DEF Inv, Store
<1>8. CASE Store(t) /\ ~ses.on
  <2>1. TurnOK' /\ LockOK'
    BY <1>3, <1>8, OverOK DEF Inv, Store, Failed
  <2>2. QED
    BY <1>8, <2>1, Frames DEF Inv, Store
<1>9. QED
  BY <1>5, <1>6, <1>7, <1>8

-----------------------------------------------------------------------------
\* The stream task of a turn.

\* A task that has an event to handle holds no guard and knows its process.
LEMMA ArrivedFacts ==
    ASSUME Inv, NEW t \in Turns, NEW k, Arrived(t, k)
    PROVE  /\ turn[t].pc = "streaming" /\ lock = None
           /\ turn[t].pid \in Turns
           /\ turn[t].inbox \in Seq(Events) /\ turn[t].inbox # <<>>
           /\ Head(turn[t].inbox) \in Events
           /\ Head(turn[t].inbox).kind = k
           /\ Tail(turn[t].inbox) \in Seq(Events)
<1>1. turn[t] \in TurnState /\ turn[t].pc = "streaming" /\ lock = None
      /\ turn[t].inbox # <<>> /\ Head(turn[t].inbox).kind = k
  BY DEF Inv, TurnOK, Arrived, At, Acquirable
<1>2. turn[t].pid # None
  BY <1>1 DEF Inv, TurnOK, StreamHasPid, Listening
<1>3. turn[t].inbox \in Seq(Events) /\ turn[t].pid \in Turns
  BY <1>1, <1>2 DEF TurnState, Pids
<1>4. Head(turn[t].inbox) \in Events /\ Tail(turn[t].inbox) \in Seq(Events)
  BY <1>1, <1>3, HeadTailProperties
<1>5. QED
  BY <1>1, <1>3, <1>4

\* The task takes the event and goes on.
LEMMA PoppedOK ==
    ASSUME Inv, NEW t \in Turns, NEW k, Arrived(t, k),
           NEW pc \in {"streaming", "auth"}, turn' = Popped(t, pc), lock' = lock
    PROVE  TurnOK' /\ LockOK'
<1> DEFINE r == [turn[t] EXCEPT !.pc = pc, !.inbox = Tail(@)]
<1>1. turn \in [Turns -> TurnState]
  BY DEF Inv, TurnOK
<1>2. turn[t].pc = "streaming" /\ turn[t].pid \in Turns /\ Tail(turn[t].inbox) \in Seq(Events)
  BY ArrivedFacts
<1>3. turn' = [turn EXCEPT ![t] = r]
  BY <1>1 DEF Popped
<1>4. pc \in Steps /\ pc \notin Starting
  BY DEF Steps, Starting
<1>5. r \in TurnState /\ r.pc = pc /\ r.pid = turn[t].pid
  BY <1>1, <1>2, <1>4 DEF TurnState
<1>6. GuardFollows(t, pc)
  BY <1>2 DEF GuardFollows, Holding
<1> HIDE DEF r
<1>7. QED
  BY <1>2, <1>3, <1>4, <1>5, <1>6, SidFacts, MoveOK DEF Inv

\* A task ends.
LEMMA DoneOK ==
    ASSUME Inv, NEW t \in Turns, turn[t].pc \notin Holding, turn' = Done(t), lock' = lock
    PROVE  TurnOK' /\ LockOK'
<1>1. GuardFollows(t, "done")
  BY DEF GuardFollows, Holding
<1>2. QED
  BY <1>1, OverOK DEF Inv, Done

\* The init event, and the row saved after its critical section.
LEMMA InitSteps ==
    ASSUME Inv, NEW t \in Turns, OnInit(t) \/ InitSave(t)
    PROVE  Inv'
<1>1. turn \in [Turns -> TurnState] /\ proc \in [Turns -> Process] /\ ses \in Session
  BY DEF Inv, TurnOK, ProcOK, SesOK
<1>2. CASE OnInit(t)
  <2> DEFINE n == IF Owns(t) THEN ses.turns ELSE 0
             pc == IF n > 0 THEN "saving" ELSE "streaming"
             r == [turn[t] EXCEPT !.pc = pc, !.inbox = Tail(@), !.init = TRUE, !.save = n]
  <2>1. /\ turn[t].pc = "streaming" /\ lock = None /\ turn[t].pid \in Turns
        /\ Tail(turn[t].inbox) \in Seq(Events)
    BY <1>2, ArrivedFacts DEF OnInit
  <2>2. n \in Counts
    BY <1>1 DEF Session, Counts
  <2>3. turn' = [Popped(t, pc) EXCEPT ![t].init = TRUE, ![t].save = n]
    BY <1>2 DEF OnInit
  <2> HIDE DEF n
  <2>4. pc \in Steps /\ pc \notin Starting
    BY DEF Steps, Starting
  <2>5. GuardFollows(t, pc)
    BY <1>2, <2>1 DEF OnInit, GuardFollows, Holding
  <2> HIDE DEF pc
  <2>6. turn' = [turn EXCEPT ![t] = r]
    BY <1>1, <2>3 DEF Popped
  <2>7. r \in TurnState /\ r.pc = pc /\ r.pid = turn[t].pid
    BY <1>1, <2>1, <2>2, <2>4 DEF TurnState
  <2> HIDE DEF r
  <2>8. TurnOK' /\ LockOK'
    BY <2>1, <2>4, <2>5, <2>6, <2>7, SidFacts, MoveOK DEF Inv
  <2>9. SesOK'
    <3>1. proc[turn[t].pid].sid \in SidOrNone
      BY <1>1, <2>1 DEF Process
    <3>2. ses.active # None => ses.ps = ses.active
      BY DEF Inv, SesOK, ActiveIsPersistent
    <3>3. CASE Owns(t)
      BY <1>1, <1>2, <3>1, <3>2, <3>3, SesSet DEF OnInit, Owns, Session
    <3>4. CASE ~Owns(t)
      BY <1>2, <3>4, Frames DEF OnInit, Inv
    <3>5. QED
      BY <3>3, <3>4
  <2>10. QED
    BY <1>2, <2>8, <2>9, Frames DEF Inv, OnInit
<1>3. CASE InitSave(t)
  <2>1. turn[t].pc = "saving" /\ Goto(t, "streaming") /\ lock' = lock
    BY <1>3 DEF InitSave, At
  <2>2. GuardFollows(t, "streaming")
    BY <2>1 DEF GuardFollows, Holding
  <2>3. TurnOK' /\ LockOK'
    BY <2>1, <2>2, GotoOK DEF Inv, Steps, Starting, Listening
  <2>4. turn[t].pid \in Turns
    BY <1>1, <2>1 DEF Inv, TurnOK, StreamHasPid, Listening, TurnState, Pids
  <2>5. db' \in [sid: SidOrNone, turns: Counts]
    BY <1>1, <1>3, <2>4 DEF InitSave, Process, TurnState
  <2>6. RestOK'
    BY <1>3, <2>5 DEF Inv, RestOK, TogglesPaid, InitSave
  <2>7. QED
    BY <1>3, <2>3, <2>6, Frames DEF Inv, InitSave
<1>4. QED
  BY <1>2, <1>3

\* A permission request is queued, a background task is noted, a task's end too.
LEMMA AskSteps ==
    ASSUME Inv, NEW t \in Turns, OnAsk(t) \/ OnTask(t) \/ TasksOver
    PROVE  Inv'
<1>1. ses \in Session /\ (ses.active # None => ses.ps = ses.active)
  BY DEF Inv, SesOK, ActiveIsPersistent
<1>2. CASE OnAsk(t)
  <2>1. TurnOK' /\ LockOK'
    BY <1>2, PoppedOK DEF OnAsk
  <2>2. Head(turn[t].inbox) \in Events /\ Head(turn[t].inbox).kind = "ask"
    BY <1>2, ArrivedFacts DEF OnAsk
  <2>3. Head(turn[t].inbox).ask \in Turns
    BY <2>2 DEF Events
  <2>4. SesOK'
    <3>1. CASE ses.on
      BY <1>1, <1>2, <2>3, <3>1, SesSet DEF OnAsk, Session
    <3>2. CASE ~ses.on
      BY <1>2, <3>2, Frames DEF OnAsk, Inv
    <3>3. QED
      BY <3>1, <3>2
  <2>5. QED
    BY <1>2, <2>1, <2>4, Frames DEF Inv, OnAsk
<1>3. CASE OnTask(t)
  <2>1. TurnOK' /\ LockOK'
    BY <1>3, PoppedOK DEF OnTask
  <2>2. SesOK'
    <3>1. CASE ses.on
      BY <1>1, <1>3, <3>1, SesSet DEF OnTask, Session
    <3>2. CASE ~ses.on
      BY <1>3, <3>2, Frames DEF OnTask, Inv
    <3>3. QED
      BY <3>1, <3>2
  <2>3. QED
    BY <1>3, <2>1, <2>2, Frames DEF Inv, OnTask
<1>4. CASE TasksOver
  <2>1. ses.on
    BY <1>4, NoSessionOK DEF TasksOver, Inv, SesOK, NoSession
  <2>2. SesOK'
    BY <1>1, <1>4, <2>1, SesSet DEF TasksOver, Session
  <2>3. QED
    BY <1>4, <2>2, Frames DEF Inv, TasksOver
<1>5. QED
  BY <1>2, <1>3, <1>4

\* The result of a turn, and the reset after a failed authentication.
LEMMA ResultSteps ==
    ASSUME Inv, NEW t \in Turns, OnResult(t) \/ AuthReset(t) \/ AuthClear(t)
    PROVE  Inv'
<1>1. ses \in Session /\ (ses.active # None => ses.ps = ses.active)
  BY DEF Inv, SesOK, ActiveIsPersistent
<1>2. CASE OnResult(t)
  <2>1. PICK k : Arrived(t, k)
    BY <1>2 DEF OnResult
  <2>2. turn[t].pc = "streaming"
    BY <2>1, ArrivedFacts
  <2>3. (turn' = Popped(t, "auth") \/ turn' = Done(t)) /\ lock' = lock
    BY <1>2 DEF OnResult
  <2>4. TurnOK' /\ LockOK'
    BY <2>1, <2>2, <2>3, PoppedOK, DoneOK DEF Holding
  <2>5. SesOK'
    <3>1. CASE ses.on /\ ses.active = turn[t].pid /\ ses.ps # None
      BY <1>1, <1>2, <3>1, SesSet DEF OnResult, Session, Pids
    <3>2. CASE ~(ses.on /\ ses.active = turn[t].pid /\ ses.ps # None)
      BY <1>2, <3>2, Frames DEF OnResult, Inv
    <3>3. QED
      BY <3>1, <3>2
  <2>6. QED
    BY <1>2, <2>4, <2>5, Frames DEF Inv, OnResult
<1>3. CASE AuthReset(t) /\ Owns(t)
  <2>1. Goto(t, "authClear") /\ turn[t].pc = "auth" /\ lock' = lock
    BY <1>3 DEF AuthReset, Goto, At
  <2>2. GuardFollows(t, "authClear")
    BY <2>1 DEF GuardFollows, Holding
  <2>3. TurnOK' /\ LockOK'
    BY <2>1, <2>2, GotoOK DEF Inv, Steps, Starting, Listening
  <2>4. <<t, "auth">> \in SidOrNone /\ None \in Pids /\ 0 \in Counts
    <3>1. <<t, "auth">> \in Sids
      BY SidFacts DEF SidKinds
    <3>2. QED
      BY <3>1 DEF SidOrNone, Pids, Counts
  <2>5. ses' = [ses EXCEPT !.active = None, !.ps = None, !.turns = 0,
                           !.sid = <<t, "auth">>, !.bg = FALSE]
    BY <1>3 DEF AuthReset
  <2>6. SesOK'
    BY <1>1, <1>3, <2>4, <2>5, SesSet DEF Owns, Session
  <2>7. QED
    BY <1>3, <2>3, <2>6, Frames DEF Inv, AuthReset
<1>4. CASE AuthReset(t) /\ ~Owns(t)
  <2>1. turn[t].pc \notin Holding /\ turn' = Done(t) /\ lock' = lock
    BY <1>4 DEF AuthReset, At, Holding
  <2>2. TurnOK' /\ LockOK'
    BY <2>1, DoneOK
  <2>3. QED
    BY <1>4, <2>2, Frames DEF Inv, AuthReset
<1>5. CASE AuthClear(t)
  <2>1. turn[t].pc \notin Holding /\ turn' = Done(t) /\ lock' = lock
    BY <1>5 DEF AuthClear, At, Holding
  <2>2. TurnOK' /\ LockOK'
    BY <2>1, DoneOK
  <2>3. ProcOK'
    BY <1>5, KillOK DEF Inv, AuthClear
  <2>4. RestOK'
    BY <1>5 DEF Inv, RestOK, TogglesPaid, AuthClear, Forgotten, SidOrNone, Counts
  <2>5. QED
    BY <1>5, <2>2, <2>3, <2>4, Frames DEF Inv, AuthClear
<1>6. QED
  BY <1>2, <1>3, <1>4, <1>5

\* The exit of the process a task listens to.
LEMMA ExitStep ==
    ASSUME Inv, NEW t \in Turns, OnExit(t)
    PROVE  Inv'
<1>1. /\ ses \in Session /\ (ses.active # None => ses.ps = ses.active)
      /\ turn[t].pc = "streaming" /\ lock = None /\ lock' = None
  BY ArrivedFacts DEF Inv, SesOK, ActiveIsPersistent, OnExit
<1>2. TurnOK' /\ LockOK'
  BY <1>1, DoneOK DEF OnExit, Holding
<1>3. SesOK'
  <2>1. CASE ~turn[t].init
    BY <1>1, <2>1, NoSessionOK DEF OnExit, SesOK, ActiveIsPersistent, HoldsEntry
  <2>2. CASE turn[t].init /\ ses.on /\ ses.active = turn[t].pid
    BY <1>1, <2>2, SesUpdates, SesSet DEF OnExit
  <2>3. CASE turn[t].init /\ ~(ses.on /\ ses.active = turn[t].pid)
    BY <2>3, Frames DEF OnExit, Inv
  <2>4. QED
    BY <2>1, <2>2, <2>3
<1>4. RestOK'
  <2>1. db' = db \/ db' = Forgotten
    BY DEF OnExit
  <2>2. QED
    BY <2>1 DEF Inv, RestOK, TogglesPaid, OnExit, Forgotten, SidOrNone, Counts
<1>5. QED
  BY <1>2, <1>3, <1>4, Frames DEF Inv, OnExit

-----------------------------------------------------------------------------
\* The other commands on the tab.

\* Stop and Reset, and the kills they decide on.
LEMMA StopSteps ==
    ASSUME Inv, StopAgent \/ ResetAgentSession \/ ResetClear \/ \E p \in Turns : KillAgent(p)
    PROVE  Inv'
<1>1. ses \in Session /\ Denials(ses) \subseteq [to: Turns, ask: Turns]
      /\ {ses.active} \ {None} \subseteq Turns
  <2>1. ses \in Session
    BY DEF Inv, SesOK
  <2>2. QED
    BY <2>1, DenialsType DEF Session, Pids
<1>2. CASE StopAgent
  <2>1. ses.on /\ Drained(ses) \in Session /\ Drained(ses).on
    BY <1>1, <1>2, SesUpdates DEF StopAgent
  <2>2. SesOK'
    BY <1>2, <2>1, SesSet DEF StopAgent, Session, Pids
  <2>3. RestOK'
    BY <1>1, <1>2 DEF Inv, RestOK, TogglesPaid, StopAgent
  <2>4. QED
    BY <1>2, <2>2, <2>3, Frames DEF Inv, StopAgent
<1>3. CASE ResetAgentSession
  <2>1. SesOK'
    BY <1>3, NoSessionOK
       DEF ResetAgentSession, Removed, SesOK, ActiveIsPersistent, HoldsEntry, Acquirable
  <2>2. RestOK'
    <3>1. left' \in [Rare -> Nat] /\ TogglesPaid'
      BY <1>3, SpendOK, PaidOK DEF Inv, ResetAgentSession, Rare
    <3>2. QED
      BY <1>1, <1>3, <3>1 DEF Inv, RestOK, ResetAgentSession, SidOrNone
  <2>3. QED
    BY <1>3, <2>1, <2>2, Frames DEF Inv, ResetAgentSession
<1>4. CASE ResetClear
  <2>1. RestOK'
    BY <1>4 DEF Inv, RestOK, TogglesPaid, ResetClear, Forgotten, SidOrNone, Counts
  <2>2. QED
    BY <1>4, <2>1, Frames DEF Inv, ResetClear
<1>5. CASE \E p \in Turns : KillAgent(p)
  <2>1. PICK p \in Turns : KillAgent(p)
    BY <1>5
  <2>2. ProcOK'
    BY <2>1, KillOK DEF Inv, KillAgent
  <2>3. RestOK'
    BY <2>1 DEF Inv, RestOK, TogglesPaid, KillAgent
  <2>4. QED
    BY <2>1, <2>2, <2>3, Frames DEF Inv, KillAgent
<1>6. QED
  BY <1>2, <1>3, <1>4, <1>5

\* The answers to a permission request.
LEMMA AnswerSteps ==
    ASSUME Inv, NEW a \in Turns, SubmitAnswer(a) \/ SubmitApprovalFails(a)
    PROVE  Inv'
<1>1. ses \in Session /\ ses.on /\ (ses.active # None => ses.ps = ses.active)
  BY DEF Inv, SesOK, ActiveIsPersistent, SubmitAnswer, SubmitApprovalFails
<1>2. ses' = [ses EXCEPT !.pending = @ \ {a}]
  BY DEF SubmitAnswer, SubmitApprovalFails, Answered
<1>3. SesOK'
  BY <1>1, <1>2, SesSet DEF Session
<1>4. RestOK'
  <2>1. CASE SubmitAnswer(a)
    <3>1. ses.ps \in Turns
      BY <1>1, <2>1 DEF SubmitAnswer, Session, Pids
    <3>2. QED
      BY <2>1, <3>1 DEF Inv, RestOK, TogglesPaid, SubmitAnswer
  <2>2. CASE SubmitApprovalFails(a)
    BY <2>2, Frames DEF Inv, SubmitApprovalFails
  <2>3. QED
    BY <2>1, <2>2
<1>5. QED
  BY <1>3, <1>4, Frames DEF Inv, SubmitAnswer, SubmitApprovalFails

\* The toggle of an MCP server.
LEMMA ToggleSteps ==
    ASSUME Inv, ToggleServer \/ MarkDirty
    PROVE  Inv'
<1>1. CASE ToggleServer
  <2>1. /\ mcp \in [version: Versions, marked: Versions, missed: SUBSET Turns] /\ left \in [Rare -> Nat]
        /\ mcp.version + left["toggle"] <= Budget["toggle"]
        /\ Budget["toggle"] \in Nat
    BY BudgetAssumption DEF Inv, RestOK, TogglesPaid, Rare
  <2>2. left["toggle"] > 0 /\ left' = [left EXCEPT !["toggle"] = @ - 1]
    BY <1>1 DEF ToggleServer, Spend
  <2>3. left["toggle"] \in Nat /\ mcp.version \in 0 .. Budget["toggle"]
    BY <2>1 DEF Rare, Versions
  <2>4. left' \in [Rare -> Nat] /\ left'["toggle"] = left["toggle"] - 1
    BY <2>1, <2>2, <2>3 DEF Rare
  <2>5. mcp' = [mcp EXCEPT !.version = mcp.version + 1]
    BY <1>1 DEF ToggleServer
  <2>6. mcp.version + 1 \in Versions
    BY <2>1, <2>2, <2>3 DEF Versions
  <2>7. mcp' \in [version: Versions, marked: Versions, missed: SUBSET Turns] /\ mcp'.version = mcp.version + 1
    BY <2>1, <2>5, <2>6
  <2>8. TogglesPaid'
    BY <2>1, <2>3, <2>4, <2>7 DEF TogglesPaid
  <2>9. RestOK'
    BY <1>1, <2>4, <2>7, <2>8 DEF Inv, RestOK, ToggleServer
  <2>10. QED
    BY <1>1, <2>9, Frames DEF Inv, ToggleServer
<1>2. CASE MarkDirty
  <2>1. mcp \in [version: Versions, marked: Versions, missed: SUBSET Turns]
        /\ mcp' = [mcp EXCEPT !.marked = mcp.version, !.missed = @ \cup Window]
    BY <1>2 DEF MarkDirty, Inv, RestOK
  <2>2. mcp' \in [version: Versions, marked: Versions, missed: SUBSET Turns]
        /\ mcp'.version = mcp.version
    BY <2>1 DEF Window
  <2>3. RestOK'
    BY <1>2, <2>2 DEF Inv, RestOK, TogglesPaid, MarkDirty
  <2>4. SesOK'
    <3>1. CASE ses.on
      BY <1>2, <3>1, SesSet DEF MarkDirty, Inv, SesOK, ActiveIsPersistent, Session
    <3>2. CASE ~ses.on
      BY <1>2, <3>2, Frames DEF MarkDirty, Inv
    <3>3. QED
      BY <3>1, <3>2
  <2>5. QED
    BY <1>2, <2>3, <2>4, Frames DEF Inv, MarkDirty
<1>3. QED
  BY <1>1, <1>2

\* What is left of an exited process keeps its id.
LEMMA GoneType ==
    ASSUME NEW r \in Process
    PROVE  /\ Gone(r) \in Process /\ Gone(r).st = "gone" /\ Gone(r).phase = "idle"
           /\ Gone(r).sid = r.sid /\ Gone(r).resume = r.resume
<1>1. r.sid \in SidOrNone /\ r.resume \in BOOLEAN
  BY DEF Process
<1>2. Gone(r) \in Process
  BY <1>1, NoProcessType DEF Gone, Process
<1>3. QED
  BY <1>2 DEF Gone, NoProcess

\* The app quits: every call and process is gone, the row and transcripts stay.
LEMMA RestartStep ==
    ASSUME Inv, AppRestart
    PROVE  Inv'
<1>1. turn \in [Turns -> TurnState] /\ proc \in [Turns -> Process]
  BY DEF Inv, TurnOK, ProcOK
<1>2. SesOK'
  BY NoSessionOK DEF AppRestart, SesOK, ActiveIsPersistent, HoldsEntry
<1>3. Over("failed") \in TurnState /\ Over("failed").pc = "failed"
  BY NewTurnType DEF Over, TurnState, NewTurn, Steps
<1>4. \A t \in Turns : /\ turn'[t] \in TurnState
                       /\ turn'[t].pc \in {"new", "done", "failed"}
  BY <1>1, <1>3 DEF AppRestart
<1>5. turn' \in [Turns -> TurnState]
  BY <1>1, <1>3 DEF AppRestart
<1>6. TurnOK'
  BY <1>4, <1>5 DEF TurnOK, StreamHasPid, SpawnIds, Listening, Starting
<1>7. LockOK'
  BY <1>4, SidFacts DEF AppRestart, LockOK, Holding, Pids
<1>8. ProcOK'
  <2>1. proc' \in [Turns -> Process]
    BY <1>1, GoneType DEF AppRestart
  <2>2. \A p \in Turns : /\ proc'[p].sid = proc[p].sid
                         /\ proc'[p].resume = proc[p].resume
                         /\ proc'[p].st = "none" <=> proc[p].st = "none"
                         /\ proc'[p] = proc[p] \/ proc'[p].phase = "idle"
    BY <1>1, GoneType DEF AppRestart
  <2>3. transcripts' = transcripts
    BY DEF AppRestart
  <2>4. QED
    BY <2>1, <2>2, <2>3 DEF Inv, ProcOK, WorkHasPrompt, ProcIds, UnstartedUnused
<1>9. RestOK'
  <2>1. left' \in [Rare -> Nat] /\ left'["toggle"] <= left["toggle"]
    BY SpendOK DEF Inv, AppRestart, Rare
  <2>2. mcp' \in [version: Versions, marked: Versions, missed: SUBSET Turns] /\ mcp'.version = mcp.version
    BY DEF Inv, RestOK, AppRestart
  <2>3. TogglesPaid'
    BY <2>1, <2>2, PaidOK DEF Inv
  <2>4. QED
    BY <2>1, <2>2, <2>3 DEF Inv, RestOK, AppRestart, SidOrNone
<1>10. QED
  BY <1>2, <1>6, <1>7, <1>8, <1>9 DEF Inv

-----------------------------------------------------------------------------
\* The CLI process.

\* An event is broadcast and the entry, the guard and the row are left alone.
LEMMA CliFrame ==
    ASSUME Inv, NEW p \in Turns, NEW e \in Events, turn' = Broadcast(p, e) \/ turn' = turn,
           UNCHANGED CliOnly
    PROVE  SesOK' /\ TurnOK' /\ LockOK'
<1>1. UNCHANGED <<ses, lock>>
  BY DEF CliOnly
<1>2. TurnOK' /\ \A t \in Turns : turn'[t].pc = turn[t].pc
  BY BroadcastOK, Frames DEF Inv
<1>3. LockOK'
  BY <1>1, <1>2 DEF Inv, LockOK
<1>4. QED
  BY <1>1, <1>2, <1>3, Frames DEF Inv

\* A process that works has a prompt at the head of its queue.
LEMMA WorkingHead ==
    ASSUME ProcOK, NEW p \in Turns, proc[p].phase # "idle"
    PROVE  Head(proc[p].queue) \in Turns /\ Tail(proc[p].queue) \in Seq(Turns)
<1>1. proc[p].queue \in Seq(Turns) /\ proc[p].queue # <<>>
  BY DEF ProcOK, WorkHasPrompt, Process
<1>2. QED
  BY <1>1, HeadTailProperties

\* A process that changes neither its id nor its prompts.
LEMMA PhaseOK ==
    ASSUME ProcOK, NEW p \in Turns, NEW r \in Process,
           proc' = [proc EXCEPT ![p] = r], transcripts' = transcripts,
           proc[p].st # "none", r.st # "none",
           r.sid = proc[p].sid, r.resume = proc[p].resume,
           r.phase # "idle" => r.queue # <<>>
    PROVE  ProcOK'
<1>1. proc \in [Turns -> Process]
  BY DEF ProcOK
<1>2. proc' \in [Turns -> Process] /\ proc'[p] = r
      /\ \A q \in Turns : q # p => proc'[q] = proc[q]
  BY <1>1
<1>3. QED
  BY <1>2 DEF ProcOK, WorkHasPrompt, ProcIds, UnstartedUnused

\* The CLI reports init: the only way a conversation comes to have a transcript.
LEMMA CliInitStep ==
    ASSUME Inv, NEW p \in Turns, CliInit(p)
    PROVE  Inv'
<1>1. proc \in [Turns -> Process] /\ proc[p].st = "live" /\ proc[p].queue # <<>>
      /\ transcripts' = transcripts \cup {proc[p].sid}
      /\ (proc[p].resume => proc[p].sid \in transcripts)
      /\ proc' = [proc EXCEPT ![p].phase = "working"]
  BY DEF Inv, ProcOK, CliInit, Live, Known
<1>2. proc[p].sid \in Sids /\ (~proc[p].resume => proc[p].sid \in OwnIds(p))
  BY <1>1 DEF Inv, ProcOK, ProcIds, Process, SidOrNone
<1>3. proc' \in [Turns -> Process]
  BY <1>1 DEF Process
<1>4. \A q \in Turns : /\ proc'[q].sid = proc[q].sid
                       /\ proc'[q].resume = proc[q].resume
                       /\ proc'[q].st = proc[q].st
                       /\ proc'[q].queue = proc[q].queue
                       /\ q # p => proc'[q].phase = proc[q].phase
  BY <1>1 DEF Process
<1>5. UnstartedUnused'
  <2>1. SUFFICES ASSUME NEW q \in Turns, proc'[q].st = "none"
                 PROVE  OwnIds(q) \cap transcripts' = {}
    BY DEF UnstartedUnused
  <2>2. q # p /\ OwnIds(q) \cap transcripts = {}
    BY <1>1, <1>4, <2>1 DEF Inv, ProcOK, UnstartedUnused
  <2>3. proc[p].sid \notin OwnIds(q)
    <3>1. CASE proc[p].resume
      BY <1>1, <2>2, <3>1
    <3>2. CASE ~proc[p].resume
      BY <1>2, <2>2, <3>2 DEF OwnIds
    <3>3. QED
      BY <3>1, <3>2
  <2>4. QED
    BY <1>1, <2>2, <2>3
<1>6. WorkHasPrompt' /\ ProcIds'
  BY <1>1, <1>4 DEF Inv, ProcOK, WorkHasPrompt, ProcIds
<1>7. ProcOK'
  BY <1>1, <1>2, <1>3, <1>5, <1>6 DEF Inv, ProcOK
<1>8. Event("init") \in Events
  BY DEF Event, Events
<1>9. SesOK' /\ TurnOK' /\ LockOK'
  BY <1>8, CliFrame DEF CliInit
<1>10. QED
  BY <1>7, <1>9, Frames DEF Inv, CliInit, CliOnly

\* The CLI asks, reads a reply, reports a background task, and ends its turn.
LEMMA CliTurnSteps ==
    ASSUME Inv, NEW p \in Turns, CliAsk(p) \/ CliReply(p) \/ CliTask(p) \/ CliResult(p)
    PROVE  Inv'
<1>1. /\ proc \in [Turns -> Process] /\ proc[p] \in Process
      /\ proc[p].st = "live" /\ proc[p].phase # "idle" /\ UNCHANGED CliOnly
      /\ transcripts' = transcripts
  BY DEF Inv, ProcOK, CliAsk, CliReply, CliTask, CliResult, Live
<1>2. /\ Head(proc[p].queue) \in Turns /\ Tail(proc[p].queue) \in Seq(Turns)
      /\ proc[p].queue # <<>>
  BY <1>1, WorkingHead DEF Inv, ProcOK, WorkHasPrompt
<1>3. /\ [kind |-> "ask", ask |-> Head(proc[p].queue)] \in Events
      /\ \A k \in {"task", "result", "auth"} : Event(k) \in Events
  BY <1>2 DEF Event, Events
<1>4. CASE CliAsk(p)
  <2> DEFINE r == [proc[p] EXCEPT !.phase = "asking", !.asked = TRUE]
  <2>1. proc' = [proc EXCEPT ![p] = r]
    BY <1>1, <1>4 DEF CliAsk
  <2>2. r \in Process /\ r.st = "live" /\ r.sid = proc[p].sid /\ r.resume = proc[p].resume
        /\ r.queue = proc[p].queue
    BY <1>1 DEF Process
  <2> HIDE DEF r
  <2>3. ProcOK'
    BY <1>1, <1>2, <2>1, <2>2, PhaseOK DEF Inv
  <2>4. SesOK' /\ TurnOK' /\ LockOK'
    BY <1>1, <1>3, <1>4, CliFrame DEF CliAsk
  <2>5. QED
    BY <1>4, <2>3, <2>4, Frames DEF Inv, CliAsk, CliOnly
<1>5. CASE CliReply(p)
  <2> DEFINE r == [proc[p] EXCEPT !.phase = "working"]
  <2>1. proc' = [proc EXCEPT ![p] = r]
    BY <1>1, <1>5 DEF CliReply
  <2>2. r \in Process /\ r.st = "live" /\ r.sid = proc[p].sid /\ r.resume = proc[p].resume
        /\ r.queue = proc[p].queue
    BY <1>1 DEF Process
  <2> HIDE DEF r
  <2>3. ProcOK'
    BY <1>1, <1>2, <2>1, <2>2, PhaseOK DEF Inv
  <2>4. SesOK' /\ TurnOK' /\ LockOK'
    BY <1>1, <1>3, <1>5, CliFrame DEF CliReply
  <2>5. RestOK'
    BY <1>5 DEF Inv, RestOK, TogglesPaid, CliReply, CliOnly
  <2>6. QED
    BY <2>3, <2>4, <2>5 DEF Inv
<1>6. CASE CliTask(p)
  <2> DEFINE r == [proc[p] EXCEPT !.asked = TRUE]
  <2>1. proc' = [proc EXCEPT ![p] = r]
    BY <1>1, <1>6 DEF CliTask
  <2>2. r \in Process /\ r.st = "live" /\ r.sid = proc[p].sid /\ r.resume = proc[p].resume
        /\ r.queue = proc[p].queue
    BY <1>1 DEF Process
  <2> HIDE DEF r
  <2>3. ProcOK'
    BY <1>1, <1>2, <2>1, <2>2, PhaseOK DEF Inv
  <2>4. SesOK' /\ TurnOK' /\ LockOK'
    BY <1>1, <1>3, <1>6, CliFrame DEF CliTask
  <2>5. QED
    BY <1>6, <2>3, <2>4, Frames DEF Inv, CliTask, CliOnly
<1>7. CASE CliResult(p)
  <2> DEFINE r == [proc[p] EXCEPT !.phase = "idle", !.queue = Tail(@), !.asked = FALSE]
  <2>1. proc' = [proc EXCEPT ![p] = r]
    BY <1>1, <1>7 DEF CliResult
  <2>2. r \in Process /\ r.st = "live" /\ r.sid = proc[p].sid /\ r.resume = proc[p].resume
        /\ r.phase = "idle"
    BY <1>1, <1>2 DEF Process
  <2> HIDE DEF r
  <2>3. ProcOK'
    BY <1>1, <2>1, <2>2, PhaseOK DEF Inv
  <2>4. turn' = Broadcast(p, Event("result")) \/ turn' = Broadcast(p, Event("auth"))
    BY <1>7 DEF CliResult
  <2>5. SesOK' /\ TurnOK' /\ LockOK'
    BY <1>1, <1>3, <2>4, CliFrame
  <2>6. RestOK'
    <3>1. UNCHANGED <<db, mcp, replies, kills, reset, stopped>>
      BY <1>7 DEF CliResult, CliOnly
    <3>2. left' = left \/ Spend("fault")
      BY <1>7 DEF CliResult
    <3>3. QED
      BY <3>1, <3>2, SpendRest, Frames DEF Inv, Rare
  <2>7. QED
    BY <2>3, <2>5, <2>6 DEF Inv
<1>8. QED
  BY <1>4, <1>5, <1>6, <1>7

\* The CLI stops by itself or crashes, and its exit is broadcast.
LEMMA CliExitSteps ==
    ASSUME Inv, NEW p \in Turns, CliStops(p) \/ CliCrashes(p) \/ ProcExited(p)
    PROVE  Inv'
<1>1. CASE CliStops(p)
  <2>1. ProcOK'
    BY <1>1, KillOK DEF Inv, CliStops
  <2>2. QED
    BY <1>1, <2>1, Frames DEF Inv, CliStops, CliOnly
<1>2. CASE CliCrashes(p)
  <2>1. ProcOK'
    BY <1>2, KillOK DEF Inv, CliCrashes
  <2>2. RestOK'
    BY <1>2, SpendRest DEF Inv, CliCrashes, CliOnly, Rare
  <2>3. QED
    BY <1>2, <2>1, <2>2, Frames DEF Inv, CliCrashes, CliOnly
<1>3. CASE ProcExited(p)
  <2>1. proc[p] \in Process /\ proc[p].st = "killed"
        /\ proc' = [proc EXCEPT ![p] = Gone(proc[p])] /\ transcripts' = transcripts
    BY <1>3 DEF Inv, ProcOK, ProcExited
  <2>2. ProcOK'
    BY <2>1, GoneType, PhaseOK DEF Inv
  <2>3. Event("exit") \in Events
    BY DEF Event, Events
  <2>4. SesOK' /\ TurnOK' /\ LockOK'
    BY <1>3, <2>3, CliFrame DEF ProcExited
  <2>5. RestOK'
    BY <1>3 DEF Inv, RestOK, TogglesPaid, ProcExited, CliOnly
  <2>6. QED
    BY <2>2, <2>4, <2>5 DEF Inv
<1>4. QED
  BY <1>1, <1>2, <1>3

-----------------------------------------------------------------------------
\* The theorems.

\* A tab that was never used: no entry, no row, no process.
LEMMA InitOK ==
    ASSUME Init
    PROVE  Inv
<1>1. SesOK
  BY NoSessionOK DEF Init, SesOK, ActiveIsPersistent, HoldsEntry
<1>2. \A t \in Turns : turn[t] = NewTurn /\ turn[t].pc = "new"
  BY DEF Init, NewTurn
<1>3. TurnOK
  BY <1>2, NewTurnType DEF Init, TurnOK, StreamHasPid, SpawnIds, Listening, Starting
<1>4. LockOK
  BY <1>2, SidFacts DEF Init, LockOK, Pids, Holding
<1>5. ProcOK
  <2>1. \A p \in Turns : proc[p] = NoProcess /\ proc[p].st = "none" /\ proc[p].phase = "idle"
    BY DEF Init, NoProcess
  <2>2. proc \in [Turns -> Process] /\ transcripts = {}
    BY NoProcessType DEF Init
  <2>3. QED
    BY <2>1, <2>2 DEF ProcOK, WorkHasPrompt, ProcIds, UnstartedUnused
<1>6. RestOK
  <2>1. 0 \in Versions /\ 0 \in Counts /\ None \in SidOrNone /\ Budget["toggle"] \in Nat
    BY BudgetAssumption DEF Versions, Counts, SidOrNone, Rare
  <2>2. TogglesPaid
    BY <2>1 DEF Init, TogglesPaid
  <2>3. QED
    BY <2>1, <2>2, BudgetAssumption DEF Init, RestOK
<1>7. QED
  BY <1>1, <1>3, <1>4, <1>5, <1>6 DEF Inv

\* Every step of the tab, its calls, commands and processes keeps the invariant.
LEMMA StepOK ==
    ASSUME Inv, Next
    PROVE  Inv'
<1>1. CASE \E t \in Turns : Send(t)
  BY <1>1, ReadSteps, EnterStep, RelockStep, DirtyStep, CountStep, ErrorStep, ReuseStep,
     LaunchSteps, SpawnSteps, SpawnFailSteps, PromptSteps DEF Send
<1>2. CASE \E t \in Turns : Stream(t)
  BY <1>2, InitSteps, AskSteps, ResultSteps, ExitStep DEF Stream
<1>3. CASE \E p \in Turns : Cli(p)
  BY <1>3, CliInitStep, CliTurnSteps, CliExitSteps DEF Cli
<1>4. CASE \E p \in Turns : KillAgent(p)
  BY <1>4, StopSteps
<1>5. CASE \E a \in Turns : SubmitAnswer(a) \/ SubmitApprovalFails(a)
  BY <1>5, AnswerSteps
<1>6. CASE TasksOver
  <2>1. PICK p \in Turns : TRUE
    BY <1>6 DEF TasksOver, Inv, SesOK, Session, Pids
  <2>2. QED
    BY <1>6, <2>1, AskSteps
<1>7. CASE StopAgent \/ ResetAgentSession \/ ResetClear
  BY <1>7, StopSteps
<1>8. CASE ToggleServer \/ MarkDirty
  BY <1>8, ToggleSteps
<1>9. CASE AppRestart
  BY <1>9, RestartStep
<1>10. QED
  BY <1>1, <1>2, <1>3, <1>4, <1>5, <1>6, <1>7, <1>8, <1>9 DEF Next

\* A step that changes nothing keeps it too.
LEMMA StutterOK ==
    ASSUME Inv, UNCHANGED vars
    PROVE  Inv'
BY Frames DEF Inv, vars

\* The inductive invariant holds in every reachable state, for any number of
\* messages, faults, toggles, restarts and resets, overlapping or not.
THEOREM Invariance == Spec => []Inv
<1>1. Init => Inv
  BY InitOK
<1>2. Inv /\ [Next]_vars => Inv'
  BY StepOK, StutterOK
<1>3. QED
  BY <1>1, <1>2, PTL DEF Spec

\* Every variable keeps its type, a removed entry leaves nothing behind, and the
\* write guard of AppState.agents is held exactly by a call inside it.
THEOREM TypeCorrect == Spec => []TypeOK
<1>1. Inv => TypeOK
  BY DEF Inv, TypeOK, SesOK, TurnOK, LockOK, ProcOK, RestOK
<1>2. QED
  BY <1>1, Invariance, PTL

\* active_pid is only ever the pid of the process the entry holds, so the branch
\* of send_chat_message that kills a stale process by its number is never taken.
THEOREM PidTracksProcess == Spec => []ActiveIsPersistent
<1>1. Inv => ActiveIsPersistent
  BY DEF Inv, SesOK
<1>2. QED
  BY <1>1, Invariance, PTL

\* Only a start takes a process out of "none": prompts, kills, exits, a restart of
\* the app and the CLI's own steps leave one that was never started alone.
LEMMA OnlySpawnsStart ==
    ASSUME Inv, Next, NEW p \in Turns, proc[p].st = "none",
           ~(Spawn(p) \/ SpawnRetry(p))
    PROVE  proc'[p].st = "none"
<1>1. proc \in [Turns -> Process]
  BY DEF Inv, ProcOK
<1>2. \A S : Kill(proc, S)[p].st = "none"
  BY DEF Kill
<1>3. \A t, q \in Turns : Prompted(t, q)[p].st = "none"
  BY <1>1 DEF Prompted, Process
<1>4. \A t, s, b : t # p => Launched(t, s, b)[p].st = "none"
  BY <1>1 DEF Launched
<1>5. ses.ps # None => ses.ps \in Turns
  BY DEF Inv, SesOK, Session, Pids
<1>6. UNCHANGED proc => proc'[p].st = "none"
  OBVIOUS
<1>7. CASE \E t \in Turns : Send(t)
  <2>1. PICK t \in Turns : Send(t)
    BY <1>7
  <2>2. CASE SendEnter(t) \/ SendDirty(t) \/ SendCount(t) \/ SendEnv(t)
    BY <1>2, <1>6, <2>2 DEF SendEnter, SendDirty, SendCount, SendEnv, Drift
  <2>3. CASE SendReuse(t) \/ Prompt(t)
    BY <1>3, <1>5, <2>3 DEF SendReuse, Prompt
  <2>4. CASE Spawn(t) \/ SpawnRetry(t)
    <3>1. t # p
      BY <2>4
    <3>2. PICK s, b : proc' = Launched(t, s, b)
      BY <2>4, Zenon DEF Spawn, SpawnRetry
    <3>3. QED
      BY <1>4, <3>1, <3>2
  <2>5. CASE \/ SendRead(t) \/ SendConfig(t) \/ SendRelock(t) \/ SendError(t)
             \/ SendRespawn(t) \/ SendMint(t) \/ SendFresh(t) \/ SpawnError(t)
             \/ SpawnFails(t) \/ SpawnCleared(t) \/ PromptFails(t) \/ Store(t)
    BY <1>6, <2>5 DEF SendRead, SendConfig, SendRelock, SendError, SendRespawn,
       SendMint, SendFresh, SpawnError, SpawnFails, SpawnCleared, PromptFails, Store
  <2>6. QED
    BY <2>1, <2>2, <2>3, <2>4, <2>5 DEF Send
<1>8. CASE \E t \in Turns : Stream(t)
  BY <1>2, <1>6, <1>8 DEF Stream, OnInit, InitSave, OnAsk, OnTask, OnResult,
     AuthReset, AuthClear, OnExit
<1>9. CASE \E q \in Turns : Cli(q)
  <2>1. PICK q \in Turns : Cli(q)
    BY <1>9
  <2>2. CASE CliStops(q) \/ CliCrashes(q)
    BY <1>2, <2>2 DEF CliStops, CliCrashes
  <2>3. CASE CliInit(q) \/ CliAsk(q) \/ CliReply(q) \/ CliTask(q) \/ CliResult(q)
    BY <1>1, <2>3
       DEF CliInit, CliAsk, CliReply, CliTask, CliResult, Live, Process
  <2>4. CASE ProcExited(q)
    BY <1>1, <2>4 DEF ProcExited
  <2>5. QED
    BY <2>1, <2>2, <2>3, <2>4 DEF Cli
<1>10. CASE \E q \in Turns : KillAgent(q)
  BY <1>2, <1>10 DEF KillAgent
<1>11. CASE AppRestart
  BY <1>11 DEF AppRestart
<1>12. CASE \/ \E a \in Turns : SubmitAnswer(a) \/ SubmitApprovalFails(a)
            \/ TasksOver \/ StopAgent \/ ResetAgentSession \/ ResetClear
            \/ ToggleServer \/ MarkDirty
  BY <1>6, <1>12 DEF SubmitAnswer, SubmitApprovalFails, TasksOver, StopAgent,
     ResetAgentSession, ResetClear, ToggleServer, MarkDirty
<1>13. QED
  BY <1>7, <1>8, <1>9, <1>10, <1>11, <1>12 DEF Next

\* A start without --resume is under an id drawn for it.
LEMMA FreshStartOwnId ==
    ASSUME Inv, NEW p \in Turns, Spawn(p) \/ SpawnRetry(p), ~proc'[p].resume
    PROVE  proc'[p].sid \in OwnIds(p)
<1>1. proc \in [Turns -> Process]
  BY DEF Inv, ProcOK
<1>2. \A s, b : Launched(p, s, b)[p].sid = s /\ Launched(p, s, b)[p].resume = b
  BY <1>1 DEF Launched, NoProcess
<1>3. CASE Spawn(p)
  <2>1. turn[p].pc \in Starting /\ proc' = Launched(p, turn[p].sid, turn[p].resume)
    BY <1>3 DEF Spawn, Starting
  <2>2. proc'[p].sid = turn[p].sid /\ ~turn[p].resume
    BY <1>2, <2>1
  <2>3. QED
    BY <2>1, <2>2 DEF Inv, TurnOK, SpawnIds, OwnIds
<1>4. CASE SpawnRetry(p)
  BY <1>2, <1>4 DEF SpawnRetry, RetrySid, OwnIds
<1>5. QED
  BY <1>3, <1>4

\* A CLI started without --resume never gets an id that has a transcript, so no
\* start erases a conversation, whatever calls, faults and restarts came before.
THEOREM FreshStartsFresh == Spec => FreshSidFresh
<1> DEFINE Fresh == \A p \in Turns :
        Starts(p) /\ ~proc'[p].resume => proc'[p].sid \notin transcripts
<1>1. ASSUME Inv, Next
      PROVE  Fresh
  <2> SUFFICES ASSUME NEW p \in Turns, Starts(p), ~proc'[p].resume
               PROVE  proc'[p].sid \notin transcripts
    OBVIOUS
  <2>1. Spawn(p) \/ SpawnRetry(p)
    BY <1>1, OnlySpawnsStart DEF Starts
  <2>2. proc'[p].sid \in OwnIds(p)
    BY <1>1, <2>1, FreshStartOwnId
  <2>3. OwnIds(p) \cap transcripts = {}
    BY <1>1 DEF Inv, ProcOK, UnstartedUnused, Starts
  <2>4. QED
    BY <2>2, <2>3
<1>2. Inv /\ [Next]_vars => [Fresh]_vars
  BY <1>1
<1>3. QED
  BY <1>2, Invariance, PTL DEF Spec, FreshSidFresh
-----------------------------------------------------------------------------
\* The configuration a process runs with.

\* A process of the tab has the rows of version n or newer, unless it is on its way
\* out or the toggle missed it.
AsNew(p, n) == Live(p) /\ p \notin kills /\ p \notin mcp.missed => proc[p].cfg >= n

\* The toggle has marked the entry of every process that is too old.
EntryCurrent == ses.ps # None => ses.dirty \/ AsNew(ses.ps, mcp.marked)

\* A call past the check of the mark, and one whose process is the tab's.
Checked == {"torn", "clean", "flagDrift", "counted", "envDrift", "ready"}
Follows == {"streaming", "saving"}

\* What a call relies on from reading the rows to the end of its turn: the rows it
\* has read, the process it starts with them, and the process it takes over.
CallCurrent(t) ==
    /\ turn[t].due <= mcp.marked
    /\ t \in Window => t \in mcp.missed \/ turn[t].cfg >= mcp.marked
    /\ turn[t].pc \in {"spawned", "prompted"} /\ Live(t) => proc[t].cfg = turn[t].cfg
    /\ At(t, "prompted") => turn[t].pid = t
    /\ turn[t].pc \in Checked /\ ses.ps # None =>
          turn[t].deferred \/ AsNew(ses.ps, turn[t].due)
    /\ turn[t].pc \in Follows => turn[t].deferred \/ AsNew(turn[t].pid, turn[t].due)

Current == mcp.marked <= mcp.version /\ EntryCurrent /\ \A t \in Turns : CallCurrent(t)

\* Every step but a start leaves a process as it is, or takes it out of "live".
Ages(p) ==
    /\ proc'[p].st = "live" => Live(p) /\ proc'[p].cfg = proc[p].cfg
    /\ proc'[p].st = "live" /\ p \in kills => p \in kills'
LEMMA ProcessAges ==
    ASSUME Inv, Next, NEW p \in Turns, ~(Spawn(p) \/ SpawnRetry(p))
    PROVE  Ages(p)
<1>1. proc \in [Turns -> Process]
  BY DEF Inv, ProcOK
<1>2. ASSUME NEW S, proc' = Kill(proc, S), kills \subseteq kills' \cup S
      PROVE  Ages(p)
  <2>1. proc'[p] = IF p \in S /\ proc[p].st = "live"
                   THEN [proc[p] EXCEPT !.st = "killed"] ELSE proc[p]
    BY <1>2 DEF Kill
  <2>2. proc[p] \in Process
    BY <1>1
  <2>3. QED
    BY <1>2, <2>1, <2>2 DEF Ages, Live, Process
<1>3. ASSUME NEW t \in Turns, NEW q \in Turns, proc' = Prompted(t, q), UNCHANGED kills
      PROVE  Ages(p)
  BY <1>1, <1>3 DEF Prompted, Ages, Live, Process
<1>4. ASSUME UNCHANGED proc, kills \subseteq kills'
      PROVE  Ages(p)
  BY <1>4 DEF Ages, Live
<1>5. ses.ps # None => ses.ps \in Turns
  BY DEF Inv, SesOK, Session, Pids
<1>6. ASSUME NEW t \in Turns, Send(t)
      PROVE  Ages(p)
  <2>1. CASE SendEnter(t) \/ SendDirty(t) \/ SendCount(t) \/ SendEnv(t)
    BY <1>2, <1>4, <2>1 DEF SendEnter, SendDirty, SendCount, SendEnv, Drift
  <2>2. CASE SendReuse(t) \/ Prompt(t)
    BY <1>3, <1>5, <2>2 DEF SendReuse, Prompt
  <2>3. CASE Spawn(t) \/ SpawnRetry(t)
    <3>1. t # p
      BY <2>3
    <3>2. PICK s, b : proc' = Launched(t, s, b)
      BY <2>3, Zenon DEF Spawn, SpawnRetry
    <3>3. proc'[p] = proc[p]
      BY <1>1, <3>1, <3>2 DEF Launched
    <3>4. UNCHANGED kills
      BY <2>3 DEF Spawn, SpawnRetry
    <3>5. QED
      BY <3>3, <3>4 DEF Ages, Live
  <2>4. CASE \/ SendRead(t) \/ SendConfig(t) \/ SendRelock(t) \/ SendError(t)
             \/ SendRespawn(t) \/ SendMint(t) \/ SendFresh(t) \/ SpawnError(t)
             \/ SpawnFails(t) \/ SpawnCleared(t) \/ PromptFails(t) \/ Store(t)
    BY <1>4, <2>4 DEF SendRead, SendConfig, SendRelock, SendError, SendRespawn,
       SendMint, SendFresh, SpawnError, SpawnFails, SpawnCleared, PromptFails, Store
  <2>5. QED
    BY <1>6, <2>1, <2>2, <2>3, <2>4 DEF Send
<1>7. ASSUME NEW t \in Turns, Stream(t)
      PROVE  Ages(p)
  BY <1>2, <1>4, <1>7 DEF Stream, OnInit, InitSave, OnAsk, OnTask, OnResult,
     AuthReset, AuthClear, OnExit
<1>8. ASSUME NEW q \in Turns, Cli(q)
      PROVE  Ages(p)
  <2>1. CASE CliStops(q) \/ CliCrashes(q)
    BY <1>2, <2>1 DEF CliStops, CliCrashes, CliOnly
  <2>2. CASE CliInit(q) \/ CliAsk(q) \/ CliReply(q) \/ CliTask(q) \/ CliResult(q)
    <3>1. UNCHANGED kills
      BY <2>2, Zenon DEF CliInit, CliAsk, CliReply, CliTask, CliResult, CliOnly
    <3>2. proc'[p].st = proc[p].st /\ proc'[p].cfg = proc[p].cfg
      <4>1. CASE CliInit(q)
        BY <1>1, <4>1 DEF CliInit, Process
      <4>2. CASE CliAsk(q)
        BY <1>1, <4>2 DEF CliAsk, Process
      <4>3. CASE CliReply(q)
        BY <1>1, <4>3 DEF CliReply, Process
      <4>4. CASE CliTask(q)
        BY <1>1, <4>4 DEF CliTask, Process
      <4>5. CASE CliResult(q)
        BY <1>1, <4>5 DEF CliResult, Process
      <4>6. QED
        BY <2>2, <4>1, <4>2, <4>3, <4>4, <4>5
    <3>3. QED
      BY <3>1, <3>2 DEF Ages, Live
  <2>3. CASE ProcExited(q)
    <3>1. proc'[p].st = "live" => q # p
      BY <1>1, <2>3 DEF ProcExited, Gone, NoProcess
    <3>2. QED
      BY <1>1, <2>3, <3>1 DEF ProcExited, CliOnly, Ages, Live
  <2>4. QED
    BY <1>8, <2>1, <2>2, <2>3 DEF Cli
<1>9. ASSUME NEW q \in Turns, KillAgent(q)
      PROVE  Ages(p)
  BY <1>2, <1>9 DEF KillAgent
<1>10. ASSUME AppRestart
       PROVE  Ages(p)
  BY <1>10 DEF AppRestart, Ages, Gone, NoProcess
<1>11. ASSUME \/ \E a \in Turns : SubmitAnswer(a) \/ SubmitApprovalFails(a)
              \/ TasksOver \/ StopAgent \/ ResetAgentSession \/ ResetClear
              \/ ToggleServer \/ MarkDirty
       PROVE  Ages(p)
  BY <1>4, <1>11 DEF SubmitAnswer, SubmitApprovalFails, TasksOver, StopAgent,
     ResetAgentSession, ResetClear, ToggleServer, MarkDirty
<1>12. QED
  BY <1>6, <1>7, <1>8, <1>9, <1>10, <1>11 DEF Next

\* The steps that change the rows' versions: the toggle's two halves and a restart.
LEMMA VersionSteps ==
    ASSUME Inv, Next, mcp.marked <= mcp.version
    PROVE  /\ mcp'.marked >= mcp.marked /\ mcp'.marked <= mcp'.version
           /\ mcp.missed \subseteq mcp'.missed
           /\ mcp'.marked # mcp.marked => MarkDirty \/ AppRestart
<1>1. mcp \in [version: Versions, marked: Versions, missed: SUBSET Turns]
  BY DEF Inv, RestOK
<1>2. mcp.version \in Nat /\ mcp.marked \in Nat
  BY <1>1, BudgetAssumption DEF Versions, Rare
<1>3. CASE ToggleServer \/ MarkDirty \/ AppRestart
  <2>1. CASE ToggleServer
    BY <1>1, <1>2, <2>1 DEF ToggleServer
  <2>2. CASE MarkDirty
    BY <1>1, <1>2, <2>2 DEF MarkDirty
  <2>3. CASE AppRestart
    BY <1>1, <1>2, <2>3 DEF AppRestart
  <2>4. QED
    BY <1>3, <2>1, <2>2, <2>3
<1>4. CASE UNCHANGED mcp
  BY <1>1, <1>2, <1>4
<1>5. ASSUME NEW t \in Turns, Send(t) \/ Stream(t)
      PROVE  UNCHANGED mcp
  BY <1>5, Zenon DEF Send, Stream, SendRead, SendConfig, SendEnter, SendRelock, SendDirty,
     SendCount, SendEnv, SendError, SendReuse, SendRespawn, SendMint, SendFresh,
     Spawn, SpawnRetry, SpawnError, SpawnFails, SpawnCleared, Prompt, PromptFails,
     Store, OnInit, InitSave, OnAsk, OnTask, OnResult, AuthReset, AuthClear, OnExit
<1>6. ASSUME NEW t \in Turns, Cli(t) \/ KillAgent(t)
      PROVE  UNCHANGED mcp
  BY <1>6, Zenon DEF Cli, CliOnly, CliInit, CliAsk, CliReply, CliTask, CliResult, CliStops,
     CliCrashes, ProcExited, KillAgent
<1>7. ASSUME \/ \E a \in Turns : SubmitAnswer(a) \/ SubmitApprovalFails(a)
             \/ TasksOver \/ StopAgent \/ ResetAgentSession \/ ResetClear
      PROVE  UNCHANGED mcp
  BY <1>7, Zenon DEF SubmitAnswer, SubmitApprovalFails, TasksOver, StopAgent,
     ResetAgentSession, ResetClear
<1>8. QED
  BY <1>3, <1>4, <1>5, <1>6, <1>7, Zenon DEF Next

\* A process that is as new as the marked rows stays it, one being started too.
LEMMA StaysNew ==
    ASSUME Inv, Current, Next, NEW p \in Turns, NEW n \in Nat, n <= mcp.marked,
           AsNew(p, n)
    PROVE  proc'[p].st = "live" /\ p \notin kills' /\ p \notin mcp'.missed
               => proc'[p].cfg >= n
<1>1. mcp.missed \subseteq mcp'.missed
  BY VersionSteps DEF Current
<1>2. ASSUME ~(Spawn(p) \/ SpawnRetry(p)), proc'[p].st = "live", p \notin kills',
             p \notin mcp'.missed
      PROVE  proc'[p].cfg >= n
  BY <1>1, <1>2, ProcessAges DEF Ages, AsNew
<1>3. ASSUME Spawn(p) \/ SpawnRetry(p), p \notin mcp'.missed
      PROVE  proc'[p].cfg >= n
  <2>1. PICK s, b : proc' = Launched(p, s, b)
    BY <1>3, Zenon DEF Spawn, SpawnRetry
  <2>2. proc'[p].cfg = turn[p].cfg
    BY <2>1 DEF Launched, NoProcess, Inv, ProcOK
  <2>3. p \in Window
    BY <1>3 DEF Spawn, SpawnRetry, Window, Between
  <2>4. turn[p].cfg >= mcp.marked
    BY <1>1, <1>3, <2>3 DEF Current, CallCurrent
  <2>5. turn[p].cfg \in Nat /\ mcp.marked \in Nat
    BY BudgetAssumption DEF Inv, TurnOK, TurnState, RestOK, Versions, Rare
  <2>6. QED
    BY <2>2, <2>4, <2>5
<1>4. QED
  BY <1>2, <1>3

\* What a step does to the process of the entry: nothing, it goes, or a call stores
\* its own. The mark only goes with the process.
LEMMA EntrySteps ==
    ASSUME Inv, Next
    PROVE  \/ ses'.ps = None
           \/ ses'.ps = ses.ps /\ (ses.dirty => ses'.dirty)
           \/ \E t \in Turns : Store(t) /\ ses'.ps = t
<1> DEFINE Keeps == ses'.ps = ses.ps /\ (ses.dirty => ses'.dirty)
<1>1. ses \in Session /\ (~ses.on => ses = NoSession)
  BY DEF Inv, SesOK
<1>2. UNCHANGED ses => Keeps
  OBVIOUS
<1>3. ASSUME NEW t \in Turns, Send(t)
      PROVE  ses'.ps = None \/ Keeps \/ (Store(t) /\ ses'.ps = t)
  <2>1. CASE SendEnter(t)
    <3>1. ses'.ps = Entry(t).ps /\ ses'.dirty = Entry(t).dirty
      <4>1. Entry(t) \in Session
        BY EntryOK DEF Inv
      <4>2. QED
        BY <2>1, <4>1 DEF SendEnter, Drained, Session
    <3>2. Entry(t) = ses \/ Entry(t).ps = None
      BY DEF Entry, NoSession
    <3>3. QED
      BY <3>1, <3>2
  <2>2. CASE SendDirty(t)
    BY <1>1, <2>2 DEF SendDirty, Torn, Session
  <2>3. CASE SendCount(t) \/ SendEnv(t)
    BY <1>1, <2>3 DEF SendCount, SendEnv, Drift, Torn, Counted, Session
  <2>4. CASE Store(t)
    BY <1>1, <2>4 DEF Store, Session
  <2>5. CASE SendRelock(t) \/ SendReuse(t) \/ SendRespawn(t) \/ SendMint(t)
             \/ SendFresh(t) \/ SpawnCleared(t)
    BY <1>1, <2>5 DEF SendRelock, SendReuse, SendRespawn, SendMint, SendFresh,
       SpawnCleared, Session
  <2>6. CASE \/ SendRead(t) \/ SendConfig(t) \/ SendError(t) \/ Spawn(t)
             \/ SpawnRetry(t) \/ SpawnError(t) \/ SpawnFails(t) \/ Prompt(t)
             \/ PromptFails(t)
    BY <1>2, <2>6, Zenon DEF SendRead, SendConfig, SendError, Spawn, SpawnRetry, SpawnError,
       SpawnFails, Prompt, PromptFails
  <2>7. QED
    BY <1>3, <2>1, <2>2, <2>3, <2>4, <2>5, <2>6 DEF Send
<1>4. ASSUME NEW t \in Turns, Stream(t)
      PROVE  ses'.ps = None \/ Keeps
  <2>1. CASE OnInit(t) \/ OnAsk(t) \/ OnTask(t) \/ OnResult(t)
    BY <1>1, <2>1 DEF OnInit, OnAsk, OnTask, OnResult, Session
  <2>2. CASE InitSave(t) \/ AuthClear(t)
    BY <2>2 DEF InitSave, AuthClear
  <2>3. CASE AuthReset(t) \/ OnExit(t)
    <3>1. CASE AuthReset(t)
      BY <1>1, <3>1 DEF AuthReset, Session
    <3>2. CASE OnExit(t)
      <4>1. ses' = NoSession \/ ses' = Exited(ses) \/ ses' = ses
        BY <3>2, Zenon DEF OnExit
      <4>2. NoSession.ps = None
        BY DEF NoSession
      <4>3. Exited(ses).ps = None
        BY <1>1 DEF Exited, Session
      <4>4. QED
        BY <4>1, <4>2, <4>3
    <3>3. QED
      BY <2>3, <3>1, <3>2
  <2>4. QED
    BY <1>4, <2>1, <2>2, <2>3 DEF Stream
<1>5. ASSUME NEW q \in Turns, Cli(q) \/ KillAgent(q)
      PROVE  Keeps
  BY <1>5 DEF Cli, CliOnly, CliInit, CliAsk, CliReply, CliTask, CliResult,
     CliStops, CliCrashes, ProcExited, KillAgent
<1>6. ASSUME \/ \E a \in Turns : SubmitAnswer(a) \/ SubmitApprovalFails(a)
             \/ TasksOver \/ StopAgent \/ ResetClear \/ ToggleServer \/ MarkDirty
      PROVE  Keeps
  BY <1>1, <1>6 DEF SubmitAnswer, SubmitApprovalFails, Answered, TasksOver, StopAgent,
     Drained, ResetClear, ToggleServer, MarkDirty, Session
<1>7. ASSUME ResetAgentSession \/ AppRestart
      PROVE  ses'.ps = None
  BY <1>7 DEF ResetAgentSession, AppRestart, Removed, NoSession
<1>8. QED
  BY <1>3, <1>4, <1>5, <1>6, <1>7 DEF Next

\* The entry's process stays new enough, or the entry is marked.
LEMMA EntryStays ==
    ASSUME Inv, Current, Next, Inv'
    PROVE  EntryCurrent'
<1>1. mcp.marked \in Nat /\ mcp'.marked \in Nat
  BY BudgetAssumption DEF Inv, RestOK, Versions, Rare
<1>2. ses.ps # None => ses.ps \in Turns
  BY DEF Inv, SesOK, Session, Pids
<1>3. CASE ses'.ps = None
  BY <1>3 DEF EntryCurrent
<1>4. CASE MarkDirty /\ ses'.ps # None
  BY <1>4 DEF MarkDirty, EntryCurrent, Inv, SesOK, Session, NoSession
<1>5. CASE AppRestart
  BY <1>5 DEF AppRestart, EntryCurrent, NoSession
<1>6. CASE ses'.ps # None /\ mcp'.marked = mcp.marked /\ ses'.ps = ses.ps
           /\ (ses.dirty => ses'.dirty)
  <2>1. ses.dirty \/ AsNew(ses.ps, mcp.marked)
    BY <1>6 DEF Current, EntryCurrent
  <2>2. PICK p \in Turns : p = ses.ps
    BY <1>2, <1>6
  <2>3. AsNew(p, mcp.marked) =>
            (proc'[p].st = "live" /\ p \notin kills' /\ p \notin mcp'.missed
               => proc'[p].cfg >= mcp.marked)
    BY <1>1, StaysNew
  <2>4. QED
    BY <1>6, <2>1, <2>2, <2>3 DEF EntryCurrent, AsNew, Live
<1>7. ASSUME NEW t \in Turns, Store(t), ses'.ps = t, mcp'.marked = mcp.marked
      PROVE  EntryCurrent'
  <2>1. t \in Window /\ At(t, "prompted") /\ UNCHANGED <<mcp, proc>>
    BY <1>7 DEF Store, Window, Between, At
  <2>2. t \in mcp.missed \/ turn[t].cfg >= mcp.marked
    BY <2>1 DEF Current, CallCurrent
  <2>3. Live(t) => proc[t].cfg = turn[t].cfg
    BY <2>1 DEF Current, CallCurrent, At
  <2>4. QED
    BY <1>7, <2>1, <2>2, <2>3 DEF EntryCurrent, AsNew, Live
<1>8. QED
  BY <1>3, <1>4, <1>5, <1>6, <1>7, EntrySteps, VersionSteps DEF Current

\* A step of one call leaves the others alone.
LEMMA OthersKeep ==
    ASSUME Inv, NEW t \in Turns, Send(t) \/ Stream(t), NEW u \in Turns, u # t
    PROVE  turn'[u] = turn[u]
<1>1. turn \in [Turns -> TurnState]
  BY DEF Inv, TurnOK
<1>2. CASE Send(t)
  BY <1>1, <1>2 DEF Send, SendRead, SendConfig, SendEnter, SendRelock, SendDirty,
     SendCount, SendEnv, Drift, SendError, SendReuse, SendRespawn, SendMint, SendFresh,
     Spawn, SpawnRetry, SpawnError, SpawnFails, SpawnCleared, Prompt, PromptFails,
     Store, Goto, Failed, Launching, Subscribed
<1>3. CASE Stream(t)
  BY <1>1, <1>3 DEF Stream, OnInit, InitSave, OnAsk, OnTask, OnResult, AuthReset,
     AuthClear, OnExit, Goto, Done, Popped
<1>4. QED
  BY <1>2, <1>3

\* How the call of a tab moves: it ends, it goes on with what it knows, or it takes
\* one of the steps that read the rows, check the mark or take a process over.
Kept(t) ==
    /\ turn'[t].due = turn[t].due /\ turn'[t].cfg = turn[t].cfg
    /\ turn'[t].pid = turn[t].pid /\ turn'[t].deferred = turn[t].deferred
Unbound == {"configured", "entered", "drained", "stale", "respawn", "minted",
            "spawning", "clearing"}
Goes(from, to) ==
    \/ to = from
    \/ from \in Unbound \cup Checked /\ to \in Unbound
    \/ from \in Checked /\ to \in Checked
    \/ from \in Follows /\ to \in Follows \cup {"auth"}
    \/ to = "authClear"
Ended(t) == turn'[t] = Over("done") \/ turn'[t] = Over("failed")
Decides(t) ==
    \/ SendRead(t) \/ SendConfig(t) \/ SendDirty(t) \/ SendReuse(t)
    \/ Spawn(t) \/ SpawnRetry(t) \/ Prompt(t) \/ Store(t)

\* A step leaves a call where it was, moves it along its path with what it knows kept,
\* ends it, or is one of the few that read or write what Current is about.
LEMMA CallMoves ==
    ASSUME Inv, Next, NEW u \in Turns
    PROVE  Ended(u) \/ Decides(u) \/ (Kept(u) /\ Goes(turn[u].pc, turn'[u].pc))
<1> DEFINE Moves == Ended(u) \/ Decides(u) \/ (Kept(u) /\ Goes(turn[u].pc, turn'[u].pc))
<1>1. turn \in [Turns -> TurnState]
  BY DEF Inv, TurnOK
<1>2. turn[u] \in TurnState
  BY <1>1
<1>3. turn'[u] = turn[u] => Moves
  BY DEF Kept, Goes
<1>4. ASSUME NEW p \in Turns, NEW e, turn' = Broadcast(p, e)
      PROVE  Moves
  <2>1. turn'[u] = IF turn[u].sub # p THEN turn[u]
                   ELSE [turn[u] EXCEPT !.inbox = Append(@, e),
                                        !.sub = IF e.kind \in Ends THEN None ELSE @]
    BY <1>4 DEF Broadcast
  <2>2. QED
    BY <1>2, <2>1 DEF Kept, Goes, TurnState
<1>5. ASSUME NEW t \in Turns, t # u, Send(t) \/ Stream(t)
      PROVE  turn'[u] = turn[u]
  BY <1>5, OthersKeep
<1>6. ASSUME Send(u)
      PROVE  Moves
  <2>1. ASSUME NEW pc, turn' = [turn EXCEPT ![u].pc = pc], Goes(turn[u].pc, pc)
        PROVE  Moves
    BY <1>1, <1>2, <2>1 DEF Kept, TurnState
  <2>2. turn' = Failed(u) => Moves
    BY <1>1 DEF Failed, Ended
  <2>3. CASE Decides(u)
    BY <2>3
  <2>4. CASE SendEnter(u)
    <3>1. PICK pc \in {"stale", "drained", "entered"} :
              turn' = [turn EXCEPT ![u].pc = pc] /\ turn[u].pc = "configured"
      BY <2>4 DEF SendEnter, Goto, At
    <3>2. QED
      BY <2>1, <3>1 DEF Goes, Unbound
  <2>5. CASE SendRelock(u)
    <3>1. CASE ses.on
      <4>1. turn' = [turn EXCEPT ![u].pc = Resumes[turn[u].pc]]
            /\ turn[u].pc \in Released
        BY <2>5, <3>1 DEF SendRelock, Goto
      <4>2. Goes(turn[u].pc, Resumes[turn[u].pc])
        BY <4>1 DEF Goes, Resumes, Released, Unbound, Checked
      <4>3. QED
        BY <2>1, <4>1, <4>2
    <3>2. QED
      BY <2>2, <2>5, <3>1 DEF SendRelock
  <2>6. CASE SendCount(u) \/ SendEnv(u)
    <3>1. PICK pc \in Checked :
              turn' = [turn EXCEPT ![u].pc = pc] /\ turn[u].pc \in Checked
      BY <2>6 DEF SendCount, SendEnv, Drift, Goto, At, Checked
    <3>2. QED
      BY <2>1, <3>1 DEF Goes
  <2>7. CASE SendError(u) \/ SpawnError(u) \/ SpawnCleared(u) \/ PromptFails(u)
    BY <2>2, <2>7 DEF SendError, SpawnError, SpawnCleared, PromptFails
  <2>8. CASE SendRespawn(u) \/ SendFresh(u)
    <3>1. PICK pc \in {"respawn", "spawning"} : turn' = Launching(u, pc)
      BY <2>8 DEF SendRespawn, SendFresh
    <3>2. turn[u].pc = "ready"
      BY <2>8 DEF SendRespawn, SendFresh, At
    <3>3. Kept(u) /\ turn'[u].pc = pc
      BY <1>1, <1>2, <3>1 DEF Launching, Kept, TurnState
    <3>4. QED
      BY <3>1, <3>2, <3>3 DEF Goes, Unbound, Checked
  <2>9. CASE SendMint(u) \/ SpawnFails(u)
    <3>1. PICK pc \in {"minted", "clearing"} :
              turn' = [turn EXCEPT ![u].pc = pc] /\ turn[u].pc \in Unbound
      BY <2>9 DEF SendMint, SpawnFails, Goto, At, Unbound
    <3>2. QED
      BY <2>1, <3>1 DEF Goes, Unbound
  <2>10. QED
    BY <1>6, <2>3, <2>4, <2>5, <2>6, <2>7, <2>8, <2>9 DEF Send, Decides
<1>7. ASSUME Stream(u)
      PROVE  Moves
  <2>1. turn' = Done(u) => Moves
    BY <1>1 DEF Done, Ended
  <2>2. ASSUME NEW pc, Kept(u), turn'[u].pc = pc, turn[u].pc \in Follows,
               pc \in Follows \cup {"auth"}
        PROVE  Moves
    BY <2>2 DEF Goes
  <2>3. CASE OnInit(u)
    <3>1. PICK pc \in Follows : \E n :
              turn' = [Popped(u, pc) EXCEPT ![u].init = TRUE, ![u].save = n]
      BY <2>3 DEF OnInit, Follows
    <3>2. Kept(u) /\ turn'[u].pc = pc
      BY <1>1, <1>2, <3>1 DEF Popped, Kept, TurnState
    <3>3. QED
      BY <2>2, <2>3, <3>2 DEF OnInit, Arrived, At, Follows
  <2>4. CASE OnAsk(u) \/ OnTask(u) \/ InitSave(u)
    BY <1>1, <1>2, <2>2, <2>4 DEF OnAsk, OnTask, InitSave, Arrived, At, Popped, Goto,
       Kept, Follows, TurnState
  <2>5. CASE OnResult(u)
    <3>1. CASE turn' = Popped(u, "auth")
      BY <1>1, <1>2, <2>2, <2>5, <3>1 DEF OnResult, Arrived, At, Popped, Kept, Follows,
         TurnState
    <3>2. QED
      BY <2>1, <2>5, <3>1 DEF OnResult
  <2>6. CASE AuthReset(u)
    <3>1. CASE turn' = [turn EXCEPT ![u].pc = "authClear"]
      BY <1>1, <1>2, <3>1 DEF Kept, Goes, TurnState
    <3>2. QED
      BY <2>1, <2>6, <3>1 DEF AuthReset
  <2>7. CASE AuthClear(u) \/ OnExit(u)
    BY <2>1, <2>7 DEF AuthClear, OnExit
  <2>8. QED
    BY <1>7, <2>3, <2>4, <2>5, <2>6, <2>7 DEF Stream
<1>8. ASSUME NEW q \in Turns, Cli(q) \/ KillAgent(q)
      PROVE  Moves
  <2>1. CASE CliReply(q) \/ CliStops(q) \/ CliCrashes(q) \/ KillAgent(q)
    BY <1>3, <2>1 DEF CliReply, CliStops, CliCrashes, CliOnly, KillAgent
  <2>2. CASE CliInit(q) \/ CliAsk(q) \/ CliTask(q) \/ CliResult(q) \/ ProcExited(q)
    BY <1>4, <2>2 DEF CliInit, CliAsk, CliTask, CliResult, ProcExited
  <2>3. QED
    BY <1>8, <2>1, <2>2 DEF Cli
<1>9. ASSUME AppRestart
      PROVE  Moves
  BY <1>3, <1>9 DEF AppRestart, Ended
<1>10. ASSUME \/ \E a \in Turns : SubmitAnswer(a) \/ SubmitApprovalFails(a)
              \/ TasksOver \/ StopAgent \/ ResetAgentSession \/ ResetClear
              \/ ToggleServer \/ MarkDirty
       PROVE  Moves
  BY <1>3, <1>10 DEF SubmitAnswer, SubmitApprovalFails, TasksOver, StopAgent,
     ResetAgentSession, ResetClear, ToggleServer, MarkDirty
<1>11. QED
  BY <1>3, <1>5, <1>6, <1>7, <1>8, <1>9, <1>10 DEF Next

\* What a call relies on still holds after a step that does not decide anything, and
\* after its own decisions: it reads the mark, checks it, and stores or takes over a
\* process that the check has found new enough.
LEMMA CallStays ==
    ASSUME Inv, Current, Next, Inv', NEW u \in Turns
    PROVE  CallCurrent(u)'
<1>1. /\ turn \in [Turns -> TurnState] /\ turn' \in [Turns -> TurnState]
      /\ turn[u] \in TurnState /\ turn'[u] \in TurnState
  BY DEF Inv, TurnOK
<1>2. /\ mcp.marked \in Nat /\ mcp'.marked \in Nat /\ mcp.version \in Nat
      /\ turn[u].due \in Nat /\ turn'[u].due \in Nat
      /\ turn[u].cfg \in Nat /\ turn'[u].cfg \in Nat
  BY <1>1, BudgetAssumption DEF Inv, RestOK, TurnState, Versions, Rare
<1>3. CallCurrent(u)
  BY DEF Current
<1>4. /\ mcp'.marked >= mcp.marked /\ mcp.missed \subseteq mcp'.missed
      /\ mcp'.marked # mcp.marked => MarkDirty \/ AppRestart
  BY VersionSteps DEF Current
<1>5. \A p \in Turns : AsNew(p, turn[u].due) =>
          (proc'[p].st = "live" /\ p \notin kills' /\ p \notin mcp'.missed
              => proc'[p].cfg >= turn[u].due)
  BY <1>2, <1>3, StaysNew DEF CallCurrent
<1>6. ses.ps \in Turns \cup {None} /\ turn[u].pid \in Turns \cup {None}
  BY <1>1 DEF Inv, SesOK, Session, Pids, TurnState
<1>7. CASE Ended(u)
  BY <1>2, <1>7, NoneAssumption
     DEF Ended, Over, NewTurn, CallCurrent, At, Window, Between, Checked, Follows
<1>8. CASE MarkDirty
  <2>1. ses'.ps = ses.ps /\ UNCHANGED <<turn, proc, kills>>
    BY <1>8 DEF MarkDirty, Inv, SesOK, Session
  <2>2. u \in Window => u \in mcp'.missed
    BY <1>8 DEF MarkDirty, Inv, RestOK
  <2>3. QED
    BY <1>2, <1>3, <1>4, <2>1, <2>2 DEF CallCurrent, At, Window, AsNew, Live
<1>9. CASE AppRestart
  <2>1. \/ turn'[u] = turn[u] /\ turn[u].pc \in {"new", "done", "failed"}
        \/ Ended(u)
    BY <1>9 DEF AppRestart, Ended
  <2>2. QED
    BY <1>2, <1>3, <1>4, <1>7, <2>1
       DEF CallCurrent, At, Window, Between, Checked, Follows
<1>10. ASSUME mcp'.marked = mcp.marked, Kept(u), Goes(turn[u].pc, turn'[u].pc)
       PROVE  CallCurrent(u)'
  <2>1. turn'[u].due <= mcp'.marked
    BY <1>3, <1>10 DEF CallCurrent, Kept
  <2>2. u \in Window' => u \in mcp'.missed \/ turn'[u].cfg >= mcp'.marked
    <3>1. u \in Window' => u \in Window
      BY <1>10 DEF Goes, Window, Between, Unbound, Checked, Follows
    <3>2. QED
      BY <1>3, <1>4, <1>10, <3>1 DEF CallCurrent, Kept
  <2>3. turn'[u].pc \in {"spawned", "prompted"} => turn[u].pc = turn'[u].pc
    BY <1>10 DEF Goes, Unbound, Checked, Follows
  <2>4. turn'[u].pc \in {"spawned", "prompted"} /\ proc'[u].st = "live" =>
            proc'[u].cfg = turn'[u].cfg
    <3>1. SUFFICES ASSUME turn'[u].pc \in {"spawned", "prompted"}, proc'[u].st = "live"
                   PROVE  proc'[u].cfg = turn'[u].cfg
      OBVIOUS
    <3>2. ~(Spawn(u) \/ SpawnRetry(u))
      BY <2>3, <3>1 DEF Spawn, SpawnRetry
    <3>3. Ages(u)
      BY <3>2, ProcessAges
    <3>4. QED
      BY <1>3, <1>10, <2>3, <3>1, <3>3 DEF CallCurrent, Kept, Ages
  <2>5. turn'[u].pc = "prompted" => turn'[u].pid = u
    BY <1>3, <1>10, <2>3 DEF CallCurrent, Kept, At
  <2>6. turn'[u].pc \in Checked /\ ses'.ps # None =>
            turn'[u].deferred \/ (proc'[ses'.ps].st = "live" /\ ses'.ps \notin kills'
                /\ ses'.ps \notin mcp'.missed => proc'[ses'.ps].cfg >= turn'[u].due)
    <3>1. SUFFICES ASSUME turn'[u].pc \in Checked, ses'.ps # None, ~turn'[u].deferred
                   PROVE  proc'[ses'.ps].st = "live" /\ ses'.ps \notin kills'
                          /\ ses'.ps \notin mcp'.missed
                              => proc'[ses'.ps].cfg >= turn'[u].due
      OBVIOUS
    <3>2. turn[u].pc \in Checked
      BY <1>10, <3>1 DEF Goes, Unbound, Checked, Follows
    <3>3. CASE ses'.ps = ses.ps
      <4>1. AsNew(ses.ps, turn[u].due)
        BY <1>3, <1>10, <3>1, <3>2, <3>3 DEF CallCurrent, Kept
      <4>2. QED
        BY <1>5, <1>6, <1>10, <3>1, <3>3, <4>1 DEF Kept
    <3>4. ASSUME NEW t \in Turns, Store(t), ses'.ps = t
          PROVE  proc'[t].st = "live" /\ t \notin kills' /\ t \notin mcp'.missed
                     => proc'[t].cfg >= turn'[u].due
      <4>1. t \in Window /\ At(t, "prompted") /\ UNCHANGED <<mcp, proc>>
        BY <3>4 DEF Store, Window, Between, At
      <4>2. t \in mcp.missed \/ turn[t].cfg >= mcp.marked
        BY <4>1 DEF Current, CallCurrent
      <4>3. Live(t) => proc[t].cfg = turn[t].cfg
        BY <4>1 DEF Current, CallCurrent, At
      <4>4. turn[t].cfg \in Nat
        BY <1>1, BudgetAssumption DEF TurnState, Versions, Rare
      <4>5. QED
        BY <1>2, <1>10, <2>1, <4>1, <4>2, <4>3, <4>4 DEF Live
    <3>5. QED
      BY <3>1, <3>3, <3>4, EntrySteps
  <2>7. turn'[u].pc \in Follows =>
            turn'[u].deferred \/ (proc'[turn'[u].pid].st = "live"
                /\ turn'[u].pid \notin kills' /\ turn'[u].pid \notin mcp'.missed
                    => proc'[turn'[u].pid].cfg >= turn'[u].due)
    <3>1. turn'[u].pc \in Follows => turn[u].pc \in Follows
      BY <1>10 DEF Goes, Unbound, Checked, Follows
    <3>2. turn[u].pc \in Follows => turn[u].pid \in Turns
      BY <1>6 DEF Inv, TurnOK, StreamHasPid, Listening, Follows
    <3>3. QED
      BY <1>3, <1>5, <1>10, <3>1, <3>2 DEF CallCurrent, Kept
  <2>8. QED
    BY <2>1, <2>2, <2>4, <2>5, <2>6, <2>7 DEF CallCurrent, At, AsNew, Live
<1>11. CASE Decides(u)
  <2>1. CASE SendRead(u)
    BY <1>1, <1>2, <2>1 DEF SendRead, CallCurrent, At, Window, Checked, Follows
  <2>2. CASE SendConfig(u)
    BY <1>1, <1>2, <1>3, <2>2 DEF SendConfig, Current, CallCurrent, At, Window,
       Checked, Follows
  <2>3. CASE SendDirty(u)
    <3>1. At(u, "entered") /\ UNCHANGED <<mcp, kills>> /\ u \in Window
      BY <2>3 DEF SendDirty, At, Window, Between
    <3>2. PICK pc \in {"torn", "clean"} :
              turn' = [turn EXCEPT ![u].pc = pc,
                         ![u].deferred = ses.dirty /\ ShouldDefer(ses)]
      BY <2>3 DEF SendDirty
    <3>3. turn'[u].pc = pc /\ turn'[u].due = turn[u].due /\ turn'[u].cfg = turn[u].cfg
          /\ turn'[u].deferred = (ses.dirty /\ ShouldDefer(ses))
      BY <1>1, <3>2 DEF TurnState
    <3>4. ses'.ps # None => ses'.ps = ses.ps /\ (ses.dirty => ShouldDefer(ses))
      BY <2>3 DEF SendDirty, Torn, Inv, SesOK, Session
    <3>5. ses.ps # None /\ ~ses.dirty => AsNew(ses.ps, turn[u].due)
      <4>1. ses.ps # None /\ ~ses.dirty => AsNew(ses.ps, mcp.marked)
        BY DEF Current, EntryCurrent
      <4>2. ses.ps # None => proc[ses.ps].cfg \in Nat
        BY <1>6, BudgetAssumption DEF Inv, ProcOK, Process, Versions, Rare
      <4>3. QED
        BY <1>2, <1>3, <4>1, <4>2 DEF CallCurrent, AsNew
    <3>6. ses'.ps # None => turn'[u].deferred \/
             (proc'[ses'.ps].st = "live" /\ ses'.ps \notin kills'
                 /\ ses'.ps \notin mcp'.missed => proc'[ses'.ps].cfg >= turn'[u].due)
      BY <1>5, <1>6, <3>3, <3>4, <3>5
    <3>7. u \in mcp'.missed \/ turn'[u].cfg >= mcp'.marked
      BY <1>3, <3>1, <3>3 DEF CallCurrent
    <3>8. turn'[u].due <= mcp'.marked
      BY <1>3, <3>1, <3>3 DEF CallCurrent
    <3>9. QED
      BY <3>2, <3>3, <3>6, <3>7, <3>8 DEF CallCurrent, At, Follows, AsNew, Live
  <2>4. CASE SendReuse(u)
    <3>1. /\ turn'[u].pc = "streaming" /\ turn'[u].pid = ses.ps
          /\ turn'[u].due = turn[u].due /\ turn'[u].deferred = turn[u].deferred
      BY <1>1, <2>4 DEF SendReuse, Subscribed, TurnState
    <3>2. ses.ps # None /\ turn[u].pc \in Checked /\ UNCHANGED mcp
      BY <2>4 DEF SendReuse, At, Checked
    <3>3. turn[u].deferred \/ AsNew(ses.ps, turn[u].due)
      BY <1>3, <3>2 DEF CallCurrent
    <3>4. QED
      BY <1>3, <1>5, <1>6, <3>1, <3>2, <3>3
         DEF CallCurrent, At, Window, Between, Checked, Follows, AsNew, Live
  <2>5. CASE Spawn(u) \/ SpawnRetry(u)
    <3>1. PICK s, b : proc' = Launched(u, s, b)
      BY <2>5, Zenon DEF Spawn, SpawnRetry
    <3>2. proc'[u].cfg = turn[u].cfg
      BY <3>1 DEF Launched, NoProcess, Inv, ProcOK
    <3>3. turn'[u].pc = "spawned" /\ turn'[u].due = turn[u].due
          /\ turn'[u].cfg = turn[u].cfg
      <4>1. CASE Spawn(u)
        BY <1>1, <4>1 DEF Spawn, Goto, TurnState
      <4>2. CASE SpawnRetry(u)
        BY <1>1, <4>2 DEF SpawnRetry, TurnState
      <4>3. QED
        BY <2>5, <4>1, <4>2
    <3>4. u \in Window /\ UNCHANGED mcp
      BY <2>5 DEF Spawn, SpawnRetry, Window, Between
    <3>5. QED
      BY <1>3, <3>2, <3>3, <3>4 DEF CallCurrent, At, Checked, Follows, Live
  <2>6. CASE Prompt(u)
    <3>1. turn'[u].pc = "prompted" /\ turn'[u].due = turn[u].due
          /\ turn'[u].cfg = turn[u].cfg /\ turn'[u].pid = u
      BY <1>1, <2>6 DEF Prompt, Subscribed, TurnState
    <3>2. turn[u].pc = "spawned" /\ u \in Window /\ UNCHANGED mcp
      BY <2>6 DEF Prompt, At, Window, Between
    <3>3. ~(Spawn(u) \/ SpawnRetry(u))
      BY <3>2 DEF Spawn, SpawnRetry
    <3>4. Ages(u)
      BY <3>3, ProcessAges
    <3>5. QED
      BY <1>3, <3>1, <3>2, <3>4 DEF CallCurrent, Ages, At, Checked, Follows, Live
  <2>7. CASE Store(u)
    <3>1. CASE ses.on
      <4>1. turn'[u].pc = "streaming" /\ turn'[u].due = turn[u].due
            /\ turn'[u].pid = turn[u].pid
        BY <1>1, <2>7, <3>1 DEF Store, Goto, TurnState
      <4>2. turn[u].pc = "prompted" /\ u \in Window /\ UNCHANGED <<mcp, proc, kills>>
        BY <2>7 DEF Store, At, Window, Between
      <4>3. QED
        BY <1>2, <1>3, <4>1, <4>2
           DEF CallCurrent, At, Window, Between, Checked, Follows, AsNew, Live
    <3>2. CASE ~ses.on
      <4>1. Ended(u)
        BY <1>1, <2>7, <3>2 DEF Store, Failed, Ended
      <4>2. QED
        BY <1>7, <4>1
    <3>3. QED
      BY <3>1, <3>2
  <2>8. QED
    BY <1>11, <2>1, <2>2, <2>3, <2>4, <2>5, <2>6, <2>7 DEF Decides
<1>12. QED
  BY <1>4, <1>7, <1>8, <1>9, <1>10, <1>11, CallMoves

\* "the config change takes effect on the next send_chat_message"
\* (set_mcp_server_enabled): a call made after the toggle has returned runs on a
\* process started with the rows it wrote, unless background tasks defer the restart
\* or the toggle missed the process, for any interleaving of calls and toggles.
THEOREM ToggleTakesEffect == Spec => []ConfigCurrent
<1>1. Init => Current
  <2>1. ASSUME Init, NEW t \in Turns
        PROVE  CallCurrent(t)
    BY <2>1 DEF Init, NewTurn, CallCurrent, At, Window, Between, Checked, Follows
  <2>2. ASSUME Init
        PROVE  mcp.marked <= mcp.version /\ EntryCurrent
    BY <2>2 DEF Init, NoSession, EntryCurrent
  <2>3. QED
    BY <2>1, <2>2 DEF Current
<1>2. Inv /\ Inv' /\ Current /\ [Next]_vars => Current'
  <2>1. ASSUME Inv, Inv', Current, Next
        PROVE  Current'
    BY <2>1, VersionSteps, EntryStays, CallStays DEF Current
  <2>2. ASSUME Current, UNCHANGED vars
        PROVE  Current'
    BY <2>2 DEF vars, Current, EntryCurrent, CallCurrent, AsNew, Live, At, Window
  <2>3. QED
    BY <2>1, <2>2
<1>3. Inv /\ Current => ConfigCurrent
  BY DEF Current, CallCurrent, ConfigCurrent, AsNew, At, Follows
<1>4. QED
  BY <1>1, <1>2, <1>3, Invariance, PTL DEF Spec

-----------------------------------------------------------------------------
\* Nobody waits for an answer that cannot come, while a message waits for the turn
\* before it (no overlap).

\* A call between the read of the row and its stream, and one that listens.
InProgress(t) == turn[t].pc \notin Between
Hears == {"prompted", "streaming", "saving"}
\* The process of a call can be the tab's, or has been.
Stored(t) == turn[t].pc \in {"streaming", "saving", "auth", "authClear", "done", "failed"}

\* One call at a time, and the entry has no active process meanwhile.
OneCall ==
    /\ \A t, u \in Turns : InProgress(t) /\ InProgress(u) => t = u
    /\ \A t \in Turns : InProgress(t) => ses.active = None

\* The receiver of a call: it belongs to its stream, and nothing follows the event
\* that ends it.
InboxOK(u) ==
    /\ turn[u].inbox # <<>> \/ turn[u].sub # None => turn[u].pc \in Hears
    /\ turn[u].sub # None => turn[u].sub = turn[u].pid
    /\ \A i \in DOMAIN turn[u].inbox :
          turn[u].inbox[i].kind \in Ends =>
              i = Len(turn[u].inbox) /\ turn[u].sub = None

\* A process that only its own call knows yet.
Unshared(t) ==
    /\ ses.ps = t => Stored(t)
    /\ \A u \in Turns : u # t /\ turn[u].pid = t => Stored(t)
    /\ At(t, "spawned") => proc[t].queue = <<>>
    /\ At(t, "prompted") => turn[t].pid = t

\* The tab's process, or the one about to be, which no command has condemned.
Tracked(p) == Live(p) /\ p \notin kills /\ (ses.ps = p \/ At(p, "prompted"))
Attached(u, p) == turn[u].pid = p /\ turn[u].pc \in Hears

\* It has at most one prompt, of a call that listens, and what it asks is on its way.
Heard(p) ==
    /\ proc[p].queue = <<>>
       \/ \E u \in Turns : proc[p].queue = <<u>> /\ turn[u].sub = p
    /\ \A u, v \in Turns : Attached(u, p) /\ Attached(v, p) => u = v
    /\ ses.ps = p /\ ses.active = None => \A u \in Turns : ~Attached(u, p)
    /\ proc[p].phase = "asking" /\ ses.ps = p => AnswerOnItsWay(p)
    /\ proc[p].phase = "asking" /\ At(p, "prompted") =>
          \E i \in DOMAIN turn[p].inbox : turn[p].inbox[i].ask = Head(proc[p].queue)

Hearing ==
    /\ OneCall
    /\ \A t \in Turns : InboxOK(t) /\ Unshared(t)
    /\ \A p \in Turns : Tracked(p) => Heard(p)

\* An ask somewhere in an inbox; what Tail and Append do to it.
AskIn(s, a) == \E i \in DOMAIN s : s[i].ask = a

\* Taking an event other than the ask leaves the ask in the inbox.
LEMMA TailAsks ==
    ASSUME NEW s \in Seq(Events), s # <<>>, NEW a, AskIn(s, a), Head(s).ask # a
    PROVE  AskIn(Tail(s), a)
<1>1. PICK i \in 1 .. Len(s) : s[i].ask = a
  BY DEF AskIn
<1>2. i # 1
  BY <1>1
<1>3. i - 1 \in 1 .. Len(Tail(s)) /\ Tail(s)[i - 1] = s[i]
  BY <1>1, <1>2
<1>4. DOMAIN Tail(s) = 1 .. Len(Tail(s))
  OBVIOUS
<1>5. QED
  BY <1>1, <1>3, <1>4 DEF AskIn

\* An inbox in which only the last event ends the stream.
OnlyLastEnds(s) == \A i \in DOMAIN s : s[i].kind \in Ends => i = Len(s)

\* Taking an event keeps what ends the stream at the end, and what ends it is the
\* only event left.
LEMMA TailEnds ==
    ASSUME NEW s \in Seq(Events), s # <<>>, OnlyLastEnds(s)
    PROVE  /\ OnlyLastEnds(Tail(s))
           /\ \A i \in DOMAIN Tail(s) : i + 1 \in DOMAIN s /\ Tail(s)[i] = s[i + 1]
           /\ 1 \in DOMAIN s /\ Head(s) = s[1]
           /\ Head(s).kind \in Ends => Tail(s) = <<>>
<1>1. Len(s) \in Nat \ {0} /\ DOMAIN s = 1 .. Len(s)
  BY EmptySeq, LenProperties
<1>2. Tail(s) \in Seq(Events) /\ Len(Tail(s)) = Len(s) - 1
      /\ DOMAIN Tail(s) = 1 .. Len(Tail(s))
  BY HeadTailProperties, LenProperties
<1>3. \A i \in DOMAIN Tail(s) : i + 1 \in DOMAIN s /\ Tail(s)[i] = s[i + 1]
  BY <1>1, <1>2, HeadTailProperties
<1>4. OnlyLastEnds(Tail(s))
  BY <1>1, <1>2, <1>3 DEF OnlyLastEnds
<1>5. 1 \in DOMAIN s /\ Head(s) = s[1]
  BY <1>1
<1>6. Len(s) = 1 => Tail(s) = <<>>
  <2>1. Tail(s) # <<>> => Len(Tail(s)) \in Nat \ {0}
    BY <1>2, EmptySeq, Zenon
  <2>2. Len(s) = 1 => Len(Tail(s)) \notin Nat \ {0}
    BY <1>2
  <2>3. QED
    BY <2>1, <2>2, Zenon
<1>7. QED
  BY <1>3, <1>4, <1>5, <1>6 DEF OnlyLastEnds

\* An appended event loses no ask and adds its own.
LEMMA AppendAsks ==
    ASSUME NEW s \in Seq(Events), NEW e \in Events, NEW a
    PROVE  AskIn(s, a) \/ e.ask = a => AskIn(Append(s, e), a)
<1>1. DOMAIN s = 1 .. Len(s) /\ DOMAIN Append(s, e) = 1 .. Len(s) + 1
      /\ \A i \in 1 .. Len(s) : Append(s, e)[i] = s[i]
  OBVIOUS
<1>2. Append(s, e)[Len(s) + 1] = e /\ Len(s) \in Nat
  OBVIOUS
<1>3. CASE AskIn(s, a)
  BY <1>1, <1>2, <1>3 DEF AskIn
<1>4. CASE e.ask = a
  BY <1>1, <1>2, <1>4 DEF AskIn
<1>5. QED
  BY <1>3, <1>4

\* What a step does to the receiver of a call: it ends with it, it is kept, it hands
\* out an event, it gets one, or it is opened on a process.
Opens(u) ==
    /\ \/ Prompt(u) /\ turn'[u].pid = u
       \/ SendReuse(u) /\ turn'[u].pid = ses.ps
    /\ turn[u].pc \notin Hears /\ turn'[u].pc \in Hears
    /\ turn'[u].inbox = turn[u].inbox /\ turn'[u].sub = turn'[u].pid
Keeps(u) ==
    /\ turn'[u].inbox = turn[u].inbox /\ turn'[u].sub = turn[u].sub
    /\ turn'[u].pid = turn[u].pid
    /\ turn[u].pc \in Hears <=> turn'[u].pc \in Hears
Pops(u) ==
    /\ turn[u].pc = "streaming" /\ turn[u].inbox # <<>>
    /\ turn'[u].inbox = Tail(turn[u].inbox) /\ turn'[u].sub = turn[u].sub
    /\ turn'[u].pid = turn[u].pid
    /\ \/ turn'[u].pc \in Follows
       \/ turn'[u].pc = "auth" /\ Head(turn[u].inbox).kind = "auth"
Gets(u, p, e) ==
    /\ turn[u].sub = p /\ turn'[u].inbox = Append(turn[u].inbox, e)
    /\ turn'[u].sub = IF e.kind \in Ends THEN None ELSE p
    /\ turn'[u].pid = turn[u].pid /\ turn'[u].pc = turn[u].pc

\* A broadcast of p reaches the receivers subscribed to p and no other call.
LEMMA BroadcastGets ==
    ASSUME turn \in [Turns -> TurnState], NEW p \in Turns, NEW e \in Events,
           turn' = Broadcast(p, e), NEW u \in Turns
    PROVE  /\ turn[u].sub = p => Gets(u, p, e)
           /\ turn[u].sub # p => turn'[u] = turn[u]
<1>1. turn'[u] = IF turn[u].sub # p THEN turn[u]
                 ELSE [turn[u] EXCEPT !.inbox = Append(@, e),
                                      !.sub = IF e.kind \in Ends THEN None ELSE @]
  BY DEF Broadcast
<1>2. turn[u] \in TurnState
  OBVIOUS
<1>3. QED
  BY <1>1, <1>2 DEF Gets, TurnState

\* The events of the CLI.
LEMMA CliEvents ==
    ASSUME Inv, NEW q \in Turns, Cli(q)
    PROVE  \/ UNCHANGED turn
           \/ \E e \in Events : turn' = Broadcast(q, e)
<1>1. \A k \in {"init", "task", "result", "auth", "exit"} : Event(k) \in Events
  BY DEF Event, Events
<1>2. CASE CliAsk(q)
  <2>1. proc[q].queue # <<>> /\ proc[q].queue \in Seq(Turns)
    BY <1>2 DEF CliAsk, Inv, ProcOK, WorkHasPrompt, Process
  <2>2. Head(proc[q].queue) \in Turns
    BY <2>1
  <2>3. QED
    BY <1>2, <2>2 DEF CliAsk, Events
<1>3. CASE CliInit(q) \/ CliTask(q) \/ CliResult(q) \/ ProcExited(q)
  BY <1>1, <1>3 DEF CliInit, CliTask, CliResult, ProcExited
<1>4. CASE CliReply(q) \/ CliStops(q) \/ CliCrashes(q)
  BY <1>4 DEF CliReply, CliStops, CliCrashes, CliOnly
<1>5. QED
  BY <1>2, <1>3, <1>4 DEF Cli

\* Whatever the step, a call ends, keeps its receiver, takes the head of its inbox,
\* subscribes or is sent an event.
LEMMA HearMoves ==
    ASSUME Inv, Next, NEW u \in Turns
    PROVE  \/ Ended(u) \/ Keeps(u) \/ Pops(u) \/ Opens(u)
           \/ \E p \in Turns, e \in Events : Gets(u, p, e)
<1> DEFINE Moves == \/ Ended(u) \/ Keeps(u) \/ Pops(u) \/ Opens(u)
                    \/ \E p \in Turns, e \in Events : Gets(u, p, e)
<1>1. turn \in [Turns -> TurnState] /\ turn[u] \in TurnState
  BY DEF Inv, TurnOK
<1>2. turn'[u] = turn[u] => Moves
  BY DEF Keeps
<1>3. ASSUME NEW t \in Turns, t # u, Send(t) \/ Stream(t)
      PROVE  turn'[u] = turn[u]
  BY <1>3, OthersKeep
<1>4. turn' = Failed(u) \/ turn' = Done(u) => Moves
  BY <1>1 DEF Failed, Done, Ended
<1>5. ASSUME NEW pc, turn' = [turn EXCEPT ![u].pc = pc],
             turn[u].pc \in Hears <=> pc \in Hears
      PROVE  Moves
  BY <1>1, <1>5 DEF Keeps, TurnState
<1>6. ASSUME NEW pc, turn' = Popped(u, pc), turn[u].inbox # <<>>, At(u, "streaming"),
             pc \in Follows \/ (pc = "auth" /\ Head(turn[u].inbox).kind = "auth")
      PROVE  Moves
  BY <1>1, <1>6 DEF Popped, Pops, At, TurnState
<1>7. ASSUME Send(u)
      PROVE  Moves
  <2>1. CASE SendReuse(u)
    BY <1>1, <2>1 DEF SendReuse, Subscribed, Opens, Hears, At, TurnState
  <2>2. CASE Prompt(u)
    BY <1>1, <2>2 DEF Prompt, Subscribed, Opens, Hears, At, TurnState
  <2>3. CASE SendRead(u) \/ SendConfig(u)
    BY <1>1, <2>3 DEF SendRead, SendConfig, At, Keeps, Hears, TurnState
  <2>4. CASE SendDirty(u)
    <3>1. PICK pc \in {"torn", "clean"} : \E b :
              turn' = [turn EXCEPT ![u].pc = pc, ![u].deferred = b]
      BY <2>4 DEF SendDirty
    <3>2. QED
      BY <1>1, <2>4, <3>1 DEF SendDirty, At, Keeps, Hears, TurnState
  <2>5. CASE SendEnter(u) \/ SendCount(u) \/ SendEnv(u) \/ SendMint(u) \/ SpawnFails(u)
             \/ Spawn(u)
    <3>1. PICK pc \in {"stale", "drained", "entered", "flagDrift", "counted", "envDrift",
                       "ready", "minted", "clearing", "spawned"} :
              turn' = [turn EXCEPT ![u].pc = pc]
      BY <2>5 DEF SendEnter, SendCount, SendEnv, Drift, SendMint, SpawnFails, Spawn, Goto
    <3>2. turn[u].pc \notin Hears
      BY <2>5 DEF SendEnter, SendCount, SendEnv, SendMint, SpawnFails, Spawn, At, Hears
    <3>3. QED
      BY <1>5, <3>1, <3>2 DEF Hears
  <2>6. CASE SendRelock(u)
    <3>1. turn[u].pc \in Released
      BY <2>6 DEF SendRelock
    <3>2. turn[u].pc \notin Hears /\ Resumes[turn[u].pc] \notin Hears
      BY <3>1 DEF Released, Resumes, Hears
    <3>3. QED
      BY <1>4, <1>5, <2>6, <3>2 DEF SendRelock, Goto
  <2>7. CASE SendError(u) \/ SpawnError(u) \/ SpawnCleared(u) \/ PromptFails(u)
    BY <1>4, <2>7 DEF SendError, SpawnError, SpawnCleared, PromptFails
  <2>8. CASE SendRespawn(u) \/ SendFresh(u)
    <3>1. PICK pc \in {"respawn", "spawning"} : turn' = Launching(u, pc)
      BY <2>8 DEF SendRespawn, SendFresh
    <3>2. turn[u].pc = "ready"
      BY <2>8 DEF SendRespawn, SendFresh, At
    <3>3. QED
      BY <1>1, <3>1, <3>2 DEF Launching, Keeps, Hears, TurnState
  <2>9. CASE SpawnRetry(u)
    BY <1>1, <2>9 DEF SpawnRetry, Keeps, Hears, TurnState
  <2>10. CASE Store(u)
    BY <1>4, <1>5, <2>10 DEF Store, Goto, At, Hears
  <2>11. QED
    BY <1>7, <2>1, <2>2, <2>3, <2>4, <2>5, <2>6, <2>7, <2>8, <2>9, <2>10 DEF Send
<1>8. ASSUME Stream(u)
      PROVE  Moves
  <2>1. CASE OnInit(u)
    <3>1. PICK pc \in Follows : \E n :
              turn' = [Popped(u, pc) EXCEPT ![u].init = TRUE, ![u].save = n]
      BY <2>1 DEF OnInit, Follows
    <3>2. QED
      BY <1>1, <2>1, <3>1 DEF OnInit, Arrived, At, Popped, Pops, TurnState
  <2>2. CASE OnAsk(u) \/ OnTask(u)
    BY <1>6, <2>2 DEF OnAsk, OnTask, Arrived, Follows
  <2>3. CASE InitSave(u)
    BY <1>5, <2>3 DEF InitSave, Goto, At, Hears
  <2>4. CASE OnResult(u)
    BY <1>4, <1>6, <2>4 DEF OnResult, Arrived
  <2>5. CASE AuthReset(u)
    BY <1>4, <1>5, <2>5 DEF AuthReset, At, Hears
  <2>6. CASE AuthClear(u) \/ OnExit(u)
    BY <1>4, <2>6 DEF AuthClear, OnExit
  <2>7. QED
    BY <1>8, <2>1, <2>2, <2>3, <2>4, <2>5, <2>6 DEF Stream
<1>9. ASSUME NEW q \in Turns, Cli(q)
      PROVE  Moves
  BY <1>1, <1>2, <1>9, CliEvents, BroadcastGets
<1>10. ASSUME AppRestart
       PROVE  Moves
  BY <1>2, <1>10 DEF AppRestart, Ended
<1>11. ASSUME \/ \E a \in Turns : SubmitAnswer(a) \/ SubmitApprovalFails(a)
              \/ \E q \in Turns : KillAgent(q)
              \/ TasksOver \/ StopAgent \/ ResetAgentSession \/ ResetClear
              \/ ToggleServer \/ MarkDirty
       PROVE  Moves
  BY <1>2, <1>11 DEF SubmitAnswer, SubmitApprovalFails, KillAgent, TasksOver, StopAgent,
     ResetAgentSession, ResetClear, ToggleServer, MarkDirty
<1>12. QED
  BY <1>2, <1>3, <1>7, <1>8, <1>9, <1>10, <1>11 DEF Next

\* A call that has stored its process never goes back before that point.
LEMMA StoredStays ==
    ASSUME Inv, Next, NEW u \in Turns, Stored(u)
    PROVE  Stored(u)'
<1>1. CASE Ended(u)
  BY <1>1 DEF Ended, Over, NewTurn, Stored
<1>2. ~Decides(u)
  BY DEF Stored, Decides, SendRead, SendConfig, SendDirty, SendReuse, Spawn,
     SpawnRetry, Prompt, Store, At
<1>3. Goes(turn[u].pc, turn'[u].pc) => Stored(u)'
  BY DEF Goes, Stored, Unbound, Checked, Follows
<1>4. QED
  BY <1>1, <1>2, <1>3, CallMoves

\* Only a read starts a call; a call ends by storing its process, or by reuse.
LEMMA CallStarts ==
    ASSUME Inv, Next, NEW u \in Turns, InProgress(u)', ~InProgress(u)
    PROVE  SendRead(u)
<1>1. ~Ended(u)
  BY DEF Ended, Over, NewTurn, InProgress, Between
<1>2. ~Goes(turn[u].pc, turn'[u].pc)
  BY DEF Goes, InProgress, Between, Unbound, Checked, Follows
<1>3. Decides(u) => SendRead(u)
  BY DEF Decides, SendConfig, SendDirty, SendReuse, Spawn, SpawnRetry, Prompt, Store,
     At, InProgress, Between
<1>4. QED
  BY <1>1, <1>2, <1>3, CallMoves

\* active_pid is set by a reuse and by the store, and by nothing else.
LEMMA ActiveSteps ==
    ASSUME Inv, Next
    PROVE  \/ ses'.active = None \/ ses'.active = ses.active
           \/ \E t \in Turns : InProgress(t) /\ turn'[t].pc = "streaming"
                               /\ (SendReuse(t) \/ Store(t))
<1> DEFINE Same == ses'.active = None \/ ses'.active = ses.active
<1>1. ses \in Session /\ turn \in [Turns -> TurnState]
  BY DEF Inv, SesOK, TurnOK
<1>2. ASSUME NEW t \in Turns, Send(t)
      PROVE  Same \/ (InProgress(t) /\ turn'[t].pc = "streaming"
                      /\ (SendReuse(t) \/ Store(t)))
  <2>1. CASE SendEnter(t)
    <3>1. Entry(t) \in Session
      BY EntryOK DEF Inv
    <3>2. Entry(t) = ses \/ Entry(t).active = None
      BY DEF Entry, NoSession
    <3>3. ses'.active = Entry(t).active \/ ses'.active = None
      BY <2>1, <3>1 DEF SendEnter, Drained, Session
    <3>4. QED
      BY <3>2, <3>3
  <2>2. CASE SendDirty(t)
    BY <1>1, <2>2 DEF SendDirty, Torn, Session
  <2>3. CASE SendCount(t) \/ SendEnv(t)
    BY <1>1, <2>3 DEF SendCount, SendEnv, Drift, Torn, Counted, Session
  <2>4. CASE SendReuse(t)
    BY <1>1, <2>4 DEF SendReuse, Subscribed, At, InProgress, Between, TurnState
  <2>5. CASE Store(t)
    <3>1. CASE ses.on
      BY <1>1, <2>5, <3>1 DEF Store, Goto, At, InProgress, Between, TurnState
    <3>2. CASE ~ses.on
      BY <2>5, <3>2 DEF Store
    <3>3. QED
      BY <3>1, <3>2
  <2>6. CASE SendRelock(t) \/ SendRespawn(t) \/ SendMint(t) \/ SendFresh(t)
             \/ SpawnCleared(t)
    BY <1>1, <2>6 DEF SendRelock, SendRespawn, SendMint, SendFresh, SpawnCleared, Session
  <2>7. CASE \/ SendRead(t) \/ SendConfig(t) \/ SendError(t) \/ Spawn(t)
             \/ SpawnRetry(t) \/ SpawnError(t) \/ SpawnFails(t) \/ Prompt(t)
             \/ PromptFails(t)
    BY <2>7, Zenon DEF SendRead, SendConfig, SendError, Spawn, SpawnRetry, SpawnError,
       SpawnFails, Prompt, PromptFails
  <2>8. QED
    BY <1>2, <2>1, <2>2, <2>3, <2>4, <2>5, <2>6, <2>7 DEF Send
<1>3. ASSUME NEW t \in Turns, Stream(t)
      PROVE  Same
  <2>1. CASE OnInit(t) \/ OnAsk(t) \/ OnTask(t) \/ OnResult(t)
    BY <1>1, <2>1 DEF OnInit, OnAsk, OnTask, OnResult, Session
  <2>2. CASE InitSave(t) \/ AuthClear(t)
    BY <2>2 DEF InitSave, AuthClear
  <2>3. CASE AuthReset(t)
    BY <1>1, <2>3 DEF AuthReset, Session
  <2>4. CASE OnExit(t)
    <3>1. ses' = NoSession \/ ses' = Exited(ses) \/ ses' = ses
      BY <2>4, Zenon DEF OnExit
    <3>2. NoSession.active = None
      BY DEF NoSession
    <3>3. Exited(ses).active = None
      BY <1>1 DEF Exited, Session
    <3>4. QED
      BY <3>1, <3>2, <3>3
  <2>5. QED
    BY <1>3, <2>1, <2>2, <2>3, <2>4 DEF Stream
<1>4. ASSUME NEW q \in Turns, Cli(q) \/ KillAgent(q)
      PROVE  Same
  BY <1>4 DEF Cli, CliOnly, CliInit, CliAsk, CliReply, CliTask, CliResult,
     CliStops, CliCrashes, ProcExited, KillAgent
<1>5. ASSUME \/ \E a \in Turns : SubmitAnswer(a) \/ SubmitApprovalFails(a)
             \/ TasksOver \/ StopAgent \/ ResetClear \/ ToggleServer \/ MarkDirty
      PROVE  Same
  BY <1>1, <1>5 DEF SubmitAnswer, SubmitApprovalFails, Answered, TasksOver, StopAgent,
     Drained, ResetClear, ToggleServer, MarkDirty, Session
<1>6. ASSUME ResetAgentSession \/ AppRestart
      PROVE  Same
  BY <1>6 DEF ResetAgentSession, AppRestart, Removed, NoSession
<1>7. QED
  BY <1>2, <1>3, <1>4, <1>5, <1>6 DEF Next

\* A step starts no message while a call is in progress or a turn is active.
MessagesWait == \A t \in Turns : SendRead(t) => Idle

\* When messages wait, a call starts only when no other is in progress and no turn is
\* active, and only the call in progress makes a turn active.
LEMMA OneCallStays ==
    ASSUME Inv, MessagesWait, OneCall, Next
    PROVE  OneCall'
<1>1. ASSUME NEW t \in Turns, SendRead(t)
      PROVE  OneCall'
  <2>1. ses.active = None /\ \A u \in Turns : ~InProgress(u)
    BY <1>1 DEF MessagesWait, Idle, InProgress
  <2>2. ses' = ses /\ \A u \in Turns : u # t => turn'[u] = turn[u]
    BY <1>1 DEF SendRead, Inv, TurnOK
  <2>3. QED
    BY <2>1, <2>2 DEF OneCall, InProgress
<1>2. ASSUME \A t \in Turns : ~SendRead(t)
      PROVE  OneCall'
  <2>1. \A t \in Turns : InProgress(t)' => InProgress(t)
    BY <1>2, CallStarts
  <2>2. ASSUME NEW t \in Turns, InProgress(t)'
        PROVE  ses'.active = None
    <3>1. InProgress(t) /\ ses.active = None
      BY <2>1, <2>2 DEF OneCall
    <3>2. ASSUME NEW u \in Turns, InProgress(u), turn'[u].pc = "streaming"
          PROVE  FALSE
      <4>1. u = t
        BY <3>1, <3>2 DEF OneCall
      <4>2. QED
        BY <2>2, <3>2, <4>1 DEF InProgress, Between
    <3>3. QED
      BY <3>1, <3>2, ActiveSteps
  <2>3. QED
    BY <2>1, <2>2 DEF OneCall
<1>3. QED
  BY <1>1, <1>2

\* An event that ends the stream closes its receiver, so nothing is queued behind it.
LEMMA InboxStays ==
    ASSUME Inv, Next, NEW u \in Turns, InboxOK(u)
    PROVE  InboxOK(u)'
<1>1. turn[u] \in TurnState /\ turn[u].inbox \in Seq(Events)
  BY DEF Inv, TurnOK, TurnState
<1>2. CASE Ended(u)
  BY <1>2 DEF Ended, Over, NewTurn, InboxOK
<1>3. CASE Keeps(u)
  BY <1>3 DEF Keeps, InboxOK
<1>4. CASE Opens(u)
  BY <1>4 DEF Opens, InboxOK
<1>5. CASE Pops(u)
  <2>1. OnlyLastEnds(turn[u].inbox)
    BY DEF InboxOK, OnlyLastEnds
  <2>2. /\ OnlyLastEnds(Tail(turn[u].inbox))
        /\ \A i \in DOMAIN Tail(turn[u].inbox) :
              i + 1 \in DOMAIN turn[u].inbox
              /\ Tail(turn[u].inbox)[i] = turn[u].inbox[i + 1]
        /\ 1 \in DOMAIN turn[u].inbox /\ Head(turn[u].inbox) = turn[u].inbox[1]
        /\ Head(turn[u].inbox).kind \in Ends => Tail(turn[u].inbox) = <<>>
    BY <1>1, <1>5, <2>1, TailEnds DEF Pops
  <2>3. \A i \in DOMAIN turn'[u].inbox : turn'[u].inbox[i].kind \in Ends =>
              i = Len(turn'[u].inbox) /\ turn'[u].sub = None
    BY <1>5, <2>2 DEF Pops, OnlyLastEnds, InboxOK
  <2>4. CASE turn'[u].pc \in Follows
    BY <1>5, <2>3, <2>4 DEF Pops, InboxOK, Hears, Follows
  <2>5. CASE turn'[u].pc = "auth" /\ Head(turn[u].inbox).kind = "auth"
    BY <1>5, <2>2, <2>5 DEF Pops, InboxOK, Ends
  <2>6. QED
    BY <1>5, <2>4, <2>5 DEF Pops
<1>6. ASSUME NEW p \in Turns, NEW e \in Events, Gets(u, p, e)
      PROVE  InboxOK(u)'
  <2>1. turn[u].sub = p /\ p # None
    BY <1>6, NoneAssumption DEF Gets
  <2>2. \A i \in DOMAIN turn[u].inbox : turn[u].inbox[i].kind \notin Ends
    BY <2>1 DEF InboxOK
  <2>3. DOMAIN turn'[u].inbox = 1 .. Len(turn[u].inbox) + 1
        /\ Len(turn'[u].inbox) = Len(turn[u].inbox) + 1
        /\ \A i \in 1 .. Len(turn[u].inbox) : turn'[u].inbox[i] = turn[u].inbox[i]
        /\ turn'[u].inbox[Len(turn[u].inbox) + 1] = e
    BY <1>1, <1>6 DEF Gets
  <2>4. DOMAIN turn[u].inbox = 1 .. Len(turn[u].inbox) /\ Len(turn[u].inbox) \in Nat
    BY <1>1
  <2>5. \A i \in DOMAIN turn'[u].inbox : turn'[u].inbox[i].kind \in Ends =>
              i = Len(turn'[u].inbox) /\ turn'[u].sub = None
    BY <1>6, <2>2, <2>3, <2>4 DEF Gets
  <2>6. QED
    BY <1>6, <2>1, <2>5 DEF Gets, InboxOK
<1>7. QED
  BY <1>2, <1>3, <1>4, <1>5, <1>6, HearMoves

\* A process gets a prompt from its own call, or from a call that reuses it; what it
\* works on is otherwise its own business, until it ends.
LEMMA QueueSteps ==
    ASSUME Inv, Next, NEW p \in Turns
    PROVE  \/ proc'[p].queue = proc[p].queue
              /\ (proc'[p].phase = proc[p].phase \/ Cli(p))
           \/ proc'[p].queue = <<>> /\ (Spawn(p) \/ SpawnRetry(p) \/ ~Live(p)')
           \/ CliResult(p) /\ proc[p].queue # <<>>
           \/ Prompt(p) \/ \E t \in Turns : SendReuse(t) /\ ses.ps = p
<1> DEFINE Same == proc'[p].queue = proc[p].queue /\ proc'[p].phase = proc[p].phase
           Exits == proc'[p].queue = <<>> /\ proc'[p].st # "live"
<1>1. proc \in [Turns -> Process] /\ proc[p] \in Process
  BY DEF Inv, ProcOK
<1>2. ASSUME NEW S, proc' = Kill(proc, S)
      PROVE  Same
  BY <1>1, <1>2 DEF Kill, Process
<1>3. UNCHANGED proc => Same
  OBVIOUS
<1>4. ASSUME NEW t \in Turns, Send(t)
      PROVE  \/ Same
             \/ Prompt(p)
             \/ SendReuse(t) /\ ses.ps = p
             \/ proc'[p].queue = <<>> /\ (Spawn(p) \/ SpawnRetry(p))
  <2>1. CASE SendEnter(t) \/ SendDirty(t) \/ SendCount(t) \/ SendEnv(t)
    BY <1>2, <1>3, <2>1 DEF SendEnter, SendDirty, SendCount, SendEnv, Drift
  <2>2. CASE SendReuse(t)
    BY <1>1, <2>2 DEF SendReuse, Prompted, Process
  <2>3. CASE Prompt(t)
    BY <1>1, <2>3 DEF Prompt, Prompted, Process
  <2>4. CASE Spawn(t) \/ SpawnRetry(t)
    <3>1. PICK s, b : proc' = Launched(t, s, b)
      BY <2>4, Zenon DEF Spawn, SpawnRetry
    <3>2. CASE t = p
      BY <1>1, <2>4, <3>1, <3>2 DEF Launched, NoProcess
    <3>3. CASE t # p
      BY <1>1, <3>1, <3>3 DEF Launched
    <3>4. QED
      BY <3>2, <3>3
  <2>5. CASE \/ SendRead(t) \/ SendConfig(t) \/ SendRelock(t) \/ SendError(t)
             \/ SendRespawn(t) \/ SendMint(t) \/ SendFresh(t) \/ SpawnError(t)
             \/ SpawnFails(t) \/ SpawnCleared(t) \/ PromptFails(t) \/ Store(t)
    BY <1>3, <2>5 DEF SendRead, SendConfig, SendRelock, SendError, SendRespawn,
       SendMint, SendFresh, SpawnError, SpawnFails, SpawnCleared, PromptFails, Store
  <2>6. QED
    BY <1>4, <2>1, <2>2, <2>3, <2>4, <2>5 DEF Send
<1>5. ASSUME NEW t \in Turns, Stream(t)
      PROVE  Same
  BY <1>2, <1>3, <1>5 DEF Stream, OnInit, InitSave, OnAsk, OnTask, OnResult,
     AuthReset, AuthClear, OnExit
<1>6. ASSUME NEW q \in Turns, Cli(q), q # p
      PROVE  Same
  <2>1. CASE CliStops(q) \/ CliCrashes(q)
    BY <1>2, <2>1 DEF CliStops, CliCrashes
  <2>2. CASE CliInit(q) \/ CliAsk(q) \/ CliReply(q) \/ CliTask(q) \/ CliResult(q)
             \/ ProcExited(q)
    BY <1>1, <1>6, <2>2 DEF CliInit, CliAsk, CliReply, CliTask, CliResult, ProcExited
  <2>3. QED
    BY <1>6, <2>1, <2>2 DEF Cli
<1>7. ASSUME Cli(p)
      PROVE  \/ proc'[p].queue = proc[p].queue
             \/ CliResult(p) /\ proc[p].queue # <<>>
             \/ Exits
  <2>1. CASE CliStops(p) \/ CliCrashes(p)
    BY <1>2, <2>1 DEF CliStops, CliCrashes
  <2>2. CASE CliInit(p)
    BY <1>1, <2>2 DEF CliInit, Process
  <2>3. CASE CliAsk(p)
    BY <1>1, <2>3 DEF CliAsk, Process
  <2>4. CASE CliReply(p)
    BY <1>1, <2>4 DEF CliReply, Process
  <2>5. CASE CliTask(p)
    BY <1>1, <2>5 DEF CliTask, Process
  <2>6. CASE CliResult(p)
    BY <2>6 DEF CliResult, Inv, ProcOK, WorkHasPrompt
  <2>7. CASE ProcExited(p)
    BY <1>1, <2>7 DEF ProcExited, Gone, NoProcess
  <2>8. QED
    BY <1>7, <2>1, <2>2, <2>3, <2>4, <2>5, <2>6, <2>7 DEF Cli
<1>8. ASSUME AppRestart
      PROVE  Same \/ Exits
  BY <1>8 DEF AppRestart, Gone, NoProcess
<1>9. ASSUME \/ \E q \in Turns : KillAgent(q)
             \/ \E a \in Turns : SubmitAnswer(a) \/ SubmitApprovalFails(a)
             \/ TasksOver \/ StopAgent \/ ResetAgentSession \/ ResetClear
             \/ ToggleServer \/ MarkDirty
      PROVE  Same
  BY <1>2, <1>3, <1>9 DEF KillAgent, SubmitAnswer, SubmitApprovalFails, TasksOver,
     StopAgent, ResetAgentSession, ResetClear, ToggleServer, MarkDirty
<1>10. QED
  BY <1>4, <1>5, <1>6, <1>7, <1>8, <1>9 DEF Next, Live

\* Until a call stores the process it started, neither the entry nor another call
\* holds that process.
LEMMA UnsharedStays ==
    ASSUME Inv, Hearing, Next, NEW t \in Turns
    PROVE  Unshared(t)'
<1>1. turn \in [Turns -> TurnState] /\ Unshared(t) /\ t # None
  BY NoneAssumption DEF Hearing, Inv, TurnOK
<1>2. ses'.ps = t => Stored(t)'
  <2>1. CASE ses.ps = t
    BY <1>1, <2>1, StoredStays DEF Unshared
  <2>2. CASE Store(t) /\ ses'.ps = t
    <3>1. ses.on
      BY <1>1, <2>2 DEF Store, Inv, SesOK, NoSession
    <3>2. turn'[t].pc = "streaming"
      BY <1>1, <2>2, <3>1 DEF Store, Goto, TurnState
    <3>3. QED
      BY <3>2 DEF Stored
  <2>3. QED
    BY <1>1, <2>1, <2>2, EntrySteps
<1>3. ASSUME NEW u \in Turns, u # t, turn'[u].pid = t
      PROVE  Stored(t)'
  <2>1. turn[u].pid = t => Stored(t)'
    BY <1>1, <1>3, StoredStays DEF Unshared
  <2>2. CASE Opens(u)
    BY <1>1, <1>3, <2>2, StoredStays DEF Opens, Unshared
  <2>3. ~Ended(u)
    BY <1>1, <1>3 DEF Ended, Over, NewTurn
  <2>4. QED
    BY <1>3, <2>1, <2>2, <2>3, HearMoves DEF Keeps, Pops, Gets
<1>4. At(t, "spawned")' => proc'[t].queue = <<>>
  <2>1. SUFFICES ASSUME turn'[t].pc = "spawned"
                 PROVE  proc'[t].queue = <<>>
    BY DEF At
  <2>2. CASE Spawn(t) \/ SpawnRetry(t)
    <3>1. PICK s, b : proc' = Launched(t, s, b)
      BY <2>2, Zenon DEF Spawn, SpawnRetry
    <3>2. QED
      BY <3>1 DEF Launched, NoProcess, Inv, ProcOK
  <2>3. CASE ~(Spawn(t) \/ SpawnRetry(t))
    <3>1. turn[t].pc = "spawned"
      <4>1. ~Ended(t)
        BY <2>1 DEF Ended, Over, NewTurn
      <4>2. Goes(turn[t].pc, turn'[t].pc) => turn[t].pc = "spawned"
        BY <2>1 DEF Goes, Unbound, Checked, Follows
      <4>3. ~Decides(t)
        BY <1>1, <2>1, <2>3 DEF Decides, SendRead, SendConfig, SendDirty, SendReuse,
           Subscribed, Prompt, Store, Goto, Failed, Over, NewTurn, TurnState
      <4>4. QED
        BY <4>1, <4>2, <4>3, CallMoves
    <3>2. proc[t].queue = <<>>
      BY <1>1, <3>1 DEF Unshared, At
    <3>3. ~Prompt(t)
      BY <1>1, <2>1 DEF Prompt, Subscribed, TurnState
    <3>4. ses.ps # t
      BY <1>1, <3>1 DEF Unshared, Stored
    <3>5. QED
      BY <3>2, <3>3, <3>4, QueueSteps
  <2>4. QED
    BY <2>2, <2>3
<1>5. At(t, "prompted")' => turn'[t].pid = t
  <2>1. SUFFICES ASSUME turn'[t].pc = "prompted"
                 PROVE  turn'[t].pid = t
    BY DEF At
  <2>2. CASE Prompt(t)
    BY <1>1, <2>2 DEF Prompt, Subscribed, TurnState
  <2>3. CASE ~Prompt(t)
    <3>1. ~Ended(t)
      BY <2>1 DEF Ended, Over, NewTurn
    <3>2. Goes(turn[t].pc, turn'[t].pc) => turn[t].pc = "prompted"
      BY <2>1 DEF Goes, Unbound, Checked, Follows
    <3>3. ~Decides(t)
      <4>1. ~Store(t)
        <5>1. turn' = [turn EXCEPT ![t].pc = "streaming"] => turn'[t].pc = "streaming"
          BY <1>1 DEF TurnState
        <5>2. turn' = Failed(t) => turn'[t].pc = "failed"
          BY <1>1 DEF Failed, Over, NewTurn
        <5>3. QED
          BY <2>1, <5>1, <5>2 DEF Store, Goto
      <4>2. ~(Spawn(t) \/ SpawnRetry(t))
        <5>1. Spawn(t) => turn'[t].pc = "spawned"
          BY <1>1 DEF Spawn, Goto, TurnState
        <5>2. SpawnRetry(t) => turn'[t].pc = "spawned"
          BY <1>1 DEF SpawnRetry, TurnState
        <5>3. QED
          BY <2>1, <5>1, <5>2
      <4>3. ~(SendRead(t) \/ SendConfig(t) \/ SendDirty(t) \/ SendReuse(t))
        BY <1>1, <2>1 DEF SendRead, SendConfig, SendDirty, SendReuse, Subscribed,
           TurnState
      <4>4. QED
        BY <2>3, <4>1, <4>2, <4>3 DEF Decides
    <3>4. QED
      BY <1>1, <3>1, <3>2, <3>3, CallMoves DEF Kept, Unshared, At
  <2>4. QED
    BY <2>2, <2>3
<1>6. QED
  BY <1>2, <1>3, <1>4, <1>5 DEF Unshared, Stored, At

\* A process becomes the tab's by its own call only, which has prompted it before.
LEMMA TrackedBefore ==
    ASSUME Inv, Hearing, Next, NEW p \in Turns, Tracked(p)'
    PROVE  /\ ~(Spawn(p) \/ SpawnRetry(p))
           /\ Tracked(p) \/ Prompt(p)
           /\ At(p, "prompted")' => At(p, "prompted") \/ Prompt(p)
           /\ ses'.ps = p => ses.ps = p \/ Store(p)
<1>1. turn \in [Turns -> TurnState] /\ Unshared(p) /\ p # None
  BY NoneAssumption DEF Hearing, Inv, TurnOK
<1>2. ses'.ps = p => ses.ps = p \/ Store(p)
  BY <1>1, EntrySteps
<1>3. turn'[p].pc = "prompted" => turn[p].pc = "prompted" \/ Prompt(p)
  <2>1. SUFFICES ASSUME turn'[p].pc = "prompted", ~Prompt(p)
                 PROVE  turn[p].pc = "prompted"
    OBVIOUS
  <2>2. ~Ended(p)
    BY <2>1 DEF Ended, Over, NewTurn
  <2>3. Goes(turn[p].pc, turn'[p].pc) => turn[p].pc = "prompted"
    BY <2>1 DEF Goes, Unbound, Checked, Follows
  <2>4. Store(p) => turn[p].pc = "prompted"
    BY DEF Store, At
  <2>5. ~(Spawn(p) \/ SpawnRetry(p))
    <3>1. Spawn(p) => turn'[p].pc = "spawned"
      BY <1>1 DEF Spawn, Goto, TurnState
    <3>2. SpawnRetry(p) => turn'[p].pc = "spawned"
      BY <1>1 DEF SpawnRetry, TurnState
    <3>3. QED
      BY <2>1, <3>1, <3>2
  <2>6. ~(SendRead(p) \/ SendConfig(p) \/ SendDirty(p) \/ SendReuse(p))
    BY <1>1, <2>1 DEF SendRead, SendConfig, SendDirty, SendReuse, Subscribed, TurnState
  <2>7. QED
    BY <2>1, <2>2, <2>3, <2>4, <2>5, <2>6, CallMoves DEF Decides
<1>4. ~(Spawn(p) \/ SpawnRetry(p))
  <2>1. SUFFICES ASSUME Spawn(p) \/ SpawnRetry(p)
                 PROVE  FALSE
    OBVIOUS
  <2>2. turn[p].pc \in {"spawning", "minted"}
    BY <2>1 DEF Spawn, SpawnRetry
  <2>3. ses.ps # p
    BY <1>1, <2>2 DEF Unshared, Stored
  <2>4. ~Store(p) /\ ~Prompt(p)
    BY <2>2 DEF Store, Prompt, At
  <2>5. QED
    BY <1>2, <1>3, <2>2, <2>3, <2>4 DEF Tracked, At
<1>5. Live(p) /\ p \notin kills
  BY <1>4, ProcessAges DEF Ages, Tracked, Live
<1>6. Store(p) => turn[p].pc = "prompted"
  BY DEF Store, At
<1>7. QED
  BY <1>2, <1>3, <1>4, <1>5, <1>6 DEF Tracked, At

\* A step that leaves the process its prompt, its listeners and what it has asked.
LEMMA HeardFrame ==
    ASSUME NEW p \in Turns, Heard(p), Inv,
           proc'[p].queue = proc[p].queue,
           proc'[p].phase = "asking" => proc[p].phase = "asking",
           \A u \in Turns : turn[u].sub = p => turn'[u].sub = p,
           \A u \in Turns : turn'[u].pid = p /\ turn'[u].pc \in Hears => Attached(u, p),
           ses'.ps = p /\ ses'.active = None =>
               \A u \in Turns : ~(turn'[u].pid = p /\ turn'[u].pc \in Hears),
           ses'.ps = p => ses.ps = p \/ At(p, "prompted"),
           turn'[p].pc = "prompted" => At(p, "prompted"),
           \A a \in Turns : ses.ps = p /\ ses'.ps = p /\ proc'[p].phase = "asking"
               /\ (a \in ses.pending \/ [to |-> p, ask |-> a] \in replies) =>
                     a \in ses'.pending \/ [to |-> p, ask |-> a] \in replies',
           \A a, t \in Turns : ses'.ps = p /\ AskIn(turn[t].inbox, a) =>
               a \in ses'.pending \/ AskIn(turn'[t].inbox, a),
           \A a \in Turns : turn'[p].pc = "prompted" /\ AskIn(turn[p].inbox, a) =>
               AskIn(turn'[p].inbox, a)
    PROVE  Heard(p)'
<1>1. proc'[p].queue = <<>> \/ \E u \in Turns : proc'[p].queue = <<u>> /\ turn'[u].sub = p
  BY DEF Heard
<1>2. \A u, v \in Turns :
          (turn'[u].pid = p /\ turn'[u].pc \in Hears)
              /\ (turn'[v].pid = p /\ turn'[v].pc \in Hears) => u = v
  BY Zenon DEF Heard
<1>3. ASSUME proc'[p].phase = "asking"
      PROVE  Head(proc[p].queue) \in Turns
  <2>1. proc[p].queue # <<>> /\ proc[p].queue \in Seq(Turns)
    BY <1>3 DEF Inv, ProcOK, WorkHasPrompt, Process
  <2>2. QED
    BY <2>1
<1>4. ASSUME proc'[p].phase = "asking", ses'.ps = p
      PROVE  \/ Head(proc[p].queue) \in ses'.pending
             \/ [to |-> p, ask |-> Head(proc[p].queue)] \in replies'
             \/ \E t \in Turns : AskIn(turn'[t].inbox, Head(proc[p].queue))
  <2>1. PICK a \in Turns : a = Head(proc[p].queue)
    BY <1>3, <1>4
  <2>2. CASE ses.ps = p
    <3>1. a \in ses.pending \/ [to |-> p, ask |-> a] \in replies
          \/ \E t \in Turns : AskIn(turn[t].inbox, a)
      BY <1>4, <2>1, <2>2 DEF Heard, AnswerOnItsWay, AskIn
    <3>2. QED
      BY <1>4, <2>1, <2>2, <3>1
  <2>3. CASE At(p, "prompted")
    <3>1. AskIn(turn[p].inbox, a)
      BY <1>4, <2>1, <2>3 DEF Heard, AskIn
    <3>2. QED
      BY <1>4, <2>1, <3>1
  <2>4. QED
    BY <1>4, <2>2, <2>3
<1>5. ASSUME proc'[p].phase = "asking", turn'[p].pc = "prompted"
      PROVE  AskIn(turn'[p].inbox, Head(proc[p].queue))
  <2>1. PICK a \in Turns : a = Head(proc[p].queue)
    BY <1>3, <1>5
  <2>2. AskIn(turn[p].inbox, a)
    BY <1>5, <2>1 DEF Heard, AskIn
  <2>3. QED
    BY <1>5, <2>1, <2>2
<1>6. QED
  BY <1>1, <1>2, <1>4, <1>5 DEF Heard, Attached, AnswerOnItsWay, AskIn, At

\* A call that stops listening with nothing left to hand out.
Quits(u) ==
    /\ turn'[u].pc \notin Hears /\ turn[u].sub = None
    /\ \A a \in Turns : ~AskIn(turn[u].inbox, a)

\* A step that takes nothing from the receivers of p, its pipe or the entry keeps p
\* heard.
LEMMA QuietFrame ==
    ASSUME NEW p \in Turns, Heard(p), Inv, Hearing, Tracked(p),
           \A u \in Turns : Keeps(u) \/ Quits(u),
           proc'[p].queue = proc[p].queue,
           proc'[p].phase = "asking" => proc[p].phase = "asking",
           ses'.ps = p /\ ses'.active = None =>
               \/ ses.ps = p /\ ses.active = None
               \/ \A u \in Turns : ~(turn'[u].pid = p /\ turn'[u].pc \in Hears),
           turn'[p].pc = "prompted" => At(p, "prompted"),
           \A a \in Turns : ses.ps = p /\ ses'.ps = p /\ proc'[p].phase = "asking"
               /\ (a \in ses.pending \/ [to |-> p, ask |-> a] \in replies) =>
                     a \in ses'.pending \/ [to |-> p, ask |-> a] \in replies'
    PROVE  Heard(p)'
<1>1. p # None
  BY NoneAssumption
<1>2. \A u \in Turns : turn[u].sub = p => turn'[u].sub = p
  BY <1>1 DEF Keeps, Quits
<1>3. \A u \in Turns : turn'[u].pid = p /\ turn'[u].pc \in Hears => Attached(u, p)
  BY DEF Keeps, Quits, Attached
<1>4. ses.ps = p /\ ses.active = None => \A u \in Turns : ~Attached(u, p)
  BY DEF Heard
<1>5. \A a, t \in Turns : AskIn(turn[t].inbox, a) => AskIn(turn'[t].inbox, a)
  BY DEF Keeps, Quits
<1>6. ses'.ps = p => ses.ps = p \/ At(p, "prompted")
  BY DEF Tracked
<1>7. QED
  BY <1>2, <1>3, <1>4, <1>5, <1>6, HeardFrame

\* What has been asked stays asked, or is denied or answered to the process.
LEMMA AsksStay ==
    ASSUME Inv, Next, NEW p \in Turns, ses.ps = p, ses'.ps = p, NEW a \in Turns
    PROVE  /\ a \in ses.pending =>
                 a \in ses'.pending \/ [to |-> p, ask |-> a] \in replies'
           /\ [to |-> p, ask |-> a] \in replies =>
                 [to |-> p, ask |-> a] \in replies' \/ Cli(p)
<1> DEFINE r == [to |-> p, ask |-> a]
           Stays == /\ a \in ses.pending => a \in ses'.pending \/ r \in replies'
                    /\ r \in replies => r \in replies'
<1>1. ses \in Session /\ ses.on /\ p # None
  BY NoneAssumption DEF Inv, SesOK, NoSession
<1>2. r.to = p /\ r.ask = a
  OBVIOUS
<1>3. a \in ses.pending => r \in Denials(ses)
  BY <1>1 DEF Denials
<1>4. UNCHANGED <<ses, replies>> => Stays
  OBVIOUS
<1>5. ASSUME NEW t \in Turns, Send(t)
      PROVE  Stays
  <2>1. CASE SendEnter(t)
    BY <1>3, <1>1, <2>1 DEF SendEnter, Entry
  <2>2. CASE SendDirty(t)
    BY <1>1, <1>3, <2>2 DEF SendDirty
  <2>3. CASE SendCount(t) \/ SendEnv(t)
    BY <1>1, <2>3 DEF SendCount, SendEnv, Drift, Torn, Counted, Session
  <2>4. CASE \/ SendRelock(t) \/ SendReuse(t) \/ SendRespawn(t) \/ SendMint(t)
             \/ SendFresh(t) \/ SpawnCleared(t) \/ Store(t)
    BY <1>1, <2>4 DEF SendRelock, SendReuse, SendRespawn, SendMint, SendFresh,
       SpawnCleared, Store, Session
  <2>5. CASE \/ SendRead(t) \/ SendConfig(t) \/ SendError(t) \/ Spawn(t)
             \/ SpawnRetry(t) \/ SpawnError(t) \/ SpawnFails(t) \/ Prompt(t)
             \/ PromptFails(t)
    BY <1>4, <2>5, Zenon DEF SendRead, SendConfig, SendError, Spawn, SpawnRetry,
       SpawnError, SpawnFails, Prompt, PromptFails
  <2>6. QED
    BY <1>5, <2>1, <2>2, <2>3, <2>4, <2>5 DEF Send
<1>6. ASSUME NEW t \in Turns, Stream(t)
      PROVE  Stays
  <2>1. CASE OnInit(t) \/ OnAsk(t) \/ OnTask(t) \/ OnResult(t)
    BY <1>1, <2>1 DEF OnInit, OnAsk, OnTask, OnResult, Session
  <2>2. CASE InitSave(t) \/ AuthClear(t)
    BY <1>4, <2>2 DEF InitSave, AuthClear
  <2>3. CASE AuthReset(t)
    BY <1>1, <2>3 DEF AuthReset, Session
  <2>4. CASE OnExit(t)
    <3>1. (ses' = NoSession \/ ses' = Exited(ses) \/ ses' = ses) /\ replies' = replies
      BY <2>4, Zenon DEF OnExit
    <3>2. NoSession.ps = None /\ Exited(ses).ps = None
      BY <1>1 DEF NoSession, Exited, Session
    <3>3. QED
      BY <1>1, <3>1, <3>2
  <2>5. QED
    BY <1>6, <2>1, <2>2, <2>3, <2>4 DEF Stream
<1>7. ASSUME NEW q \in Turns, Cli(q)
      PROVE  Stays \/ Cli(p)
  <2>1. CASE q = p
    BY <1>7, <2>1
  <2>2. CASE q # p
    BY <1>2, <1>7, <2>2 DEF Cli, CliOnly, CliInit, CliAsk, CliReply, CliTask,
       CliResult, CliStops, CliCrashes, ProcExited
  <2>3. QED
    BY <2>1, <2>2
<1>8. ASSUME ResetAgentSession \/ AppRestart
      PROVE  FALSE
  BY <1>1, <1>8 DEF ResetAgentSession, AppRestart, Removed, NoSession
<1>9. CASE StopAgent
  BY <1>3, <1>9 DEF StopAgent
<1>10. ASSUME NEW b \in Turns, SubmitAnswer(b) \/ SubmitApprovalFails(b)
       PROVE  Stays
  BY <1>1, <1>10 DEF SubmitAnswer, SubmitApprovalFails, Answered, Session
<1>11. ASSUME TasksOver
       PROVE  Stays
  BY <1>1, <1>11 DEF TasksOver, Session
<1>12. ASSUME MarkDirty
       PROVE  Stays
  BY <1>1, <1>12 DEF MarkDirty, Session
<1>13. ASSUME ResetClear \/ ToggleServer \/ \E q \in Turns : KillAgent(q)
       PROVE  Stays
  BY <1>4, <1>13 DEF ResetClear, ToggleServer, KillAgent
<1>14. ASSUME ~Cli(p)
       PROVE  Stays
  BY <1>5, <1>6, <1>7, <1>8, <1>9, <1>10, <1>11, <1>12, <1>13, <1>14 DEF Next
<1>15. CASE Cli(p)
  <2>1. ses' = ses
    BY <1>15 DEF Cli, CliOnly, CliInit, CliAsk, CliReply, CliTask, CliResult, CliStops,
       CliCrashes, ProcExited
  <2>2. QED
    BY <1>15, <2>1
<1>16. QED
  BY <1>14, <1>15

\* Each step keeps what Heard says of a tracked process: the CLI's own steps.
LEMMA CliHeard ==
    ASSUME Inv, Hearing, Next, NEW p \in Turns, Tracked(p)', Tracked(p),
           NEW q \in Turns, Cli(q)
    PROVE  Heard(p)'
<1>1. /\ turn \in [Turns -> TurnState] /\ p # None /\ Heard(p)
      /\ \A u \in Turns : turn[u].inbox \in Seq(Events)
      /\ \A u \in Turns : InboxOK(u)
  BY NoneAssumption DEF Hearing, Inv, TurnOK, TurnState
<1>2. ses' = ses /\ kills' = kills
  BY Zenon DEF Cli, CliOnly, CliInit, CliAsk, CliReply, CliTask, CliResult, CliStops,
     CliCrashes, ProcExited
<1>3. proc \in [Turns -> Process] /\ proc[p] \in Process /\ Live(p)
  BY DEF Inv, ProcOK, Tracked
<1>4. \A u \in Turns : turn'[u] = turn[u] \/ \E e \in Events : Gets(u, q, e)
  BY <1>1, CliEvents, BroadcastGets
<1>5. \A u \in Turns : turn'[u].pid = turn[u].pid /\ turn'[u].pc = turn[u].pc
  BY <1>4 DEF Gets
<1>6. \A a, u \in Turns : AskIn(turn[u].inbox, a) => AskIn(turn'[u].inbox, a)
  <2>1. SUFFICES ASSUME NEW a \in Turns, NEW u \in Turns, AskIn(turn[u].inbox, a)
                 PROVE  AskIn(turn'[u].inbox, a)
    OBVIOUS
  <2>2. ASSUME NEW e \in Events, Gets(u, q, e)
        PROVE  AskIn(turn'[u].inbox, a)
    <3>1. turn[u].inbox \in Seq(Events)
      BY <1>1
    <3>2. AskIn(Append(turn[u].inbox, e), a)
      BY <2>1, <3>1, AppendAsks
    <3>3. QED
      BY <2>2, <3>2 DEF Gets
  <2>3. QED
    BY <1>4, <2>1, <2>2
\* The step is a frame if the process keeps its prompt and asks nothing new.
<1>7. ASSUME proc'[p].queue = proc[p].queue,
             proc'[p].phase = "asking" => proc[p].phase = "asking",
             \A u \in Turns : turn[u].sub = p => turn'[u].sub = p,
             \A a \in Turns : proc'[p].phase = "asking" /\ [to |-> p, ask |-> a] \in replies
                 => [to |-> p, ask |-> a] \in replies'
      PROVE  Heard(p)'
  <2>1. \A u \in Turns : turn'[u].pid = p /\ turn'[u].pc \in Hears => Attached(u, p)
    BY <1>5 DEF Attached
  <2>2. ses'.ps = p /\ ses'.active = None =>
            \A u \in Turns : ~(turn'[u].pid = p /\ turn'[u].pc \in Hears)
    BY <1>1, <1>2, <2>1 DEF Heard
  <2>3. ses'.ps = p => ses.ps = p \/ At(p, "prompted")
    BY DEF Tracked
  <2>4. turn'[p].pc = "prompted" => At(p, "prompted")
    BY <1>5 DEF At
  <2>5. QED
    BY <1>1, <1>2, <1>6, <1>7, <2>1, <2>2, <2>3, <2>4, HeardFrame
<1>8. CASE q # p
  <2>1. proc'[p].queue = proc[p].queue /\ proc'[p].phase = proc[p].phase
    BY <1>3, <1>8, Zenon DEF Cli, CliInit, CliAsk, CliReply, CliTask, CliResult, CliStops,
       CliCrashes, ProcExited, Kill
  <2>2. \A u \in Turns : turn[u].sub = p => turn'[u].sub = p
    BY <1>4, <1>8 DEF Gets
  <2>3. \A a \in Turns : [to |-> p, ask |-> a] \in replies
                 => [to |-> p, ask |-> a] \in replies'
    BY <1>8 DEF Cli, CliInit, CliAsk, CliReply, CliTask, CliResult, CliStops,
       CliCrashes, ProcExited
  <2>4. QED
    BY <1>7, <2>1, <2>2, <2>3
<1>9. ASSUME NEW e \in Events, turn' = Broadcast(p, e), e.kind \notin Ends
      PROVE  /\ \A u \in Turns : turn[u].sub = p => turn'[u].sub = p
             /\ \A u \in Turns : turn[u].sub = p => AskIn(turn'[u].inbox, e.ask)
  <2>1. \A u \in Turns : turn[u].sub = p => Gets(u, p, e)
    BY <1>1, <1>9, BroadcastGets
  <2>2. \A u \in Turns : AskIn(Append(turn[u].inbox, e), e.ask)
    BY <1>1, <1>9, AppendAsks
  <2>3. QED
    BY <1>9, <2>1, <2>2 DEF Gets
<1>10. CASE CliInit(p) \/ CliTask(p)
  <2>1. PICK k \in {"init", "task"} : turn' = Broadcast(p, Event(k))
    BY <1>10 DEF CliInit, CliTask
  <2>2. Event(k) \in Events /\ Event(k).kind \notin Ends
    BY <2>1 DEF Event, Events, Ends
  <2>3. proc'[p].queue = proc[p].queue /\ proc'[p].phase = "working"
    <3>1. CASE CliInit(p)
      BY <1>3, <3>1 DEF CliInit, Process
    <3>2. CASE CliTask(p)
      BY <1>3, <3>2 DEF CliTask, Process
    <3>3. QED
      BY <1>10, <3>1, <3>2
  <2>4. QED
    BY <1>7, <1>9, <2>1, <2>2, <2>3
<1>11. CASE CliReply(p)
  <2>1. proc'[p].queue = proc[p].queue /\ proc'[p].phase = "working"
    BY <1>3, <1>11 DEF CliReply, Process
  <2>2. turn' = turn
    BY <1>11 DEF CliReply
  <2>3. QED
    BY <1>7, <2>1, <2>2
<1>12. CASE CliStops(p) \/ CliCrashes(p) \/ ProcExited(p)
  <2>1. CASE CliStops(p) \/ CliCrashes(p)
    <3>1. proc' = Kill(proc, {p})
      BY <2>1 DEF CliStops, CliCrashes
    <3>2. proc'[p] = [proc[p] EXCEPT !.st = "killed"]
      BY <1>3, <3>1 DEF Kill, Live
    <3>3. QED
      BY <1>3, <3>2 DEF Tracked, Live, Process
  <2>2. CASE ProcExited(p)
    BY <1>3, <2>2 DEF ProcExited, Live
  <2>3. QED
    BY <1>12, <2>1, <2>2
<1>13. proc[p].phase # "idle" =>
           \E u \in Turns : proc[p].queue = <<u>> /\ turn[u].sub = p /\ Attached(u, p)
  <2>1. proc[p].phase # "idle" => proc[p].queue # <<>>
    BY DEF Inv, ProcOK, WorkHasPrompt
  <2>2. \A u \in Turns : turn[u].sub = p => Attached(u, p)
    BY <1>1 DEF InboxOK, Attached
  <2>3. QED
    BY <1>1, <2>1, <2>2 DEF Heard
<1>14. CASE CliAsk(p)
  <2>1. PICK u \in Turns : proc[p].queue = <<u>> /\ turn[u].sub = p /\ Attached(u, p)
    BY <1>13, <1>14 DEF CliAsk
  <2>2. PICK e \in Events : e = [kind |-> "ask", ask |-> u]
    BY DEF Events
  <2>3. turn' = Broadcast(p, e)
    BY <1>14, <2>1, <2>2 DEF CliAsk
  <2>4. e.kind \notin Ends /\ e.ask = u
    BY <2>2 DEF Ends
  <2>5. turn'[u].sub = p /\ AskIn(turn'[u].inbox, u)
    BY <1>9, <2>1, <2>3, <2>4
  <2>6. proc'[p].queue = <<u>>
    BY <1>3, <1>14, <2>1 DEF CliAsk, Process
  <2>7. At(p, "prompted")' => u = p
    <3>1. At(p, "prompted")' => Attached(p, p)
      BY <1>5 DEF At, Attached, Hears, Hearing, Unshared
    <3>2. QED
      BY <1>1, <2>1, <3>1 DEF Heard
  <2>8. \A v \in Turns : Attached(v, p)' => Attached(v, p)
    BY <1>5 DEF Attached
  <2>9. QED
    BY <1>1, <1>2, <2>5, <2>6, <2>7, <2>8 DEF Heard, AnswerOnItsWay, AskIn
<1>15. CASE CliResult(p)
  <2>1. PICK u \in Turns : proc[p].queue = <<u>>
    BY <1>13, <1>15 DEF CliResult
  <2>2. proc'[p].queue = <<>> /\ proc'[p].phase = "idle"
    BY <1>3, <1>15, <2>1 DEF CliResult, Process
  <2>3. \A v \in Turns : Attached(v, p)' => Attached(v, p)
    BY <1>5 DEF Attached
  <2>4. QED
    BY <1>1, <1>2, <2>2, <2>3 DEF Heard
<1>16. QED
  BY <1>8, <1>10, <1>11, <1>12, <1>14, <1>15 DEF Cli

\* A call that prompts the process: it is alone with it.
LEMMA PromptHeard ==
    ASSUME Inv, Hearing, Next, NEW p \in Turns, Tracked(p)', NEW t \in Turns, Prompt(t),
           Tracked(p) \/ p = t
    PROVE  Heard(p)'
<1>1. turn \in [Turns -> TurnState] /\ p # None /\ t # None
  BY NoneAssumption DEF Inv, TurnOK
<1>2. proc \in [Turns -> Process] /\ proc[p] \in Process
  BY DEF Inv, ProcOK
<1>3. /\ turn[t].pc = "spawned" /\ turn'[t].pc = "prompted"
      /\ turn'[t].pid = t /\ turn'[t].sub = t /\ turn'[t].inbox = turn[t].inbox
      /\ ses' = ses /\ replies' = replies
      /\ \A u \in Turns : u # t => turn'[u] = turn[u]
  BY <1>1 DEF Prompt, Subscribed, At, TurnState
<1>4. Unshared(t) /\ InboxOK(t)
  BY DEF Hearing
<1>5. turn[t].sub = None /\ turn[t].pc \notin Hears
  BY <1>3, <1>4 DEF InboxOK, Hears
<1>6. CASE p = t
  <2>1. proc[t].queue = <<>> /\ proc[t].phase = "idle"
    BY <1>2, <1>3, <1>4, <1>6 DEF Unshared, At, Inv, ProcOK, WorkHasPrompt, Process
  <2>2. proc'[t].queue = <<t>> /\ proc'[t].phase = "idle"
    BY <1>2, <1>6, <2>1 DEF Prompt, Prompted, Process
  <2>3. \A u \in Turns : Attached(u, t)' => u = t
    BY <1>3, <1>4 DEF Attached, Unshared, Stored
  <2>4. ses.ps # t
    BY <1>3, <1>4 DEF Unshared, Stored
  <2>5. QED
    BY <1>3, <1>6, <2>2, <2>3, <2>4 DEF Heard
<1>7. CASE p # t /\ Tracked(p)
  <2>1. Heard(p)
    BY <1>7 DEF Hearing
  <2>2. proc'[p] = proc[p]
    BY <1>2, <1>7 DEF Prompt, Prompted
  <2>3. \A u \in Turns : turn[u].sub = p => turn'[u].sub = p
    BY <1>1, <1>3, <1>5
  <2>4. \A u \in Turns : turn'[u].pid = p /\ turn'[u].pc \in Hears => Attached(u, p)
    BY <1>3, <1>7 DEF Attached
  <2>5. ses'.ps = p /\ ses'.active = None =>
            \A u \in Turns : ~(turn'[u].pid = p /\ turn'[u].pc \in Hears)
    BY <1>3, <2>1, <2>4 DEF Heard
  <2>6. \A a, u \in Turns : AskIn(turn[u].inbox, a) => AskIn(turn'[u].inbox, a)
    BY <1>3
  <2>7. turn'[p].pc = "prompted" => At(p, "prompted")
    BY <1>3, <1>7 DEF At
  <2>8. ses'.ps = p => ses.ps = p \/ At(p, "prompted")
    BY <1>7 DEF Tracked
  <2>9. QED
    BY <1>3, <2>1, <2>2, <2>3, <2>4, <2>5, <2>6, <2>7, <2>8, HeardFrame
<1>8. QED
  BY <1>6, <1>7

\* A call that reuses the tab's process finds nobody on it.
LEMMA ReuseHeard ==
    ASSUME Inv, Hearing, Next, NEW p \in Turns, Tracked(p)', Tracked(p),
           NEW t \in Turns, SendReuse(t)
    PROVE  Heard(p)'
<1>1. turn \in [Turns -> TurnState] /\ p # None /\ t # None /\ Heard(p)
  BY NoneAssumption DEF Hearing, Inv, TurnOK
<1>2. proc \in [Turns -> Process] /\ proc[p] \in Process
  BY DEF Inv, ProcOK
<1>3. /\ turn[t].pc = "ready" /\ turn'[t].pc = "streaming"
      /\ turn'[t].pid = ses.ps /\ turn'[t].sub = ses.ps
      /\ \A u \in Turns : u # t => turn'[u] = turn[u]
  BY <1>1 DEF SendReuse, Subscribed, At, TurnState
<1>4. ses.ps # None /\ ses'.ps = ses.ps /\ ses'.active = ses.ps
  BY DEF SendReuse, Inv, SesOK, Session
<1>5. InProgress(t)
  BY <1>3 DEF InProgress, Between
<1>6. ses.active = None
  BY <1>5 DEF Hearing, OneCall
<1>7. ses.ps = p
  <2>1. At(p, "prompted") => InProgress(p)
    BY DEF At, InProgress, Between
  <2>2. At(p, "prompted") => p = t
    BY <1>5, <2>1 DEF Hearing, OneCall
  <2>3. QED
    BY <1>3, <2>2 DEF Tracked, At
<1>8. \A u \in Turns : ~Attached(u, p)
  BY <1>1, <1>6, <1>7 DEF Heard
<1>9. proc[p].queue = <<>>
  <2>1. \A u \in Turns : turn[u].sub = p => Attached(u, p)
    BY <1>1 DEF Hearing, InboxOK, Attached
  <2>2. QED
    BY <1>1, <1>8, <2>1 DEF Heard
<1>10. proc'[p].queue = <<t>> /\ proc'[p].phase = "idle"
  BY <1>2, <1>7, <1>9 DEF SendReuse, Prompted, Inv, ProcOK, WorkHasPrompt, Process
<1>11. \A u \in Turns : Attached(u, p)' => u = t
  BY <1>3, <1>8 DEF Attached
<1>12. QED
  BY <1>1, <1>3, <1>4, <1>7, <1>10, <1>11 DEF Heard

\* The steps of the calls that prompt nobody.
LEMMA SendHeard ==
    ASSUME Inv, Hearing, Next, NEW p \in Turns, Tracked(p)', Tracked(p),
           NEW t \in Turns, Send(t), ~SendReuse(t), ~Prompt(t),
           proc'[p].queue = proc[p].queue, proc'[p].phase = proc[p].phase, ~Cli(p)
    PROVE  Heard(p)'
<1>1. turn \in [Turns -> TurnState] /\ p # None /\ t # None /\ Heard(p) /\ InboxOK(t)
  BY NoneAssumption DEF Hearing, Inv, TurnOK
<1>2. \A u \in Turns : u # t => Keeps(u)
  BY OthersKeep DEF Keeps
<1>3. /\ At(p, "prompted")' => At(p, "prompted") \/ Prompt(p)
      /\ ses'.ps = p => ses.ps = p \/ Store(p)
  BY TrackedBefore
<1>4. turn'[p].pc = "prompted" => At(p, "prompted")
  <2>1. ~Prompt(p)
    <3>1. p # t => turn'[p] = turn[p]
      BY OthersKeep
    <3>2. Prompt(p) => turn[p].pc = "spawned" /\ turn'[p].pc = "prompted"
      BY <1>1 DEF Prompt, Subscribed, At, TurnState
    <3>3. QED
      BY <3>1, <3>2
  <2>2. QED
    BY <1>3, <2>1 DEF At
<1>5. \A a \in Turns : ses.ps = p /\ ses'.ps = p
          /\ (a \in ses.pending \/ [to |-> p, ask |-> a] \in replies) =>
                a \in ses'.pending \/ [to |-> p, ask |-> a] \in replies'
  BY AsksStay
<1>6. CASE ~Store(t)
  <2>1. turn[t].pc \notin Hears
    BY <1>6 DEF Send, SendRead, SendConfig, SendEnter, SendRelock, SendDirty, SendCount,
       SendEnv, SendError, SendRespawn, SendMint, SendFresh, Spawn, SpawnRetry,
       SpawnError, SpawnFails, SpawnCleared, PromptFails, Released, At, Hears
  <2>2. turn[t].inbox = <<>> /\ turn[t].sub = None
    BY <1>1, <2>1 DEF InboxOK
  <2>3. ~Pops(t) /\ ~Opens(t) /\ \A q \in Turns, e \in Events : ~Gets(t, q, e)
    BY <2>2, NoneAssumption DEF Pops, Opens, Gets
  <2>4. Ended(t) => Quits(t)
    BY <2>2 DEF Ended, Over, NewTurn, Quits, AskIn, Hears
  <2>5. \A u \in Turns : Keeps(u) \/ Quits(u)
    BY <1>2, <2>3, <2>4, HearMoves
  <2>6. ses'.ps = p /\ ses'.active = None => ses.ps = p /\ ses.active = None
    <3>1. SUFFICES ASSUME ses'.ps = p
                   PROVE  ses.ps = p /\ (ses'.active = None => ses.active = None)
      OBVIOUS
    <3>2. ~Store(p)
      <4>1. p # t => turn'[p] = turn[p]
        BY OthersKeep
      <4>2. Store(p) => turn[p].pc = "prompted" /\ turn'[p].pc # "prompted"
        <5>1. Store(p) => turn'[p].pc \in {"streaming", "failed"}
          BY <1>1 DEF Store, Goto, Failed, Over, NewTurn, TurnState
        <5>2. QED
          BY <5>1 DEF Store, At
      <4>3. QED
        BY <1>6, <4>1, <4>2
    <3>3. CASE SendRead(t)
      BY <1>3, <3>1, <3>2, <3>3 DEF SendRead
    <3>4. CASE ~SendRead(t)
      <4>1. InProgress(t)
        BY <1>6, <3>4 DEF Send, SendConfig, SendEnter, SendRelock, SendDirty, SendCount,
           SendEnv, SendError, SendRespawn, SendMint, SendFresh, Spawn, SpawnRetry,
           SpawnError, SpawnFails, SpawnCleared, PromptFails, Released, At, InProgress,
           Between
      <4>2. QED
        BY <1>3, <3>1, <3>2, <4>1 DEF Hearing, OneCall
    <3>5. QED
      BY <3>3, <3>4
  <2>7. QED
    BY <1>1, <1>4, <1>5, <2>5, <2>6, QuietFrame
<1>7. CASE Store(t)
  <2>1. turn[t].pc = "prompted" /\ InProgress(t)
    BY <1>7 DEF Store, At, InProgress, Between
  <2>2. CASE ses.on
    <3>1. /\ turn' = [turn EXCEPT ![t].pc = "streaming"]
          /\ ses' = [ses EXCEPT !.ps = t, !.active = t, !.sid = turn[t].sid]
      BY <1>7, <2>2 DEF Store, Goto
    <3>2. Keeps(t)
      BY <1>1, <2>1, <3>1 DEF Keeps, Hears, TurnState
    <3>3. ses'.active = t
      BY <3>1 DEF Inv, SesOK, Session
    <3>4. QED
      BY <1>1, <1>2, <1>4, <1>5, <3>2, <3>3, QuietFrame
  <2>3. CASE ~ses.on
    <3>1. ses' = ses /\ ses.ps = None /\ turn' = Failed(t)
      BY <1>7, <2>3 DEF Store, Inv, SesOK, NoSession
    <3>2. turn'[t].pc = "failed"
      BY <1>1, <3>1 DEF Failed, Over, NewTurn
    <3>3. At(p, "prompted") /\ turn'[p].pc = "prompted"
      BY <1>1, <1>4, <3>1 DEF Tracked, At
    <3>4. p = t
      BY <2>1, <3>3 DEF Hearing, OneCall, InProgress, Between, At
    <3>5. QED
      BY <3>2, <3>3, <3>4
  <2>4. QED
    BY <2>2, <2>3
<1>8. QED
  BY <1>6, <1>7

\* The steps of a stream task: what it pops is queued, or asks nothing, and it only
\* ends on the last event.
LEMMA StreamHeard ==
    ASSUME Inv, Hearing, Next, NEW p \in Turns, Tracked(p)', Tracked(p),
           NEW t \in Turns, Stream(t),
           proc'[p].queue = proc[p].queue, proc'[p].phase = proc[p].phase, ~Cli(p)
    PROVE  Heard(p)'
<1>1. turn \in [Turns -> TurnState] /\ p # None /\ t # None /\ Heard(p) /\ InboxOK(t)
      /\ turn[t].inbox \in Seq(Events) /\ turn[t] \in TurnState
  BY NoneAssumption DEF Hearing, Inv, TurnOK, TurnState
<1>2. /\ \A u \in Turns : u # t => turn'[u] = turn[u]
      /\ \A u \in Turns : u # t => Keeps(u)
  BY OthersKeep DEF Keeps
<1>3. turn[t].pc \in {"streaming", "saving", "auth", "authClear"}
  BY DEF Stream, OnInit, InitSave, OnAsk, OnTask, OnResult, AuthReset, AuthClear, OnExit,
     Arrived, At
<1>4. ses'.ps = p => ses.ps = p
  <2>1. Store(p) => turn[p].pc = "prompted" /\ turn'[p].pc # "prompted"
    <3>1. Store(p) => turn'[p].pc \in {"streaming", "failed"}
      BY <1>1 DEF Store, Goto, Failed, Over, NewTurn, TurnState
    <3>2. QED
      BY <3>1 DEF Store, At
  <2>2. ~Store(p)
    BY <1>2, <1>3, <2>1
  <2>3. QED
    BY <2>2, TrackedBefore
<1>5. turn'[p].pc = "prompted" => At(p, "prompted")
  <2>1. Prompt(p) => turn[p].pc = "spawned" /\ turn'[p].pc = "prompted"
    BY <1>1 DEF Prompt, Subscribed, At, TurnState
  <2>2. ~Prompt(p)
    BY <1>2, <1>3, <2>1
  <2>3. QED
    BY <2>2, TrackedBefore DEF At
<1>6. \A a \in Turns : ses.ps = p /\ ses'.ps = p
          /\ (a \in ses.pending \/ [to |-> p, ask |-> a] \in replies) =>
                a \in ses'.pending \/ [to |-> p, ask |-> a] \in replies'
  BY AsksStay
<1>7. ses'.ps = p => ses.on /\ ses \in Session
  BY <1>1, <1>4 DEF Inv, SesOK, NoSession
\* A step that keeps the call listening hands an event out, an ask into the entry.
<1>8. ASSUME turn'[t].pid = turn[t].pid, turn'[t].sub = turn[t].sub,
             turn[t].pc = "streaming", turn'[t].pc # "prompted",
             ses'.ps = p => ses'.active = ses.active,
             \A a \in Turns : ses'.ps = p /\ AskIn(turn[t].inbox, a) =>
                 a \in ses'.pending \/ AskIn(turn'[t].inbox, a)
      PROVE  Heard(p)'
  <2>1. \A u \in Turns : turn[u].sub = p => turn'[u].sub = p
    BY <1>2, <1>8
  <2>2. \A u \in Turns : turn'[u].pid = p /\ turn'[u].pc \in Hears => Attached(u, p)
    BY <1>2, <1>8 DEF Attached, Hears
  <2>3. ses'.ps = p /\ ses'.active = None =>
            \A u \in Turns : ~(turn'[u].pid = p /\ turn'[u].pc \in Hears)
    BY <1>1, <1>4, <1>8, <2>2 DEF Heard
  <2>4. \A a, u \in Turns : ses'.ps = p /\ AskIn(turn[u].inbox, a) =>
            a \in ses'.pending \/ AskIn(turn'[u].inbox, a)
    BY <1>2, <1>8
  <2>5. \A a \in Turns : turn'[p].pc = "prompted" /\ AskIn(turn[p].inbox, a) =>
            AskIn(turn'[p].inbox, a)
    BY <1>2, <1>8
  <2>6. QED
    BY <1>1, <1>4, <1>5, <1>6, <2>1, <2>2, <2>3, <2>4, <2>5, HeardFrame
<1>9. \A a \in Turns : turn[t].inbox # <<>> /\ AskIn(turn[t].inbox, a)
          /\ Head(turn[t].inbox).ask # a => AskIn(Tail(turn[t].inbox), a)
  BY <1>1, TailAsks
<1>10. ASSUME turn[t].inbox # <<>>, Head(turn[t].inbox).kind # "ask"
       PROVE  \A a \in Turns : Head(turn[t].inbox).ask # a
  <2>1. Head(turn[t].inbox) \in Events
    BY <1>1, <1>10
  <2>2. QED
    BY <1>10, <2>1, NoneAssumption DEF Events
<1>11. CASE OnInit(t)
  <2>1. PICK pc \in Follows : \E n :
            turn' = [Popped(t, pc) EXCEPT ![t].init = TRUE, ![t].save = n]
    BY <1>11 DEF OnInit, Follows
  <2>2. /\ turn'[t].pid = turn[t].pid /\ turn'[t].sub = turn[t].sub
        /\ turn'[t].pc = pc /\ turn'[t].inbox = Tail(turn[t].inbox)
    BY <1>1, <2>1 DEF Popped, TurnState
  <2>3. /\ turn[t].pc = "streaming" /\ turn[t].inbox # <<>>
        /\ Head(turn[t].inbox).kind = "init"
    BY <1>11 DEF OnInit, Arrived, At
  <2>4. ses'.ps = p => ses'.active = ses.active
    BY <1>7, <1>11, <1>4 DEF OnInit, Session, Inv, SesOK
  <2>5. QED
    BY <1>8, <1>9, <1>10, <2>1, <2>2, <2>3, <2>4 DEF Follows
<1>12. CASE OnAsk(t)
  <2>1. /\ turn'[t].pid = turn[t].pid /\ turn'[t].sub = turn[t].sub
        /\ turn'[t].pc = "streaming" /\ turn'[t].inbox = Tail(turn[t].inbox)
    BY <1>1, <1>12 DEF OnAsk, Popped, TurnState
  <2>2. turn[t].pc = "streaming" /\ turn[t].inbox # <<>>
    BY <1>12 DEF OnAsk, Arrived, At
  <2>3. ses'.ps = p => /\ ses'.active = ses.active
                       /\ ses'.pending = ses.pending \cup {Head(turn[t].inbox).ask}
    BY <1>4, <1>7, <1>12 DEF OnAsk, Session, Inv, SesOK, NoSession
  <2>4. QED
    BY <1>8, <1>9, <2>1, <2>2, <2>3
<1>13. CASE OnTask(t)
  <2>1. /\ turn'[t].pid = turn[t].pid /\ turn'[t].sub = turn[t].sub
        /\ turn'[t].pc = "streaming" /\ turn'[t].inbox = Tail(turn[t].inbox)
    BY <1>1, <1>13 DEF OnTask, Popped, TurnState
  <2>2. /\ turn[t].pc = "streaming" /\ turn[t].inbox # <<>>
        /\ Head(turn[t].inbox).kind = "task"
    BY <1>13 DEF OnTask, Arrived, At
  <2>3. ses'.ps = p => ses'.active = ses.active
    BY <1>4, <1>7, <1>13 DEF OnTask, Session, Inv, SesOK, NoSession
  <2>4. QED
    BY <1>8, <1>9, <1>10, <2>1, <2>2, <2>3
\* A step that ends it comes after the last event.
<1>14. ASSUME Keeps(t) \/ Quits(t),
              ses'.ps = p => \/ ses'.active = None => ses.active = None
                             \/ turn[t].pid = p /\ ses.active = p
                                /\ turn[t].pc = "streaming" /\ Quits(t)
       PROVE  Heard(p)'
  <2>1. \A u \in Turns : Keeps(u) \/ Quits(u)
    BY <1>2, <1>14
  <2>2. ASSUME ses'.ps = p, turn[t].pid = p, turn[t].pc = "streaming", Quits(t)
        PROVE  \A u \in Turns : ~(turn'[u].pid = p /\ turn'[u].pc \in Hears)
    <3>1. Attached(t, p)
      BY <2>2 DEF Attached, Hears
    <3>2. \A u \in Turns : Attached(u, p) => u = t
      BY <1>1, <3>1 DEF Heard
    <3>3. QED
      BY <1>2, <2>2, <3>2 DEF Attached, Quits
  <2>3. QED
    BY <1>1, <1>4, <1>5, <1>6, <1>14, <2>1, <2>2, QuietFrame
<1>15. ASSUME turn[t].pc = "streaming", turn[t].inbox # <<>>,
              Head(turn[t].inbox).kind \in Ends, turn'[t].pc \notin Hears
       PROVE  Quits(t)
  <2>1. OnlyLastEnds(turn[t].inbox)
    BY <1>1 DEF InboxOK, OnlyLastEnds
  <2>2. /\ Tail(turn[t].inbox) = <<>>
        /\ 1 \in DOMAIN turn[t].inbox /\ Head(turn[t].inbox) = turn[t].inbox[1]
    BY <1>1, <1>15, <2>1, TailEnds
  <2>3. turn[t].sub = None
    BY <1>1, <1>15, <2>2 DEF InboxOK
  <2>4. \A a \in Turns : ~AskIn(turn[t].inbox, a)
    <3>1. \A a \in Turns : ~AskIn(Tail(turn[t].inbox), a)
      BY <2>2 DEF AskIn
    <3>2. QED
      BY <1>9, <1>10, <1>15, <3>1 DEF Ends
  <2>5. QED
    BY <1>15, <2>3, <2>4 DEF Quits
<1>16. ASSUME turn[t].pc \in {"auth", "authClear"}, turn'[t].pc \notin Hears
       PROVE  Quits(t)
  BY <1>1, <1>16 DEF InboxOK, Quits, AskIn, Hears
<1>17. /\ turn' = Done(t) => turn'[t].pc = "done"
       /\ turn' = Popped(t, "auth") => turn'[t].pc = "auth"
  BY <1>1 DEF Done, Over, NewTurn, Popped, TurnState
<1>18. CASE OnResult(t)
  <2>1. /\ turn[t].pc = "streaming" /\ turn[t].inbox # <<>>
        /\ Head(turn[t].inbox).kind \in Ends
    BY <1>18 DEF OnResult, Arrived, At, Ends
  <2>2. turn'[t].pc \in {"auth", "done"}
    BY <1>17, <1>18 DEF OnResult
  <2>3. Quits(t)
    BY <1>15, <2>1, <2>2 DEF Hears
  <2>4. CASE ses' = ses
    BY <1>14, <2>3, <2>4
  <2>5. CASE ses.active = turn[t].pid /\ ses.ps # None
    <3>1. ses.active # None => ses.active = ses.ps
      BY DEF Inv, SesOK, ActiveIsPersistent
    <3>2. ses.active = None \/ (ses'.ps = p => turn[t].pid = p /\ ses.active = p)
      BY <1>4, <2>5, <3>1
    <3>3. QED
      BY <1>14, <2>1, <2>3, <3>2
  <2>6. QED
    BY <1>18, <2>4, <2>5 DEF OnResult
<1>19. CASE OnExit(t)
  <2>1. /\ turn[t].pc = "streaming" /\ turn[t].inbox # <<>>
        /\ Head(turn[t].inbox).kind \in Ends
    BY <1>19 DEF OnExit, Arrived, At, Ends
  <2>2. Quits(t)
    BY <1>15, <1>17, <1>19, <2>1 DEF OnExit, Hears
  <2>3. ses' = NoSession \/ ses' = Exited(ses) \/ ses' = ses
    BY <1>19, Zenon DEF OnExit
  <2>4. NoSession.ps = None /\ Exited(ses).ps = None
    BY DEF NoSession, Exited, Session, Inv, SesOK
  <2>5. ses'.ps = p => ses' = ses
    BY <1>1, <2>3, <2>4
  <2>6. QED
    BY <1>14, <2>2, <2>5
<1>20. CASE InitSave(t)
  <2>1. ses' = ses /\ Keeps(t)
    BY <1>1, <1>20 DEF InitSave, Goto, At, Keeps, Hears, TurnState
  <2>2. QED
    BY <1>14, <2>1
<1>21. CASE AuthReset(t)
  <2>1. turn[t].pc = "auth" /\ turn'[t].pc \in {"authClear", "done"}
    BY <1>1, <1>17, <1>21 DEF AuthReset, At, TurnState
  <2>2. ses'.ps = p => ses' = ses
    BY <1>1, <1>21 DEF AuthReset, Inv, SesOK, Session
  <2>3. QED
    BY <1>14, <1>16, <2>1, <2>2 DEF Hears
<1>22. CASE AuthClear(t)
  <2>1. turn[t].pc = "authClear" /\ turn'[t].pc = "done" /\ ses' = ses
    BY <1>17, <1>22 DEF AuthClear, At
  <2>2. QED
    BY <1>14, <1>16, <2>1 DEF Hears
<1>23. QED
  BY <1>11, <1>12, <1>13, <1>18, <1>19, <1>20, <1>21, <1>22 DEF Stream

\* The user's commands: what they drain they answer, what they kill they give up.
LEMMA CommandHeard ==
    ASSUME Inv, Hearing, Next, NEW p \in Turns, Tracked(p)', Tracked(p),
           \/ \E a \in Turns : SubmitAnswer(a) \/ SubmitApprovalFails(a)
           \/ \E q \in Turns : KillAgent(q)
           \/ TasksOver \/ StopAgent \/ ResetAgentSession \/ ResetClear
           \/ ToggleServer \/ MarkDirty,
           proc'[p].queue = proc[p].queue, proc'[p].phase = proc[p].phase, ~Cli(p)
    PROVE  Heard(p)'
<1>1. p # None /\ Heard(p) /\ ses \in Session
  BY NoneAssumption DEF Hearing, Inv, SesOK
<1>2. turn' = turn
  BY DEF SubmitAnswer, SubmitApprovalFails, KillAgent, TasksOver, StopAgent,
     ResetAgentSession, ResetClear, ToggleServer, MarkDirty
<1>3. \A u \in Turns : Keeps(u)
  BY <1>2 DEF Keeps
<1>4. ses'.ps = p => ses.ps = p
  <2>1. Store(p) => turn[p].pc = "prompted" /\ turn'[p].pc # "prompted"
    <3>1. Store(p) => turn'[p].pc \in {"streaming", "failed"}
      BY DEF Store, Goto, Failed, Over, NewTurn, TurnState, Inv, TurnOK
    <3>2. QED
      BY <3>1 DEF Store, At
  <2>2. QED
    BY <1>2, <2>1, TrackedBefore
<1>5. \A a \in Turns : ses.ps = p /\ ses'.ps = p
          /\ (a \in ses.pending \/ [to |-> p, ask |-> a] \in replies) =>
                a \in ses'.pending \/ [to |-> p, ask |-> a] \in replies'
  BY AsksStay
<1>6. ses'.ps = p /\ ses'.active = None => ses.active = None
  <2>1. ResetAgentSession => ses'.ps = None
    BY DEF ResetAgentSession, Removed, NoSession
  <2>2. ASSUME StopAgent, ses'.ps = p
        PROVE  ses.active = None
    <3>1. ses.active # None => ses.active = ses.ps
      BY DEF Inv, SesOK, ActiveIsPersistent
    <3>2. ses.active # None => p \in kills'
      BY <1>4, <2>2, <3>1 DEF StopAgent
    <3>3. QED
      BY <3>2 DEF Tracked
  <2>3. ASSUME \/ \E a \in Turns : SubmitAnswer(a) \/ SubmitApprovalFails(a)
               \/ \E q \in Turns : KillAgent(q)
               \/ TasksOver \/ ResetClear \/ ToggleServer \/ MarkDirty
        PROVE  ses'.active = ses.active
    BY <1>1, <2>3 DEF SubmitAnswer, SubmitApprovalFails, Answered, KillAgent, TasksOver,
       ResetClear, ToggleServer, MarkDirty, Session
  <2>4. QED
    BY <1>1, <2>1, <2>2, <2>3
<1>7. turn'[p].pc = "prompted" => At(p, "prompted")
  BY <1>2 DEF At
<1>8. QED
  BY <1>1, <1>3, <1>4, <1>5, <1>6, <1>7, QuietFrame

\* The strengthening of NoHungAgent is inductive where a message waits for the turn
\* before it: one step per part, then one per kind of step for what p's CLI asks.
LEMMA HearingStays ==
    ASSUME Inv, Hearing, MessagesWait, Next
    PROVE  Hearing'
<1>1. OneCall' /\ \A t \in Turns : InboxOK(t)' /\ Unshared(t)'
  BY OneCallStays, InboxStays, UnsharedStays DEF Hearing
<1>2. ASSUME NEW p \in Turns, Tracked(p)'
      PROVE  Heard(p)'
  <2>1. /\ ~(Spawn(p) \/ SpawnRetry(p))
        /\ Tracked(p) \/ Prompt(p)
    BY <1>2, TrackedBefore
  <2>2. CASE Prompt(p)
    BY <1>2, <2>2, PromptHeard
  <2>3. CASE ~Prompt(p)
    <3>1. Tracked(p) /\ proc'[p].st = "live"
      BY <1>2, <2>1, <2>3 DEF Tracked, Live
    <3>2. ASSUME NEW q \in Turns, Cli(q)
          PROVE  Heard(p)'
      BY <1>2, <3>1, <3>2, CliHeard
    <3>3. ASSUME NEW t \in Turns, SendReuse(t)
          PROVE  Heard(p)'
      BY <1>2, <3>1, <3>3, ReuseHeard
    <3>4. ASSUME NEW t \in Turns, Prompt(t)
          PROVE  Heard(p)'
      BY <1>2, <3>1, <3>4, PromptHeard
    <3>5. ASSUME AppRestart
          PROVE  proc'[p].st # "live"
      <4>1. CASE proc[p].st = "none"
        BY <3>5, <4>1 DEF AppRestart
      <4>2. CASE proc[p].st # "none"
        BY <3>5, <4>2 DEF AppRestart, Gone, NoProcess
      <4>3. QED
        BY <4>1, <4>2
    <3>6. ASSUME \A q \in Turns : ~Cli(q) /\ ~SendReuse(q) /\ ~Prompt(q)
          PROVE  Heard(p)'
      <4>1. proc'[p].queue = proc[p].queue /\ proc'[p].phase = proc[p].phase /\ ~Cli(p)
        BY <2>1, <3>1, <3>6, QueueSteps DEF Cli, Live
      <4>2. ASSUME NEW t \in Turns, Send(t)
            PROVE  Heard(p)'
        BY <1>2, <3>1, <3>6, <4>1, <4>2, SendHeard
      <4>3. ASSUME NEW t \in Turns, Stream(t)
            PROVE  Heard(p)'
        BY <1>2, <3>1, <4>1, <4>3, StreamHeard
      <4>4. ASSUME \/ \E a \in Turns : SubmitAnswer(a) \/ SubmitApprovalFails(a)
                   \/ \E q \in Turns : KillAgent(q)
                   \/ TasksOver \/ StopAgent \/ ResetAgentSession \/ ResetClear
                   \/ ToggleServer \/ MarkDirty
            PROVE  Heard(p)'
        BY <1>2, <3>1, <4>1, <4>4, CommandHeard
      <4>5. QED
        BY <3>1, <3>5, <3>6, <4>2, <4>3, <4>4 DEF Next
    <3>7. QED
      BY <3>2, <3>3, <3>4, <3>6
  <2>4. QED
    BY <2>2, <2>3
<1>3. QED
  BY <1>1, <1>2 DEF Hearing

\* The tab's CLI is blocked on a permission request that nobody can answer only in a
\* behaviour in which some message was sent over a running turn (send_turn's comment at
\* session.rs:252): whether or not messages may overlap, no drain, teardown, answer,
\* Stop, Reset, restart or late event by itself drops the request of a running process.
THEOREM HangNeedsOverlap == Spec /\ [][MessagesWait]_vars => []NoHungAgent
<1>1. Init => Hearing
  <2>1. SUFFICES ASSUME Init
                 PROVE  Hearing
    OBVIOUS
  <2>2. \A t \in Turns : turn[t] = NewTurn /\ proc[t] = NoProcess
    BY <2>1 DEF Init
  <2>3. ses.ps = None /\ \A t \in Turns : t # None
    BY <2>1, NoneAssumption DEF Init, NoSession
  <2>4. OneCall
    BY <2>2 DEF OneCall, InProgress, Between, NewTurn
  <2>5. \A t \in Turns : InboxOK(t)
    BY <2>2 DEF InboxOK, NewTurn
  <2>6. \A t \in Turns : Unshared(t)
    BY <2>2, <2>3 DEF Unshared, NewTurn, At
  <2>7. \A p \in Turns : ~Tracked(p)
    BY <2>2 DEF Tracked, Live, NoProcess
  <2>8. QED
    BY <2>4, <2>5, <2>6, <2>7 DEF Hearing
<1>2. Inv /\ Hearing /\ [Next]_vars /\ [MessagesWait]_vars => Hearing'
  <2>1. ASSUME Hearing, UNCHANGED vars
        PROVE  Hearing'
    BY <2>1 DEF vars, Hearing, OneCall, InProgress, InboxOK, Unshared, Stored, Tracked,
       Live, Heard, Attached, AnswerOnItsWay, At
  <2>2. QED
    BY <2>1, HearingStays
<1>3. Hearing => NoHungAgent
  BY DEF Hearing, Tracked, Heard, NoHungAgent
<1>4. QED
  BY <1>1, <1>2, <1>3, Invariance, PTL DEF Spec

=============================================================================

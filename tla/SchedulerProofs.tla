--------------------------- MODULE SchedulerProofs ---------------------------
(***************************************************************************)
(* Proofs about Scheduler, for any sets of tasks, workspaces and clients and *)
(* any bounds: the type invariant, and the inductive invariant Inv from      *)
(* which the table, one-shot, coalescing and pause properties follow.        *)
(***************************************************************************)
EXTENDS Scheduler, FiniteSetTheorems, SequenceTheorems, WellFoundedInduction, TLAPS

-----------------------------------------------------------------------------
\* The operators the model is built from.

\* Every non-empty set of naturals has a least element.
LEMMA LeastNatural ==
    \A T \in SUBSET Nat : T # {} => \E m \in T : \A n \in T : m <= n
<1>1. \A a, b \in Nat : a < b => <<a, b>> \in OpToRel(<, Nat)
  BY Zenon DEF OpToRel
<1>2. SUFFICES ASSUME NEW T \in SUBSET Nat, T # {}
               PROVE  \E m \in T : \A n \in T : m <= n
  OBVIOUS
<1>3. \E m \in T : \A n \in T : ~(<<n, m>> \in OpToRel(<, Nat))
  BY <1>2, NatLessThanWellFounded, WFMin, Zenon
<1>4. PICK m \in T : \A n \in T : ~(<<n, m>> \in OpToRel(<, Nat))
  BY <1>3, Zenon
<1>5. \A n \in T : ~(n < m)
  BY <1>1, <1>4, Zenon
<1>6. QED
  BY <1>5

\* next_cron_run_utc returns no time, or the first match after `from`.
LEMMA NextCronSpec ==
    ASSUME NEW cron \in SUBSET Time, NEW from \in Time
    PROVE  /\ NextCron(cron, from) \in TimeOrNone
           /\ NextCron(cron, from) # NoTime =>
                /\ NextCron(cron, from) \in cron
                /\ NextCron(cron, from) > from
                /\ \A m \in cron : m > from => NextCron(cron, from) <= m
<1> DEFINE after == {m \in cron : m > from}
<1>1. after \in SUBSET Nat
  <2>1. Time \subseteq Nat
    BY BoundsAssumption DEF Time
  <2>2. QED
    BY <2>1, Zenon
<1>2. CASE after = {}
  BY <1>2 DEF NextCron, TimeOrNone
<1>3. CASE after # {}
  <2>1. \E m \in after : \A n \in after : m <= n
    BY <1>1, <1>3, LeastNatural, Zenon
  <2>2. NextCron(cron, from) = CHOOSE m \in after : \A n \in after : m <= n
    BY <1>3 DEF NextCron
  <2>3. NextCron(cron, from) \in after /\ \A n \in after : NextCron(cron, from) <= n
    BY <2>1, <2>2, Zenon
  <2>4. QED
    BY <2>3 DEF TimeOrNone
<1>4. QED
  BY <1>2, <1>3

\* The fire time a resume computes is a time, or NoTime for a rejected resume.
LEMMA ResumeFireTimeType ==
    ASSUME TypeOK, NEW t \in Tasks
    PROVE  ResumeFireTime(t) \in TimeOrNone
<1>1. row[t] \in TaskRow /\ now \in Time
  BY DEF TypeOK
<1>2. NextCron(row[t].cron, now) \in TimeOrNone
  BY <1>1, NextCronSpec DEF TaskRow
<1>3. QED
  BY <1>1, <1>2, BoundsAssumption DEF ResumeFireTime, TaskRow, TimeOrNone, Time, NoTime

\* The loop never sleeps longer than MaxWait.
LEMMA ClampWaitType ==
    ASSUME NEW next \in TimeOrNone, now \in Time
    PROVE  ClampWait(next) \in 0 .. MaxWait
BY BoundsAssumption DEF ClampWait, TimeOrNone, Time, NoTime

\* next_agent_schedule_fire_at returns the time of some armed row, or none.
LEMMA NextFireAtType ==
    ASSUME TypeOK
    PROVE  NextFireAt \in TimeOrNone
<1> DEFINE armed == {row[t].next : t \in {u \in stored : row[u].enabled
                                          /\ row[u].next # NoTime /\ Available(u)}}
<1>1. armed \in SUBSET Time
  BY DEF TypeOK, TaskRow, TimeOrNone
<1>2. armed \in SUBSET Nat
  BY <1>1, BoundsAssumption DEF Time
<1>3. CASE armed = {}
  BY <1>3 DEF NextFireAt, TimeOrNone
<1>4. CASE armed # {}
  <2>1. \E n \in armed : \A m \in armed : n <= m
    BY <1>2, <1>4, LeastNatural, Zenon
  <2>2. NextFireAt = CHOOSE n \in armed : \A m \in armed : n <= m
    BY <1>4 DEF NextFireAt
  <2>3. NextFireAt \in armed
    BY <2>1, <2>2, Zenon
  <2>4. QED
    BY <2>3, <1>1 DEF TimeOrNone
<1>5. QED
  BY <1>3, <1>4

\* The due list is a sequence of tasks.
LEMMA DueListsType ==
    ASSUME NEW time, NEW s \in DueLists(time)
    PROVE  s \in Seq(Tasks)
<1> DEFINE due == {t \in Tasks : DueAt(t, time) /\ Available(t)}
<1>1. IsFiniteSet(due)
  BY InputsAssumption, FS_Subset, Zenon
<1>2. Cardinality(due) \in Nat
  BY <1>1, FS_CardinalityType, Zenon
<1>3. s \in [1 .. Cardinality(due) -> Tasks]
  BY DEF DueLists
<1>4. \A n \in Nat : [1 .. n -> Tasks] \subseteq Seq(Tasks)
  BY SMT
<1>5. QED
  BY <1>2, <1>3, <1>4, Zenon

\* A row before its first insert, and a dispatcher outside every command, are well
\* typed: resolve_schedule_target starts from such a row.
LEMMA BlankTypes ==
    /\ BlankRow \in TaskRow
    /\ IdleJob \in JobState
<1>1. (CHOOSE w \in Workspaces : TRUE) \in Workspaces
  BY InputsAssumption, Zenon
<1>2. (CHOOSE t \in Tasks : TRUE) \in Tasks
  BY InputsAssumption, Zenon
<1>3. BlankRow \in TaskRow
  BY <1>1 DEF BlankRow, TaskRow, TimeOrNone, Reasons
<1>4. IdleJob \in JobState
  BY <1>2, BoundsAssumption DEF IdleJob, JobState, Errors, Time
<1>5. QED
  BY <1>3, <1>4
-----------------------------------------------------------------------------
\* Type correctness.

\* The state at first launch, with an empty table, is well typed.
LEMMA TypeInit == Init => TypeOK
<1>1. SUFFICES ASSUME Init PROVE TypeOK
  OBVIOUS
<1>2. row \in [Tasks -> TaskRow] /\ job \in [Dispatchers -> JobState]
  BY <1>1, BlankTypes DEF Init
<1>3. loop \in LoopState
  BY <1>1, BoundsAssumption DEF Init, LoopState, Time
<1>4. QED
  BY <1>1, <1>2, <1>3, BoundsAssumption DEF Init, TypeOK, Time, WsStates, TimeOrNone

\* The columns an UPDATE of the table writes keep their types.
LEMMA DisableType ==
    ASSUME NEW r \in TaskRow, NEW why \in Reasons
    PROVE  Disable(r, why) \in TaskRow /\ DisableFailed(r, why) \in TaskRow
<1>1. Disable(r, why) \in TaskRow
  BY DEF Disable, TaskRow, TimeOrNone
<1>2. QED
  BY <1>1 DEF DisableFailed, TaskRow

\* notify_waiters leaves the loop in one of its program points.
LEMMA NotifyType == ASSUME TypeOK, Notify PROVE loop' \in LoopState
<1>1. loop \in LoopState /\ 0 \in Time
  BY BoundsAssumption DEF TypeOK, Time
<1>2. QED
  BY <1>1 DEF Notify, LoopState

\* The fault counter stays within its bound whether or not a step fails.
LEMMA FaultType ==
    ASSUME TypeOK, Healthy \/ Faulty
    PROVE  faults' \in 0 .. MaxFaults
BY BoundsAssumption DEF TypeOK, Healthy, Faulty

\* Every command, loop step, workspace operation and crash keeps the types: one
\* step below per action of Next.
LEMMA TypeStep == TypeOK /\ [Next]_vars => TypeOK'
<1>0. SUFFICES ASSUME TypeOK, [Next]_vars PROVE TypeOK'
  OBVIOUS
<1>a. /\ loop \in LoopState /\ now \in Time /\ 0 \in Time
      /\ 0 \in 0 .. MaxWait /\ MaxWait \in 0 .. MaxWait
      /\ job \in [Dispatchers -> JobState]
      /\ hist \in [Tasks -> [arms: Nat, sent: Nat, fired: TimeOrNone, halted: BOOLEAN]]
  BY <1>0, BoundsAssumption DEF TypeOK, Time
<1>1. ASSUME NEW t \in Tasks, NEW r \in TaskRow, Insert(t, r) PROVE TypeOK'
  BY <1>0, <1>1, NotifyType DEF Insert, TypeOK
<1>2. ASSUME NEW t \in Tasks, ScheduleWakeup(t) PROVE TypeOK'
  <2>1. PICK i \in Wakeups :
          Insert(t, [BlankRow EXCEPT !.ws = i.ws, !.newSession = i.newSession,
                                     !.fireAt = i.fireAt, !.enabled = TRUE, !.next = i.fireAt])
    BY <1>2 DEF ScheduleWakeup
  <2>2. [BlankRow EXCEPT !.ws = i.ws, !.newSession = i.newSession, !.fireAt = i.fireAt,
                         !.enabled = TRUE, !.next = i.fireAt] \in TaskRow
    BY BlankTypes, InputsAssumption DEF TaskRow, TimeOrNone
  <2>3. QED
    BY <2>1, <2>2, <1>1
<1>3. ASSUME NEW t \in Tasks, CreateCronRoutine(t) PROVE TypeOK'
  <2>1. PICK i \in Routines :
          Insert(t, [BlankRow EXCEPT !.kind = "cron", !.ws = i.ws, !.cron = i.cron,
                                     !.newSession = i.newSession, !.recurring = i.recurring,
                                     !.enabled = TRUE, !.next = NextCron(i.cron, now)])
    BY <1>3 DEF CreateCronRoutine
  <2>2. NextCron(i.cron, now) \in TimeOrNone
    BY <1>0, InputsAssumption, NextCronSpec DEF TypeOK
  <2>3. [BlankRow EXCEPT !.kind = "cron", !.ws = i.ws, !.cron = i.cron,
                         !.newSession = i.newSession, !.recurring = i.recurring,
                         !.enabled = TRUE, !.next = NextCron(i.cron, now)] \in TaskRow
    BY <2>2, BlankTypes, InputsAssumption DEF TaskRow
  <2>4. QED
    BY <2>1, <2>3, <1>1
<1>4. ASSUME NEW t \in Tasks, DeleteRoutine(t) PROVE TypeOK'
  BY <1>0, <1>4, NotifyType DEF DeleteRoutine, TypeOK
<1>5. ASSUME NEW t \in Tasks, PauseRoutine(t) PROVE TypeOK'
  <2>1. Disable(row[t], "paused") \in TaskRow
    BY <1>0, DisableType DEF TypeOK, Reasons
  <2>2. QED
    BY <1>0, <1>5, <2>1, NotifyType DEF PauseRoutine, TypeOK
<1>6. ASSUME NEW c \in Clients, NEW t \in Tasks, ResumeRead(c, t) PROVE TypeOK'
  <2>1. ResumeFireTime(t) \in Time
    BY <1>0, <1>6, ResumeFireTimeType DEF ResumeRead, TimeOrNone
  <2>2. [IdleJob EXCEPT !.pc = "resume", !.task = t, !.next = ResumeFireTime(t)] \in JobState
    BY <2>1, BlankTypes DEF JobState
  <2>3. job' \in [Dispatchers -> JobState]
    BY <1>0, <1>6, <2>2 DEF ResumeRead, TypeOK
  <2>4. QED
    BY <1>0, <1>6, <2>3 DEF ResumeRead, TypeOK
<1>7. ASSUME NEW c \in Clients, ResumeWrite(c) PROVE TypeOK'
  <2>1. c \in Dispatchers /\ job[c] \in JobState
    BY <1>0 DEF Dispatchers, TypeOK
  <2>2. job[c].task \in Tasks /\ job[c].next \in Time
    BY <2>1 DEF JobState
  <2>3. job' \in [Dispatchers -> JobState]
    BY <1>0, <1>7, BlankTypes DEF ResumeWrite, TypeOK
  <2> DEFINE t == job[c].task
             armed == [row[t] EXCEPT !.enabled = TRUE, !.next = job[c].next,
                                     !.reason = "none", !.failures = 0]
  <2>a. row[t] \in TaskRow
    BY <1>0, <2>2 DEF TypeOK
  <2>b. armed \in TaskRow
    BY <2>2, <2>a DEF TaskRow, TimeOrNone, Reasons
  <2>c. row' = [row EXCEPT ![t] = armed] \/ row' = row
    BY <1>0, <1>7, <2>2 DEF ResumeWrite, TypeOK
  <2>4. row' \in [Tasks -> TaskRow]
    BY <1>0, <2>2, <2>b, <2>c DEF TypeOK
  <2>5. loop' \in LoopState
    BY <1>0, <1>7, NotifyType DEF ResumeWrite, TypeOK
  <2>6. hist' \in [Tasks -> [arms: Nat, sent: Nat, fired: TimeOrNone, halted: BOOLEAN]]
    BY <1>a, <1>7, <2>2 DEF ResumeWrite, TimeOrNone
  <2>7. QED
    BY <1>0, <1>7, <2>3, <2>4, <2>5, <2>6 DEF ResumeWrite, TypeOK
<1>8. \A t \in Tasks : Dispatch(t) \in JobState
  BY BlankTypes DEF Dispatch, JobState
<1>9. ASSUME NEW c \in Clients, NEW t \in Tasks, RunRoutine(c, t) PROVE TypeOK'
  BY <1>0, <1>8, <1>9 DEF RunRoutine, TypeOK
<1>10. ASSUME NEW w \in Workspaces, ArchiveDisable(w) PROVE TypeOK'
  <2>1. \A t \in Tasks : Disable(row[t], "workspace_archived") \in TaskRow
    BY <1>0, DisableType DEF TypeOK, Reasons
  <2>2. row' \in [Tasks -> TaskRow]
    BY <1>0, <1>10, <2>1 DEF ArchiveDisable, TypeOK
  <2>3. QED
    BY <1>0, <1>10, <2>2 DEF ArchiveDisable, TypeOK
<1>11. ASSUME NEW w \in Workspaces, ArchiveFlip(w) \/ RestoreClaim(w) \/ RestoreDone(w)
       PROVE  TypeOK'
  BY <1>0, <1>11 DEF ArchiveFlip, RestoreClaim, RestoreDone, TypeOK, WsStates
<1>12. ASSUME NEW w \in Workspaces, DeleteWorkspace(w) PROVE TypeOK'
  BY <1>0, <1>12 DEF DeleteWorkspace, TypeOK, WsStates
<1>13. CASE Sweep
  <2>1. \A t \in Tasks : DisableFailed(row[t], "workspace_unavailable") \in TaskRow
    BY <1>0, DisableType DEF TypeOK, Reasons
  <2>2. row' \in [Tasks -> TaskRow]
    BY <1>0, <1>13, <2>1 DEF Sweep, SweepDisabled, TypeOK
  <2>3. loop' \in LoopState
    BY <1>0, <1>13 DEF Sweep, TypeOK, LoopState
  <2>4. QED
    BY <1>0, <1>13, <2>2, <2>3, FaultType DEF Sweep, TypeOK
<1>14. CASE SweepCannotOpen
  <2>1. loop' \in LoopState
    BY <1>a, <1>14 DEF SweepCannotOpen, LoopState
  <2>2. QED
    BY <1>0, <1>14, <2>1, FaultType DEF SweepCannotOpen, TypeOK
<1>15. CASE LoadDue
  <2>1. \E s \in Seq(Tasks) : loop' = [loop EXCEPT !.pc = "fire", !.due = s]
    <3>1. CASE \E s \in DueLists(loop.now) : loop' = [loop EXCEPT !.pc = "fire", !.due = s]
      BY <3>1, DueListsType, Zenon
    <3>2. CASE loop' = [loop EXCEPT !.pc = "fire", !.due = <<>>]
      BY <3>2, EmptySeq, Zenon
    <3>3. QED
      BY <1>15, <3>1, <3>2 DEF LoadDue
  <2>a. loop' \in LoopState
    BY <1>a, <2>1 DEF LoopState
  <2>2. QED
    BY <1>0, <1>15, <2>a, FaultType DEF LoadDue, TypeOK
<1>16. CASE MarkAndDispatch
  <2>1. loop.due \in Seq(Tasks) /\ loop.due # <<>> /\ loop.now \in Time
    BY <1>0, <1>16 DEF MarkAndDispatch, TypeOK, LoopState
  <2>2. Head(loop.due) \in Tasks /\ Tail(loop.due) \in Seq(Tasks)
    BY <2>1
  <2> DEFINE t == Head(loop.due)
  <2>3. row[t] \in TaskRow
    BY <1>0, <2>2 DEF TypeOK
  <2>4. NextCron(row[t].cron, loop.now) \in TimeOrNone
    BY <2>1, <2>3, NextCronSpec DEF TaskRow
  <2>5. MarkedRow(t) \in TaskRow
    BY <2>1, <2>3, <2>4 DEF MarkedRow, TaskRow, TimeOrNone
  <2>6. row' \in [Tasks -> TaskRow]
    BY <1>0, <1>16, <2>5 DEF MarkAndDispatch, TypeOK
  <2>7. loop' \in LoopState
    BY <1>0, <1>16, <2>2 DEF MarkAndDispatch, TypeOK, LoopState
  <2>8. job' \in [Dispatchers -> JobState]
    BY <1>0, <1>8, <1>16, <2>2 DEF MarkAndDispatch, TypeOK
  <2>9. hist' \in [Tasks -> [arms: Nat, sent: Nat, fired: TimeOrNone, halted: BOOLEAN]]
    BY <1>0, <1>16, <2>1, <2>2 DEF MarkAndDispatch, TypeOK, TimeOrNone
  <2>10. QED
    BY <1>0, <1>16, <2>6, <2>7, <2>8, <2>9, FaultType DEF MarkAndDispatch, TypeOK
<1>17. CASE MarkSkips
  <2>a. loop.due \in Seq(Tasks) /\ loop.due # <<>>
    BY <1>a, <1>17 DEF MarkSkips, LoopState
  <2>b. Tail(loop.due) \in Seq(Tasks)
    BY <2>a
  <2>c. loop' = [loop EXCEPT !.due = Tail(loop.due)]
    BY <1>17 DEF MarkSkips
  <2>1. loop' \in LoopState
    BY <1>a, <2>b, <2>c DEF LoopState
  <2>2. QED
    BY <1>0, <1>17, <2>1, FaultType DEF MarkSkips, TypeOK
<1>18. CASE PlanWait
  <2>1. ClampWait(NextFireAt) \in 0 .. MaxWait
    BY <1>0, NextFireAtType, ClampWaitType DEF TypeOK
  <2>a. \E n \in 0 .. MaxWait : loop' = [loop EXCEPT !.pc = "enter", !.now = 0, !.wait = n]
    BY <1>a, <1>18, <2>1 DEF PlanWait
  <2>2. loop' \in LoopState
    BY <1>a, <2>a DEF LoopState
  <2>3. QED
    BY <1>0, <1>18, <2>2, FaultType DEF PlanWait, TypeOK
<1>19. CASE EnterWait \/ SleepOver
  <2>a. Later(now + loop.wait) \in Time
    BY <1>a, BoundsAssumption DEF LoopState, Later, Time
  <2>b. 0 \in 0 .. MaxWait
    BY BoundsAssumption
  <2>1. loop' \in LoopState
    BY <1>a, <1>19, <2>a, <2>b DEF EnterWait, SleepOver, LoopState
  <2>2. QED
    BY <1>0, <1>19, <2>1 DEF EnterWait, SleepOver, TypeOK
<1>20. ASSUME NEW d \in Dispatchers, CreateSession(d) \/ Rollback(d) PROVE TypeOK'
  <2>1. job' \in [Dispatchers -> JobState]
    BY <1>a, <1>20 DEF CreateSession, Rollback, JobState, Errors
  <2>2. blank' \in [Workspaces -> Int]
    BY <1>0, <1>20 DEF CreateSession, Rollback, TypeOK
  <2>3. QED
    BY <1>0, <1>20, <2>1, <2>2, FaultType DEF CreateSession, Rollback, TypeOK
<1>21. ASSUME NEW d \in Dispatchers, Send(d) PROVE TypeOK'
  <2> DEFINE t == job[d].task
             w == row[t].ws
  <2>1. PICK err \in SendOutcomes(w) :
          /\ IF err = "transient" THEN Faulty ELSE Healthy
          /\ job' = [job EXCEPT ![d].pc = AfterSend(d, err), ![d].err = err]
          /\ blank' \in {blank, [blank EXCEPT ![w] = @ - 1]}
          /\ hist' \in {hist, [hist EXCEPT ![t].sent = @ + 1]}
    BY <1>21, Zenon DEF Send
  <2>2. err \in Errors /\ AfterSend(d, err) \in {"rollback", "record"}
    BY <2>1 DEF SendOutcomes, Errors, AfterSend
  <2>3. job' \in [Dispatchers -> JobState]
    <3>1. job' = [job EXCEPT ![d].pc = AfterSend(d, err), ![d].err = err]
      BY <2>1
    <3>2. QED
      BY <1>a, <2>2, <3>1 DEF JobState
  <2>a. blank \in [Workspaces -> Int]
    BY <1>0 DEF TypeOK
  <2>4. blank' \in [Workspaces -> Int]
    BY <2>1, <2>a
  <2>5. hist' \in [Tasks -> [arms: Nat, sent: Nat, fired: TimeOrNone, halted: BOOLEAN]]
    BY <1>a, <2>1
  <2>6. faults' \in 0 .. MaxFaults
    BY <1>0, <2>1, FaultType
  <2>7. QED
    BY <1>0, <1>21, <2>3, <2>4, <2>5, <2>6 DEF Send, TypeOK
<1>22. ASSUME NEW d \in Dispatchers, RecordRun(d) PROVE TypeOK'
  <2>1. job' \in [Dispatchers -> JobState]
    BY <1>0, <1>22, BlankTypes DEF RecordRun, TypeOK, JobState
  <2>2. lastRun' \in [Tasks -> {"never", "ok", "error"}]
    BY <1>0, <1>22 DEF RecordRun, TypeOK
  <2>3. QED
    BY <1>0, <1>22, <2>1, <2>2, FaultType DEF RecordRun, TypeOK
<1>23. CASE Bookkeep
  <2>1. job[Loop] \in JobState
    BY <1>0 DEF TypeOK, Dispatchers
  <2>2. job[Loop].task \in Tasks
    BY <2>1 DEF JobState
  <2>3. row[job[Loop].task] \in TaskRow
    BY <1>0, <2>2 DEF TypeOK
  <2>4. BookedRow(job[Loop].task, job[Loop].err) \in TaskRow
    BY <2>3, DisableType DEF BookedRow, TaskRow, Reasons
  <2>5. row' \in [Tasks -> TaskRow]
    BY <1>0, <1>23, <2>4 DEF Bookkeep, TypeOK
  <2>6. job' \in [Dispatchers -> JobState]
    BY <1>0, <1>23, BlankTypes DEF Bookkeep, TypeOK
  <2>7. QED
    BY <1>0, <1>23, <2>5, <2>6, FaultType DEF Bookkeep, TypeOK
<1>24. CASE Tick
  BY <1>0, <1>24, BoundsAssumption DEF Tick, TypeOK, Time
<1>25. CASE Crash \/ Start
  <2>1. loop' \in LoopState
    <3>1. <<>> \in Seq(Tasks)
      BY EmptySeq, Zenon
    <3>2. CASE Crash
      BY <1>a, <3>1, <3>2 DEF Crash, LoopState
    <3>3. CASE Start
      BY <1>a, <3>3 DEF Start, LoopState
    <3>4. QED
      BY <1>25, <3>2, <3>3
  <2>2. job' \in [Dispatchers -> JobState]
    BY <1>0, <1>25, BlankTypes DEF Crash, Start, TypeOK
  <2>3. QED
    BY <1>0, <1>25, <2>1, <2>2, FaultType DEF Crash, Start, TypeOK
<1>26. CASE UNCHANGED vars
  BY <1>0, <1>26 DEF TypeOK, vars
<1>27. QED
  BY <1>0, <1>2, <1>3, <1>4, <1>5, <1>6, <1>7, <1>9, <1>10, <1>11, <1>12, <1>13, <1>14,
     <1>15, <1>16, <1>17, <1>18, <1>19, <1>20, <1>21, <1>22, <1>23, <1>24, <1>25, <1>26,
     InputsAssumption DEF Next, LoopStep, DispatchStep

\* The scheduler's state stays well typed: every UPDATE writes values of the
\* column's type, the sleep stays within its clamp and the clock in its range.
THEOREM TypeCorrect == Spec => []TypeOK
BY TypeInit, TypeStep, PTL DEF Spec

-----------------------------------------------------------------------------
\* The inductive invariant.

\* The empty table satisfies the inductive invariant.
LEMMA InvInit == Init => Inv
<1>1. SUFFICES ASSUME Init PROVE Inv
  OBVIOUS
<1>2. TypeOK
  BY <1>1, TypeInit
<1>3. stored = {} /\ \A t \in Tasks : row[t] = BlankRow
  BY <1>1 DEF Init
<1>4. \A t \in Tasks : hist[t] = [arms |-> 0, sent |-> 0, fired |-> NoTime, halted |-> FALSE]
  BY <1>1 DEF Init
<1>5. ArmedIsClean /\ ArmedForLaterMatch /\ HaltedIsOff
  BY <1>3 DEF ArmedIsClean, ArmedForLaterMatch, HaltedIsOff
<1>6. UnbornIsBlank
  <2>1. BlankRow.recurring = FALSE
    BY DEF BlankRow
  <2>2. \A t \in Tasks : hist[t].fired = NoTime /\ hist[t].halted = FALSE
    BY <1>4
  <2>3. QED
    BY <1>3, <2>1, <2>2 DEF UnbornIsBlank
<1>7. \A t \in Tasks : Claimed(t) = 0
  BY <1>1 DEF Init, Claimed, Dispatchers, IdleJob
<1>8. ArmingSpentOnce
  BY <1>3, <1>4, <1>7 DEF ArmingSpentOnce, Armed
<1>9. QED
  BY <1>2, <1>5, <1>6, <1>8 DEF Inv

\* What a step that arms nothing does to a row: it keeps the columns the
\* invariant reads, or switches the row off.
KeptOrOff(t) ==
    \/ /\ row'[t].enabled = row[t].enabled /\ row'[t].next = row[t].next
       /\ row'[t].reason = row[t].reason /\ row'[t].lastFired = row[t].lastFired
       /\ row'[t].recurring = row[t].recurring /\ row'[t].cron = row[t].cron
    \/ /\ row'[t].enabled = FALSE /\ row'[t].next = NoTime
       /\ row'[t].recurring = row[t].recurring

\* What it does to the history: nothing, or it notes a pause of a row now off.
HistKept(t) ==
    /\ hist'[t].arms = hist[t].arms /\ hist'[t].sent = hist[t].sent
    /\ hist'[t].fired = hist[t].fired
    /\ \/ hist'[t].halted = hist[t].halted
       \/ t \in stored /\ row'[t].enabled = FALSE

\* A step that only keeps or switches off rows, deletes rows and gives up claims
\* preserves the invariant.
LEMMA OffStep ==
    ASSUME Inv, TypeOK', stored' \subseteq stored,
           \A t \in Tasks : KeptOrOff(t) /\ HistKept(t) /\ Claimed(t)' <= Claimed(t)
    PROVE  Inv'
<1>1. TypeOK /\ stored \subseteq Tasks /\ stored' \subseteq Tasks
  BY DEF Inv, TypeOK
<1>2. \A t \in Tasks : row[t] \in TaskRow /\ row'[t] \in TaskRow
  BY DEF Inv, TypeOK
<1>3. ArmedIsClean'
  BY <1>1, <1>2 DEF Inv, ArmedIsClean, KeptOrOff, TaskRow
<1>4. UnbornIsBlank'
  BY <1>1, <1>2 DEF Inv, UnbornIsBlank, KeptOrOff, HistKept, TaskRow
<1>5. ArmedForLaterMatch'
  BY <1>1, <1>2 DEF Inv, ArmedForLaterMatch, KeptOrOff, HistKept, TaskRow
<1>6. HaltedIsOff'
  BY <1>1, <1>2 DEF Inv, HaltedIsOff, KeptOrOff, HistKept, TaskRow
<1>7. ArmingSpentOnce'
  <2>1. SUFFICES ASSUME NEW t \in Tasks, ~row'[t].recurring
                 PROVE  hist'[t].sent + Claimed(t)' + Armed(t)' <= hist'[t].arms
    BY DEF ArmingSpentOnce
  <2>2. ~row[t].recurring
    BY <2>1, <1>2 DEF KeptOrOff
  <2>3. hist[t].sent + Claimed(t) + Armed(t) <= hist[t].arms
    BY <2>2 DEF Inv, ArmingSpentOnce
  <2>4. Armed(t)' <= Armed(t)
    BY <1>2 DEF Armed, KeptOrOff, TaskRow
  <2>5. /\ Armed(t) \in Nat /\ Armed(t)' \in Nat /\ Claimed(t) \in Nat /\ Claimed(t)' \in Nat
        /\ hist[t].sent \in Nat /\ hist[t].arms \in Nat
    BY <1>1 DEF Armed, Claimed, TypeOK
  <2>6. hist'[t].sent = hist[t].sent /\ hist'[t].arms = hist[t].arms /\ Claimed(t)' <= Claimed(t)
    BY DEF HistKept
  <2>7. QED
    BY <2>3, <2>4, <2>5, <2>6
<1>8. QED
  BY <1>3, <1>4, <1>5, <1>6, <1>7 DEF Inv

\* A step of the loop's or another dispatcher's job that leaves the table and the
\* history alone preserves the invariant if the loop claims nothing new.
LEMMA QuietStep ==
    ASSUME Inv, TypeOK', UNCHANGED <<row, stored, hist>>,
           \A t \in Tasks : Claimed(t)' <= Claimed(t)
    PROVE  Inv'
<1>1. \A t \in Tasks : KeptOrOff(t) /\ HistKept(t)
  BY DEF KeptOrOff, HistKept
<1>2. QED
  BY <1>1, OffStep

\* schedule_wakeup and create_cron_routine insert a row that is armed, clean and
\* not yet fired, under an id that nobody used: the first arming of that task.
LEMMA InsertStep ==
    ASSUME Inv, TypeOK', NEW t \in Tasks, NEW r \in TaskRow, Insert(t, r),
           r.enabled = TRUE, r.next # NoTime, r.reason = "none"
    PROVE  Inv'
<1>1. TypeOK /\ hist[t].arms = 0 /\ stored' = stored \cup {t} /\ row' = [row EXCEPT ![t] = r]
      /\ hist' = [hist EXCEPT ![t].arms = 1] /\ UNCHANGED job
  BY DEF Inv, Insert
<1>2. /\ row'[t] = r /\ hist'[t].arms = 1 /\ hist'[t].sent = hist[t].sent
      /\ hist'[t].fired = hist[t].fired /\ hist'[t].halted = hist[t].halted
  BY <1>1 DEF TypeOK
<1>3. \A u \in Tasks : u # t => row'[u] = row[u] /\ hist'[u] = hist[u]
  BY <1>1 DEF TypeOK
<1>4. t \notin stored /\ row[t].recurring = FALSE /\ hist[t].fired = NoTime /\ hist[t].halted = FALSE
  BY <1>1 DEF Inv, UnbornIsBlank, TypeOK, TaskRow
<1>5. ArmedIsClean'
  BY <1>1, <1>2, <1>3 DEF Inv, TypeOK, ArmedIsClean
<1>6. UnbornIsBlank'
  BY <1>1, <1>2, <1>3 DEF Inv, TypeOK, UnbornIsBlank
<1>7. ArmedForLaterMatch'
  BY <1>1, <1>2, <1>3, <1>4 DEF Inv, TypeOK, ArmedForLaterMatch
<1>8. HaltedIsOff'
  BY <1>1, <1>2, <1>3, <1>4 DEF Inv, TypeOK, HaltedIsOff
<1>9. ArmingSpentOnce'
  <2>1. SUFFICES ASSUME NEW u \in Tasks, ~row'[u].recurring
                 PROVE  hist'[u].sent + Claimed(u)' + Armed(u)' <= hist'[u].arms
    BY DEF ArmingSpentOnce
  <2>2. Claimed(u)' = Claimed(u) /\ Claimed(u) \in Nat /\ Armed(u) \in {0, 1} /\ Armed(u)' \in {0, 1}
        /\ hist[u].sent \in Nat /\ hist[u].arms \in Nat
    BY <1>1 DEF Claimed, Armed, TypeOK
  <2>3. CASE u = t
    <3>1. hist[u].sent + Claimed(u) + Armed(u) <= 0
      BY <1>1, <1>4, <2>3 DEF Inv, ArmingSpentOnce
    <3>2. QED
      BY <1>2, <2>2, <2>3, <3>1
  <2>4. CASE u # t
    <3>1. Armed(u)' = Armed(u) /\ hist'[u] = hist[u] /\ row'[u] = row[u]
      BY <1>1, <1>3, <2>4 DEF Armed
    <3>2. QED
      BY <2>1, <2>2, <3>1 DEF Inv, ArmingSpentOnce
  <2>5. QED
    BY <2>3, <2>4
<1>10. QED
  BY <1>5, <1>6, <1>7, <1>8, <1>9 DEF Inv

\* resume_agent_scheduled_task pays for the row it arms with a new arming, also
\* when the row changed between the command's read and its write.
LEMMA ResumeWriteStep ==
    ASSUME Inv, TypeOK', NEW c \in Clients, ResumeWrite(c)
    PROVE  Inv'
<1> DEFINE t == job[c].task
<1>1. TypeOK /\ c # Loop /\ c \in Dispatchers /\ Loop \in Dispatchers /\ t \in Tasks
      /\ job[c].next \in Time
  BY InputsAssumption DEF Inv, TypeOK, Dispatchers, JobState
<1>2. job'[Loop] = job[Loop]
  BY <1>1 DEF ResumeWrite, TypeOK
<1>3. \A u \in Tasks : Claimed(u)' = Claimed(u)
  BY <1>2 DEF Claimed
<1>4. CASE t \notin stored
  <2>1. UNCHANGED <<row, stored, hist>>
    BY <1>4 DEF ResumeWrite
  <2>2. \A u \in Tasks : Claimed(u)' <= Claimed(u)
    BY <1>3 DEF Claimed
  <2>3. QED
    BY <2>1, <2>2, QuietStep
<1>5. CASE t \in stored
  <2>1. /\ row' = [row EXCEPT ![t].enabled = TRUE, ![t].next = job[c].next,
                              ![t].reason = "none", ![t].failures = 0]
        /\ hist' = [hist EXCEPT ![t].arms = @ + 1, ![t].fired = NoTime, ![t].halted = FALSE]
        /\ stored' = stored
    BY <1>5 DEF ResumeWrite
  <2>2. /\ row'[t].enabled = TRUE /\ row'[t].next = job[c].next /\ row'[t].reason = "none"
        /\ row'[t].recurring = row[t].recurring
        /\ hist'[t].arms = hist[t].arms + 1 /\ hist'[t].sent = hist[t].sent
        /\ hist'[t].fired = NoTime /\ hist'[t].halted = FALSE
    <3>1. row \in [Tasks -> TaskRow]
          /\ hist \in [Tasks -> [arms: Nat, sent: Nat, fired: TimeOrNone, halted: BOOLEAN]]
      BY <1>1 DEF TypeOK
    <3>2. /\ row'[t].enabled = TRUE /\ row'[t].next = job[c].next /\ row'[t].reason = "none"
          /\ row'[t].recurring = row[t].recurring
      BY <1>1, <2>1, <3>1 DEF TaskRow
    <3>3. /\ hist'[t].arms = hist[t].arms + 1 /\ hist'[t].sent = hist[t].sent
          /\ hist'[t].fired = NoTime /\ hist'[t].halted = FALSE
      BY <1>1, <2>1, <3>1
    <3>4. QED
      BY <3>2, <3>3
  <2>3. \A u \in Tasks : u # t => row'[u] = row[u] /\ hist'[u] = hist[u]
    BY <1>1, <2>1 DEF TypeOK
  <2>4. job[c].next # NoTime
    BY <1>1 DEF Time, NoTime
  <2>5. ArmedIsClean'
    BY <1>1, <2>1, <2>2, <2>3, <2>4 DEF Inv, TypeOK, ArmedIsClean
  <2>6. UnbornIsBlank'
    <3>1. hist'[t].arms # 0
      BY <1>1, <2>2 DEF TypeOK
    <3>2. QED
      BY <2>1, <2>3, <3>1 DEF Inv, UnbornIsBlank
  <2>7. ArmedForLaterMatch'
    BY <1>1, <2>1, <2>2, <2>3 DEF Inv, TypeOK, ArmedForLaterMatch
  <2>8. HaltedIsOff'
    BY <1>1, <2>1, <2>2, <2>3 DEF Inv, TypeOK, HaltedIsOff
  <2>9. ArmingSpentOnce'
    <3>1. SUFFICES ASSUME NEW u \in Tasks, ~row'[u].recurring
                   PROVE  hist'[u].sent + Claimed(u)' + Armed(u)' <= hist'[u].arms
      BY DEF ArmingSpentOnce
    <3>2. Claimed(u)' = Claimed(u) /\ Claimed(u) \in Nat /\ Armed(u) \in {0, 1}
          /\ Armed(u)' \in {0, 1} /\ hist[u].sent \in Nat /\ hist[u].arms \in Nat
      BY <1>1, <1>3 DEF Claimed, Armed, TypeOK
    <3>3. hist[u].sent + Claimed(u) + Armed(u) <= hist[u].arms
      BY <2>2, <2>3, <3>1 DEF Inv, ArmingSpentOnce
    <3>4. CASE u = t
      BY <2>2, <3>2, <3>3, <3>4
    <3>5. CASE u # t
      <4>1. Armed(u)' = Armed(u) /\ hist'[u] = hist[u]
        BY <2>1, <2>3, <3>5 DEF Armed
      <4>2. QED
        BY <3>2, <3>3, <4>1
    <3>6. QED
      BY <3>4, <3>5
  <2>10. QED
    BY <2>5, <2>6, <2>7, <2>8, <2>9 DEF Inv
<1>6. QED
  BY <1>4, <1>5

\* mark_agent_scheduled_task_fired moves a one-shot's arming from the row to the
\* loop's claim, and re-arms a routine for a later match.
LEMMA MarkStep ==
    ASSUME Inv, TypeOK', MarkAndDispatch
    PROVE  Inv'
<1> DEFINE t == Head(loop.due)
           next == NextCron(row[t].cron, loop.now)
<1>1. TypeOK /\ Loop \in Dispatchers /\ loop.now \in Time /\ t \in Tasks
  <2>1. TypeOK /\ loop \in LoopState
    BY DEF Inv, TypeOK
  <2>2. loop.due # <<>>
    BY DEF MarkAndDispatch
  <2>3. loop.now \in Time /\ loop.due \in Seq(Tasks)
    BY <2>1 DEF LoopState
  <2>4. t \in Tasks
    BY <2>2, <2>3
  <2>5. Loop \in Dispatchers
    BY DEF Dispatchers
  <2>6. QED
    BY <2>1, <2>3, <2>4, <2>5
<1>2. /\ DueAt(t, loop.now) /\ job[Loop].pc = "idle" /\ stored' = stored
      /\ row' = [row EXCEPT ![t] = MarkedRow(t)] /\ job' = [job EXCEPT ![Loop] = Dispatch(t)]
      /\ hist' = [hist EXCEPT ![t].fired = loop.now]
  BY DEF MarkAndDispatch, CanMark, LoopReady
<1>3. row[t] \in TaskRow /\ t \in stored /\ row[t].enabled = TRUE
  BY <1>1, <1>2 DEF TypeOK, DueAt, TaskRow
<1>4. /\ next \in TimeOrNone
      /\ next # NoTime => next \in row[t].cron /\ next > loop.now
  BY <1>1, <1>3, NextCronSpec DEF TaskRow
<1>5. \A u \in Tasks : u # t => row'[u] = row[u] /\ hist'[u] = hist[u]
  BY <1>1, <1>2 DEF TypeOK
<1>6. /\ hist'[t].arms = hist[t].arms /\ hist'[t].sent = hist[t].sent
      /\ hist'[t].fired = loop.now /\ hist'[t].halted = hist[t].halted
  BY <1>1, <1>2 DEF TypeOK
<1>7. /\ row'[t].recurring = row[t].recurring /\ row'[t].reason = row[t].reason
      /\ row'[t].cron = row[t].cron /\ row'[t].lastFired = loop.now
      /\ \/ row'[t].enabled = FALSE /\ row'[t].next = NoTime
         \/ row'[t].recurring = TRUE /\ row'[t].enabled = TRUE /\ row'[t].next = next
  <2>1. row'[t] = MarkedRow(t)
    BY <1>1, <1>2 DEF TypeOK
  <2>2. QED
    BY <1>3, <2>1 DEF MarkedRow, TaskRow
<1>8. loop.now # NoTime
  BY <1>1 DEF Time, NoTime
<1>9. ArmedIsClean'
  BY <1>1, <1>2, <1>3, <1>5, <1>7, <1>8 DEF Inv, TypeOK, ArmedIsClean
<1>10. hist[t].arms # 0
  BY <1>1, <1>3 DEF Inv, UnbornIsBlank
<1>11. UnbornIsBlank'
  BY <1>2, <1>5, <1>6, <1>10 DEF Inv, UnbornIsBlank
<1>12. ArmedForLaterMatch'
  BY <1>1, <1>2, <1>4, <1>5, <1>6, <1>7 DEF Inv, TypeOK, ArmedForLaterMatch
<1>13. HaltedIsOff'
  BY <1>1, <1>2, <1>3, <1>5, <1>6 DEF Inv, TypeOK, HaltedIsOff
<1>14. ArmingSpentOnce'
  <2>1. SUFFICES ASSUME NEW u \in Tasks, ~row'[u].recurring
                 PROVE  hist'[u].sent + Claimed(u)' + Armed(u)' <= hist'[u].arms
    BY DEF ArmingSpentOnce
  <2>2. Claimed(u) = 0
    BY <1>2 DEF Claimed
  <2>3. job'[Loop].task = t
    BY <1>1, <1>2, BlankTypes DEF TypeOK, Dispatch, JobState
  <2>4. Claimed(u)' \in {0, 1} /\ Armed(u) \in {0, 1} /\ Armed(u)' \in {0, 1}
        /\ hist[u].sent \in Nat /\ hist[u].arms \in Nat
    BY <1>1 DEF Claimed, Armed, TypeOK
  <2>5. ~row[u].recurring
    BY <1>5, <1>7, <2>1
  <2>6. hist[u].sent + Armed(u) <= hist[u].arms
    BY <2>2, <2>4, <2>5 DEF Inv, ArmingSpentOnce
  <2>7. CASE u = t
    <3>1. Armed(u) = 1 /\ Armed(u)' = 0
      BY <1>2, <1>3, <1>7, <2>1, <2>7 DEF Armed
    <3>2. QED
      BY <1>6, <2>4, <2>6, <2>7, <3>1
  <2>8. CASE u # t
    <3>1. Claimed(u)' = 0 /\ Armed(u)' = Armed(u) /\ hist'[u] = hist[u]
      BY <1>2, <1>5, <2>3, <2>8 DEF Claimed, Armed
    <3>2. QED
      BY <2>4, <2>6, <3>1
  <2>9. QED
    BY <2>7, <2>8
<1>15. QED
  BY <1>9, <1>11, <1>12, <1>13, <1>14 DEF Inv

\* A dispatcher other than the loop, or a step past the send, claims nothing new.
LEMMA OtherDispatch ==
    ASSUME TypeOK, NEW d \in Dispatchers,
           CreateSession(d) \/ Rollback(d) \/ RecordRun(d) \/ (Send(d) /\ d # Loop)
    PROVE  \A t \in Tasks : Claimed(t)' <= Claimed(t)
<1>1. Loop \in Dispatchers /\ job \in [Dispatchers -> JobState]
  BY DEF TypeOK, Dispatchers
<1>2. CASE d # Loop
  <2>1. job'[Loop] = job[Loop]
    BY <1>1, <1>2 DEF CreateSession, Rollback, RecordRun, Send
  <2>2. QED
    BY <2>1 DEF Claimed
<1>3. CASE d = Loop /\ CreateSession(d)
  <2>1. job[Loop].pc = "create" /\ job'[Loop].task = job[Loop].task
    BY <1>1, <1>3 DEF CreateSession, JobState
  <2>2. QED
    BY <2>1 DEF Claimed
<1>4. CASE d = Loop /\ (Rollback(d) \/ RecordRun(d))
  <2>1. job'[Loop].pc \notin {"create", "send"}
    BY <1>1, <1>4 DEF Rollback, RecordRun, IdleJob, JobState
  <2>2. QED
    BY <2>1 DEF Claimed
<1>5. QED
  BY <1>2, <1>3, <1>4

\* A delivered prompt uses up the loop's claim; a manual run claims nothing.
LEMMA SendStep ==
    ASSUME Inv, TypeOK', NEW d \in Dispatchers, Send(d)
    PROVE  Inv'
<1>1. TypeOK /\ Loop \in Dispatchers
  BY DEF Inv, Dispatchers
<1>2. CASE d # Loop
  <2>1. UNCHANGED <<row, stored, hist>>
    BY <1>2 DEF Send
  <2>2. QED
    BY <1>1, <1>2, <2>1, OtherDispatch, QuietStep
<1>3. CASE d = Loop
  <2> DEFINE t == job[Loop].task
  <2>1. t \in Tasks /\ job[Loop].pc = "send" /\ UNCHANGED <<row, stored>>
    BY <1>1, <1>3 DEF Send, TypeOK, JobState
  <2>2. job'[Loop].pc \in {"rollback", "record"}
    BY <1>1, <1>3 DEF Send, AfterSend, TypeOK
  <2>3. hist' = hist \/ hist' = [hist EXCEPT ![t].sent = @ + 1]
    BY <1>3 DEF Send
  <2>4. \A u \in Tasks : Claimed(u)' = 0
    BY <2>2 DEF Claimed
  <2>5. /\ hist'[t].arms = hist[t].arms
        /\ hist'[t].sent \in {hist[t].sent, hist[t].sent + 1}
        /\ hist'[t].fired = hist[t].fired /\ hist'[t].halted = hist[t].halted
    BY <1>1, <2>1, <2>3 DEF TypeOK
  <2>6. \A u \in Tasks : u # t => hist'[u] = hist[u]
    BY <1>1, <2>1, <2>3 DEF TypeOK
  <2>7. ArmedIsClean'
    BY <2>1 DEF Inv, ArmedIsClean
  <2>a. \A u \in Tasks : /\ hist'[u].arms = hist[u].arms /\ hist'[u].fired = hist[u].fired
                           /\ hist'[u].halted = hist[u].halted
    BY <2>5, <2>6
  <2>b. stored \subseteq Tasks
    BY <1>1 DEF TypeOK
  <2>c. UnbornIsBlank'
    BY <2>1, <2>a DEF Inv, UnbornIsBlank
  <2>d. ArmedForLaterMatch' /\ HaltedIsOff'
    BY <2>1, <2>a, <2>b DEF Inv, ArmedForLaterMatch, HaltedIsOff
  <2>8. UnbornIsBlank' /\ ArmedForLaterMatch' /\ HaltedIsOff'
    BY <2>c, <2>d
  <2>9. ArmingSpentOnce'
    <3>1. SUFFICES ASSUME NEW u \in Tasks, ~row'[u].recurring
                   PROVE  hist'[u].sent + Claimed(u)' + Armed(u)' <= hist'[u].arms
      BY DEF ArmingSpentOnce
    <3>2. /\ hist[u].sent + Claimed(u) + Armed(u) <= hist[u].arms
          /\ Armed(u)' = Armed(u) /\ Armed(u) \in Nat /\ Claimed(u) \in Nat
          /\ hist[u].sent \in Nat /\ hist[u].arms \in Nat
      BY <1>1, <2>1, <3>1 DEF Inv, ArmingSpentOnce, Armed, Claimed, TypeOK
    <3>3. CASE u = t
      <4>1. Claimed(u) = 1
        BY <2>1, <3>3 DEF Claimed
      <4>2. QED
        BY <2>4, <2>5, <3>2, <3>3, <4>1
    <3>4. CASE u # t
      BY <2>4, <2>6, <3>2, <3>4
    <3>5. QED
      BY <3>3, <3>4
  <2>10. QED
    BY <2>7, <2>8, <2>9 DEF Inv
<1>4. QED
  BY <1>2, <1>3

\* Disabling a row, with or without a failure, switches it off.
LEMMA DisableSwitchesOff ==
    \A r \in TaskRow, why \in Reasons :
        /\ Disable(r, why).enabled = FALSE /\ Disable(r, why).next = NoTime
        /\ Disable(r, why).recurring = r.recurring
        /\ DisableFailed(r, why).enabled = FALSE /\ DisableFailed(r, why).next = NoTime
        /\ DisableFailed(r, why).recurring = r.recurring
        /\ Disable(r, why).lastFired = r.lastFired
        /\ DisableFailed(r, why).lastFired = r.lastFired
BY DEF Disable, DisableFailed, TaskRow

\* Every step preserves the inductive invariant: one step below per action.
LEMMA InvStep == Inv /\ [Next]_vars => Inv'
<1>0. SUFFICES ASSUME Inv, [Next]_vars PROVE Inv'
  OBVIOUS
<1>1. TypeOK /\ TypeOK'
  BY <1>0, TypeStep DEF Inv
<1>2. /\ row \in [Tasks -> TaskRow] /\ stored \subseteq Tasks
      /\ Loop \in Dispatchers /\ job \in [Dispatchers -> JobState]
      /\ hist \in [Tasks -> [arms: Nat, sent: Nat, fired: TimeOrNone, halted: BOOLEAN]]
  BY <1>1 DEF TypeOK, Dispatchers
<1>3. ASSUME UNCHANGED <<row, stored, hist>>, job'[Loop] = job[Loop] PROVE Inv'
  <2>1. \A t \in Tasks : Claimed(t)' <= Claimed(t)
    BY <1>3 DEF Claimed
  <2>2. QED
    BY <1>0, <1>1, <1>3, <2>1, QuietStep
<1>4. ASSUME NEW t \in Tasks, ScheduleWakeup(t) PROVE Inv'
  <2>1. PICK i \in Wakeups :
          Insert(t, [BlankRow EXCEPT !.ws = i.ws, !.newSession = i.newSession,
                                     !.fireAt = i.fireAt, !.enabled = TRUE, !.next = i.fireAt])
    BY <1>4 DEF ScheduleWakeup
  <2> DEFINE r == [BlankRow EXCEPT !.ws = i.ws, !.newSession = i.newSession,
                                   !.fireAt = i.fireAt, !.enabled = TRUE, !.next = i.fireAt]
  <2>2. i.ws \in Workspaces /\ i.newSession \in BOOLEAN /\ i.fireAt \in Time
    BY InputsAssumption
  <2>3. r \in TaskRow
    BY <2>2, BlankTypes DEF TaskRow, TimeOrNone
  <2>4. r.enabled = TRUE /\ r.next # NoTime /\ r.reason = "none"
    BY <2>2 DEF BlankRow, Time, NoTime
  <2>5. QED
    BY <1>0, <1>1, <2>1, <2>3, <2>4, InsertStep
<1>5. ASSUME NEW t \in Tasks, CreateCronRoutine(t) PROVE Inv'
  <2>1. PICK i \in Routines :
          /\ NextCron(i.cron, now) # NoTime
          /\ Insert(t, [BlankRow EXCEPT !.kind = "cron", !.ws = i.ws, !.cron = i.cron,
                                        !.newSession = i.newSession, !.recurring = i.recurring,
                                        !.enabled = TRUE, !.next = NextCron(i.cron, now)])
    BY <1>5 DEF CreateCronRoutine
  <2> DEFINE r == [BlankRow EXCEPT !.kind = "cron", !.ws = i.ws, !.cron = i.cron,
                                   !.newSession = i.newSession, !.recurring = i.recurring,
                                   !.enabled = TRUE, !.next = NextCron(i.cron, now)]
  <2>2. i.ws \in Workspaces /\ i.newSession \in BOOLEAN /\ i.recurring \in BOOLEAN
        /\ i.cron \in SUBSET Time
    BY InputsAssumption
  <2>3. NextCron(i.cron, now) \in TimeOrNone
    BY <1>1, <2>2, NextCronSpec DEF TypeOK
  <2>4. r \in TaskRow
    BY <2>2, <2>3, BlankTypes DEF TaskRow
  <2>5. r.enabled = TRUE /\ r.next # NoTime /\ r.reason = "none"
    BY <2>1 DEF BlankRow
  <2>6. QED
    BY <1>0, <1>1, <2>1, <2>4, <2>5, InsertStep
<1>6. ASSUME stored' \subseteq stored, \A u \in Tasks : KeptOrOff(u) /\ HistKept(u),
             job'[Loop] = job[Loop]
      PROVE  Inv'
  <2>1. \A t \in Tasks : Claimed(t)' <= Claimed(t)
    BY <1>6 DEF Claimed
  <2>2. QED
    BY <1>0, <1>1, <1>6, <2>1, OffStep
<1>7. ASSUME NEW t \in Tasks, DeleteRoutine(t) PROVE Inv'
  BY <1>6, <1>7 DEF DeleteRoutine, KeptOrOff, HistKept
<1>8. ASSUME NEW t \in Tasks, PauseRoutine(t) PROVE Inv'
  <2>1. row'[t] = Disable(row[t], "paused") /\ \A u \in Tasks \ {t} : row'[u] = row[u]
    BY <1>2, <1>8 DEF PauseRoutine
  <2>2. row'[t].enabled = FALSE /\ row'[t].next = NoTime /\ row'[t].recurring = row[t].recurring
    BY <1>2, <2>1, DisableSwitchesOff DEF Reasons
  <2>3. \A u \in Tasks : KeptOrOff(u)
    BY <2>1, <2>2 DEF KeptOrOff
  <2>4. \A u \in Tasks : HistKept(u)
    BY <1>2, <1>8, <2>2 DEF PauseRoutine, HistKept
  <2>5. QED
    BY <1>6, <1>8, <2>3, <2>4 DEF PauseRoutine
<1>9. ASSUME NEW c \in Clients, NEW t \in Tasks, ResumeRead(c, t) \/ RunRoutine(c, t) PROVE Inv'
  BY <1>2, <1>3, <1>9, InputsAssumption DEF ResumeRead, RunRoutine
<1>10. ASSUME NEW c \in Clients, ResumeWrite(c) PROVE Inv'
  BY <1>0, <1>1, <1>10, ResumeWriteStep
<1>11. ASSUME NEW w \in Workspaces, ArchiveDisable(w) PROVE Inv'
  <2>1. \A u \in Tasks : row'[u] = row[u] \/ row'[u] = Disable(row[u], "workspace_archived")
    BY <1>11 DEF ArchiveDisable
  <2>2. \A u \in Tasks : KeptOrOff(u)
    BY <1>2, <2>1, DisableSwitchesOff DEF KeptOrOff, Reasons
  <2>3. QED
    BY <1>6, <1>11, <2>2 DEF ArchiveDisable, HistKept
<1>12. ASSUME NEW w \in Workspaces, ArchiveFlip(w) \/ RestoreClaim(w) \/ RestoreDone(w) PROVE Inv'
  BY <1>3, <1>12 DEF ArchiveFlip, RestoreClaim, RestoreDone
<1>13. ASSUME NEW w \in Workspaces, DeleteWorkspace(w) PROVE Inv'
  BY <1>6, <1>13 DEF DeleteWorkspace, KeptOrOff, HistKept
<1>14. CASE Sweep
  <2>1. \A u \in Tasks : row'[u] = row[u] \/ row'[u] = DisableFailed(row[u], "workspace_unavailable")
    BY <1>14 DEF Sweep, SweepDisabled
  <2>2. \A u \in Tasks : KeptOrOff(u)
    BY <1>2, <2>1, DisableSwitchesOff DEF KeptOrOff, Reasons
  <2>3. QED
    BY <1>6, <1>14, <2>2 DEF Sweep, HistKept
<1>15. CASE SweepCannotOpen \/ LoadDue \/ MarkSkips \/ PlanWait \/ EnterWait \/ SleepOver
  BY <1>3, <1>15 DEF SweepCannotOpen, LoadDue, MarkSkips, PlanWait, EnterWait, SleepOver
<1>16. CASE MarkAndDispatch
  BY <1>0, <1>1, <1>16, MarkStep
<1>17. CASE Bookkeep
  <2> DEFINE t == job[Loop].task
  <2>1. job[Loop].pc = "book" /\ job'[Loop] = IdleJob /\ stored' = stored /\ hist' = hist
    BY <1>2, <1>17 DEF Bookkeep
  <2>2. \A u \in Tasks : Claimed(u)' <= Claimed(u)
    BY <2>1 DEF Claimed, IdleJob
  <2>3. \A u \in Tasks : \/ row'[u] = row[u]
                         \/ row'[u] = DisableFailed(row[u], "terminal_dispatch_error")
                         \/ row'[u] = [row[u] EXCEPT !.failures = @ + 1]
    BY <1>2, <1>17 DEF Bookkeep, BookedRow
  <2>4. \A u \in Tasks : KeptOrOff(u)
    <3>1. SUFFICES ASSUME NEW u \in Tasks PROVE KeptOrOff(u)
      OBVIOUS
    <3>2. CASE row'[u] = row[u]
      BY <3>2 DEF KeptOrOff
    <3>3. CASE row'[u] = DisableFailed(row[u], "terminal_dispatch_error")
      BY <1>2, <3>3, DisableSwitchesOff DEF KeptOrOff, Reasons
    <3>4. CASE row'[u] = [row[u] EXCEPT !.failures = @ + 1]
      BY <1>2, <3>4 DEF KeptOrOff, TaskRow
    <3>5. QED
      BY <2>3, <3>2, <3>3, <3>4
  <2>5. \A u \in Tasks : HistKept(u)
    BY <2>1 DEF HistKept
  <2>6. QED
    BY <1>0, <1>1, <2>1, <2>2, <2>4, <2>5, OffStep
<1>18. ASSUME NEW d \in Dispatchers, CreateSession(d) \/ Rollback(d) \/ RecordRun(d) PROVE Inv'
  <2>1. UNCHANGED <<row, stored, hist>>
    BY <1>18 DEF CreateSession, Rollback, RecordRun
  <2>2. QED
    BY <1>0, <1>1, <1>18, <2>1, OtherDispatch, QuietStep
<1>19. ASSUME NEW d \in Dispatchers, Send(d) PROVE Inv'
  BY <1>0, <1>1, <1>19, SendStep
<1>20. CASE Tick \/ Start \/ UNCHANGED vars
  BY <1>3, <1>20 DEF Tick, Start, vars
<1>21. CASE Crash
  <2>1. \A u \in Tasks : Claimed(u)' <= Claimed(u)
    BY <1>2, <1>21 DEF Crash, Claimed, IdleJob
  <2>2. UNCHANGED <<row, stored, hist>>
    BY <1>21 DEF Crash
  <2>3. QED
    BY <1>0, <1>1, <2>1, <2>2, QuietStep
<1>22. QED
  BY <1>0, <1>4, <1>5, <1>7, <1>8, <1>9, <1>10, <1>11, <1>12, <1>13, <1>14, <1>15, <1>16,
     <1>17, <1>18, <1>19, <1>20, <1>21, InputsAssumption DEF Next, LoopStep, DispatchStep

\* The inductive invariant holds in every reachable state.
THEOREM Invariance == Spec => []Inv
BY InvInit, InvStep, PTL DEF Spec

-----------------------------------------------------------------------------
\* What follows from it.

\* Every UPDATE of the table leaves each row cleanly armed or cleanly off.
THEOREM RowsArmedOrOff == Spec => []ArmedIsClean
<1>1. Inv => ArmedIsClean
  BY DEF Inv
<1>2. QED
  BY <1>1, Invariance, PTL

\* However commands, failures and crashes interleave with the loop, one arming
\* of a wakeup or run-once routine delivers at most one scheduled prompt.
THEOREM OneShotFiresOnce == Spec => []OneShotOnce
<1>1. Inv => OneShotOnce
  <2>1. SUFFICES ASSUME Inv, NEW t \in Tasks, ~row[t].recurring
                 PROVE  hist[t].sent <= hist[t].arms
    BY DEF OneShotOnce
  <2>2. /\ hist[t].sent + Claimed(t) + Armed(t) <= hist[t].arms
        /\ Claimed(t) \in Nat /\ Armed(t) \in Nat /\ hist[t].sent \in Nat /\ hist[t].arms \in Nat
    BY <2>1 DEF Inv, ArmingSpentOnce, Claimed, Armed, TypeOK
  <2>3. QED
    BY <2>2
<1>2. QED
  BY <1>1, Invariance, PTL

\* Only mark_agent_scheduled_task_fired records a fire: every other step keeps
\* last_fired_at of every existing row, and forgets a fire at most by re-arming.
LEMMA OnlyMarkFires ==
    ASSUME TypeOK, [Next]_vars, ~MarkAndDispatch, NEW t \in Tasks
    PROVE  /\ hist'[t].fired \in {hist[t].fired, NoTime}
           /\ row'[t].lastFired = row[t].lastFired \/ hist[t].arms = 0
<1>1. /\ row \in [Tasks -> TaskRow] /\ job \in [Dispatchers -> JobState]
      /\ hist \in [Tasks -> [arms: Nat, sent: Nat, fired: TimeOrNone, halted: BOOLEAN]]
  BY DEF TypeOK
<1> DEFINE Goal == /\ hist'[t].fired \in {hist[t].fired, NoTime}
                   /\ row'[t].lastFired = row[t].lastFired \/ hist[t].arms = 0
<1>2. ASSUME NEW u \in Tasks, NEW r, Insert(u, r) PROVE Goal
  BY <1>1, <1>2 DEF Insert
<1>3. ASSUME NEW u \in Tasks, ScheduleWakeup(u) \/ CreateCronRoutine(u) PROVE Goal
  BY <1>2, <1>3 DEF ScheduleWakeup, CreateCronRoutine
<1>4. ASSUME NEW u \in Tasks, DeleteRoutine(u) \/ PauseRoutine(u) PROVE Goal
  <2>1. row'[t] = row[t] \/ row'[t] = Disable(row[t], "paused")
    BY <1>1, <1>4 DEF DeleteRoutine, PauseRoutine
  <2>2. hist'[t].fired = hist[t].fired
    BY <1>1, <1>4 DEF DeleteRoutine, PauseRoutine
  <2>3. QED
    BY <1>1, <2>1, <2>2, DisableSwitchesOff DEF Reasons
<1>5. ASSUME NEW c \in Clients, ResumeWrite(c) PROVE Goal
  <2>1. job[c].task \in Tasks
    BY <1>1 DEF JobState, Dispatchers
  <2>2. QED
    BY <1>1, <1>5, <2>1 DEF ResumeWrite, TaskRow
<1>6. ASSUME NEW c \in Clients, NEW u \in Tasks, ResumeRead(c, u) \/ RunRoutine(c, u) PROVE Goal
  BY <1>6 DEF ResumeRead, RunRoutine
<1>7. ASSUME NEW w \in Workspaces, ArchiveDisable(w) PROVE Goal
  BY <1>1, <1>7 DEF ArchiveDisable, Disable, TaskRow
<1>8. ASSUME NEW w \in Workspaces,
             ArchiveFlip(w) \/ RestoreClaim(w) \/ RestoreDone(w) \/ DeleteWorkspace(w)
      PROVE  Goal
  BY <1>8 DEF ArchiveFlip, RestoreClaim, RestoreDone, DeleteWorkspace
<1>9. CASE Sweep
  <2>1. row'[t] = row[t] \/ row'[t] = DisableFailed(row[t], "workspace_unavailable")
    BY <1>9 DEF Sweep, SweepDisabled
  <2>2. hist' = hist
    BY <1>9 DEF Sweep
  <2>3. QED
    BY <1>1, <2>1, <2>2, DisableSwitchesOff DEF Reasons
<1>10. CASE SweepCannotOpen \/ LoadDue \/ MarkSkips \/ PlanWait \/ EnterWait \/ SleepOver
  BY <1>10 DEF SweepCannotOpen, LoadDue, MarkSkips, PlanWait, EnterWait, SleepOver
<1>11. CASE Bookkeep
  <2>1. \/ row'[t] = row[t]
        \/ row'[t] = DisableFailed(row[t], "terminal_dispatch_error")
        \/ row'[t] = [row[t] EXCEPT !.failures = @ + 1]
    BY <1>1, <1>11 DEF Bookkeep, BookedRow
  <2>2. hist' = hist
    BY <1>11 DEF Bookkeep
  <2>3. row'[t].lastFired = row[t].lastFired
    <3>1. CASE row'[t] = DisableFailed(row[t], "terminal_dispatch_error")
      BY <1>1, <3>1, DisableSwitchesOff DEF Reasons
    <3>2. CASE row'[t] = [row[t] EXCEPT !.failures = @ + 1]
      BY <1>1, <3>2 DEF TaskRow
    <3>3. QED
      BY <2>1, <3>1, <3>2
  <2>4. QED
    BY <2>2, <2>3
<1>12. ASSUME NEW d \in Dispatchers, CreateSession(d) \/ Rollback(d) \/ RecordRun(d) PROVE Goal
  BY <1>12 DEF CreateSession, Rollback, RecordRun
<1>13. ASSUME NEW d \in Dispatchers, Send(d) PROVE Goal
  <2>1. row' = row /\ hist' \in {hist, [hist EXCEPT ![job[d].task].sent = @ + 1]}
    BY <1>13, Zenon DEF Send
  <2>2. QED
    BY <1>1, <2>1
<1>14. CASE Tick \/ Crash \/ Start \/ UNCHANGED vars
  BY <1>14 DEF Tick, Crash, Start, vars
<1>15. QED
  BY <1>3, <1>4, <1>5, <1>6, <1>7, <1>8, <1>9, <1>10, <1>11, <1>12, <1>13, <1>14,
     InputsAssumption DEF Next, LoopStep, DispatchStep

\* What the UPDATE that records a fire found in the row.
LEMMA MarkFinds ==
    ASSUME TypeOK, MarkAndDispatch, NEW t \in Tasks,
           row'[t].lastFired # row[t].lastFired \/ hist'[t].fired # hist[t].fired
    PROVE  /\ t \in stored /\ row[t].enabled = TRUE /\ hist'[t].fired = loop.now
           /\ row[t].next # NoTime /\ row[t].next <= loop.now
<1>1. row \in [Tasks -> TaskRow] /\ hist \in [Tasks -> [arms: Nat, sent: Nat,
                                                        fired: TimeOrNone, halted: BOOLEAN]]
  BY DEF TypeOK
<1>2. t = Head(loop.due)
  BY <1>1 DEF MarkAndDispatch
<1>3. QED
  BY <1>1, <1>2 DEF MarkAndDispatch, CanMark, DueAt, TaskRow

\* A recurring routine fires at most once per match of its cron expression, and
\* missed matches are coalesced into one fire.
THEOREM LoopsCoalesce == Spec => RecurringCoalesced
<1>1. Inv /\ [Next]_vars =>
        [\A t \in Tasks :
           hist'[t].fired # hist[t].fired /\ hist'[t].fired # NoTime /\ hist[t].fired # NoTime
             => \E m \in row[t].cron : hist[t].fired < m /\ m <= hist'[t].fired]_vars
  <2>1. SUFFICES ASSUME Inv, [Next]_vars, NEW t \in Tasks, hist'[t].fired # hist[t].fired,
                        hist'[t].fired # NoTime, hist[t].fired # NoTime
                 PROVE  \E m \in row[t].cron : hist[t].fired < m /\ m <= hist'[t].fired
    OBVIOUS
  <2>2. MarkAndDispatch
    BY <2>1, OnlyMarkFires DEF Inv
  <2>3. /\ t \in stored /\ row[t].enabled = TRUE /\ hist'[t].fired = loop.now
        /\ row[t].next # NoTime /\ row[t].next <= loop.now
    BY <2>1, <2>2, MarkFinds DEF Inv
  <2>4. row[t].next \in row[t].cron /\ row[t].next > hist[t].fired
    BY <2>1, <2>3 DEF Inv, ArmedForLaterMatch
  <2>5. row[t].next \in Int /\ hist[t].fired \in Int
    BY <2>1, BoundsAssumption DEF Inv, TypeOK, TaskRow, TimeOrNone, Time, NoTime
  <2>6. QED
    BY <2>3, <2>4, <2>5
<1>2. QED
  BY <1>1, Invariance, PTL DEF Spec, RecurringCoalesced

\* A routine the user paused stays silent until a resume commits, even if the
\* pause arrives between the loop's reading of its due list and the fire.
THEOREM PauseHolds == Spec => PausedNeverFires
<1>1. Inv /\ [Next]_vars =>
        [\A t \in Tasks : row'[t].lastFired # row[t].lastFired => ~hist[t].halted]_vars
  <2>1. SUFFICES ASSUME Inv, [Next]_vars, NEW t \in Tasks, row'[t].lastFired # row[t].lastFired
                 PROVE  ~hist[t].halted
    OBVIOUS
  <2>2. CASE MarkAndDispatch
    BY <2>1, <2>2, MarkFinds DEF Inv, HaltedIsOff
  <2>3. CASE ~MarkAndDispatch
    BY <2>1, <2>3, OnlyMarkFires DEF Inv, UnbornIsBlank
  <2>4. QED
    BY <2>2, <2>3
<1>2. QED
  BY <1>1, Invariance, PTL DEF Spec, PausedNeverFires


-----------------------------------------------------------------------------
\* Blank tabs.

\* A dispatcher works for a task that was inserted, and a session is created only
\* for a task that asks for one.
JobsAreBorn ==
    \A d \in Dispatchers :
        /\ job[d].pc # "idle" => hist[job[d].task].arms > 0
        /\ job[d].pc = "create" => row[job[d].task].newSession

\* The sessions of a deleted workspace went with it, and none follow.
DeletedHasNoTabs == \A w \in Workspaces : ws[w] = "deleted" => blank[w] = 0

Tabs == Inv /\ JobsAreBorn /\ DeletedHasNoTabs /\ NoBlankTabs

\* What a fire reads from its row, for as long as the fire lasts: no UPDATE
\* changes the workspace or new_session of a row, and no id is inserted twice.
LEMMA RowsKeepTarget ==
    ASSUME TypeOK, [Next]_vars, NEW t \in Tasks, hist[t].arms > 0
    PROVE  /\ row'[t].ws = row[t].ws /\ row'[t].newSession = row[t].newSession
           /\ hist'[t].arms >= hist[t].arms
<1>1. /\ row \in [Tasks -> TaskRow] /\ job \in [Dispatchers -> JobState]
      /\ hist \in [Tasks -> [arms: Nat, sent: Nat, fired: TimeOrNone, halted: BOOLEAN]]
      /\ hist[t].arms \in Nat
  BY DEF TypeOK
<1> DEFINE Goal == /\ row'[t].ws = row[t].ws /\ row'[t].newSession = row[t].newSession
                   /\ hist'[t].arms >= hist[t].arms
<1>2. ASSUME NEW u \in Tasks, NEW r, Insert(u, r) PROVE Goal
  BY <1>1, <1>2 DEF Insert
<1>3. ASSUME NEW u \in Tasks, ScheduleWakeup(u) \/ CreateCronRoutine(u) PROVE Goal
  BY <1>2, <1>3 DEF ScheduleWakeup, CreateCronRoutine
<1>a. ASSUME NEW why, row'[t] \in {row[t], Disable(row[t], why), DisableFailed(row[t], why)}
      PROVE  row'[t].ws = row[t].ws /\ row'[t].newSession = row[t].newSession
  BY <1>1, <1>a DEF Disable, DisableFailed, TaskRow
<1>4. ASSUME NEW u \in Tasks, DeleteRoutine(u) \/ PauseRoutine(u) PROVE Goal
  <2>1. row'[t] = row[t] \/ row'[t] = Disable(row[t], "paused")
    BY <1>1, <1>4 DEF DeleteRoutine, PauseRoutine
  <2>2. hist'[t].arms = hist[t].arms
    BY <1>1, <1>4 DEF DeleteRoutine, PauseRoutine
  <2>3. QED
    BY <1>1, <1>a, <2>1, <2>2
<1>5. ASSUME NEW c \in Clients, ResumeWrite(c) PROVE Goal
  <2>1. job[c].task \in Tasks
    BY <1>1 DEF JobState, Dispatchers
  <2>2. QED
    BY <1>1, <1>5, <2>1 DEF ResumeWrite, TaskRow
<1>6. ASSUME NEW c \in Clients, NEW u \in Tasks, ResumeRead(c, u) \/ RunRoutine(c, u) PROVE Goal
  BY <1>1, <1>6 DEF ResumeRead, RunRoutine
<1>7. ASSUME NEW w \in Workspaces, ArchiveDisable(w) PROVE Goal
  <2>1. row'[t] = row[t] \/ row'[t] = Disable(row[t], "workspace_archived")
    BY <1>7 DEF ArchiveDisable
  <2>2. QED
    BY <1>1, <1>7, <1>a, <2>1 DEF ArchiveDisable
<1>8. ASSUME NEW w \in Workspaces,
             ArchiveFlip(w) \/ RestoreClaim(w) \/ RestoreDone(w) \/ DeleteWorkspace(w)
      PROVE  Goal
  BY <1>1, <1>8 DEF ArchiveFlip, RestoreClaim, RestoreDone, DeleteWorkspace
<1>9. CASE Sweep
  <2>1. row'[t] = row[t] \/ row'[t] = DisableFailed(row[t], "workspace_unavailable")
    BY <1>9 DEF Sweep, SweepDisabled
  <2>2. QED
    BY <1>1, <1>9, <1>a, <2>1 DEF Sweep
<1>10. CASE SweepCannotOpen \/ LoadDue \/ MarkSkips \/ PlanWait \/ EnterWait \/ SleepOver
  <2>1. UNCHANGED <<row, hist>>
    BY <1>10 DEF SweepCannotOpen, LoadDue, MarkSkips, PlanWait, EnterWait, SleepOver
  <2>2. QED
    BY <1>1, <2>1
<1>11. CASE MarkAndDispatch
  <2>1. row'[t] = row[t] \/ row'[t] = MarkedRow(t)
    BY <1>1, <1>11 DEF MarkAndDispatch
  <2>2. MarkedRow(t).ws = row[t].ws /\ MarkedRow(t).newSession = row[t].newSession
    BY <1>1 DEF MarkedRow, TaskRow
  <2>3. hist'[t].arms = hist[t].arms
    BY <1>1, <1>11 DEF MarkAndDispatch
  <2>4. QED
    BY <1>1, <2>1, <2>2, <2>3
<1>12. CASE Bookkeep
  <2>1. \/ row'[t] \in {row[t], DisableFailed(row[t], "terminal_dispatch_error")}
        \/ row'[t] = [row[t] EXCEPT !.failures = @ + 1]
    BY <1>1, <1>12 DEF Bookkeep, BookedRow
  <2>2. row'[t].ws = row[t].ws /\ row'[t].newSession = row[t].newSession
    BY <1>1, <1>a, <2>1 DEF TaskRow
  <2>3. QED
    BY <1>1, <1>12, <2>2 DEF Bookkeep
<1>13. ASSUME NEW d \in Dispatchers, CreateSession(d) \/ Rollback(d) \/ RecordRun(d) PROVE Goal
  BY <1>1, <1>13 DEF CreateSession, Rollback, RecordRun
<1>14. ASSUME NEW d \in Dispatchers, Send(d) PROVE Goal
  <2>1. row' = row /\ hist' \in {hist, [hist EXCEPT ![job[d].task].sent = @ + 1]}
    BY <1>14, Zenon DEF Send
  <2>2. QED
    BY <1>1, <2>1
<1>15. CASE Tick \/ Crash \/ Start \/ UNCHANGED vars
  BY <1>1, <1>15 DEF Tick, Crash, Start, vars
<1>16. QED
  BY <1>3, <1>4, <1>5, <1>6, <1>7, <1>8, <1>9, <1>10, <1>11, <1>12, <1>13, <1>14, <1>15,
     InputsAssumption DEF Next, LoopStep, DispatchStep

\* A fire whose dispatcher does not move stays in the same place.
LEMMA FiresStay ==
    ASSUME Inv, JobsAreBorn, [Next]_vars, NEW d \in Dispatchers, job'[d] = job[d]
    PROVE  /\ job'[d].pc # "idle" => hist'[job'[d].task].arms > 0
           /\ job'[d].pc = "create" => row'[job'[d].task].newSession
           /\ \A w \in Workspaces : d \in NewSessionFires(w) => d \in NewSessionFires(w)'
<1>1. TypeOK /\ job[d].task \in Tasks /\ hist[job[d].task].arms \in Nat
  BY DEF Inv, TypeOK, JobState
<1>2. CASE job[d].pc = "idle"
  BY <1>2 DEF NewSessionFires
<1>3. CASE job[d].pc # "idle"
  <2>1. hist[job[d].task].arms > 0
    BY <1>3 DEF JobsAreBorn
  <2>2. /\ row'[job[d].task].ws = row[job[d].task].ws
        /\ row'[job[d].task].newSession = row[job[d].task].newSession
        /\ hist'[job[d].task].arms >= hist[job[d].task].arms
    BY <1>1, <2>1, RowsKeepTarget
  <2>3. hist'[job[d].task].arms \in Nat
    BY <1>1, TypeStep DEF TypeOK
  <2>4. QED
    BY <1>1, <2>1, <2>2, <2>3 DEF JobsAreBorn, NewSessionFires
<1>4. QED
  BY <1>2, <1>3

\* The callers at work are finitely many.
LEMMA DispatchersCount ==
    IsFiniteSet(Dispatchers) /\ Cardinality(Dispatchers) \in Nat /\ Cardinality(Dispatchers) >= 1
<1>1. IsFiniteSet(Dispatchers) /\ Cardinality(Dispatchers) \in Nat
  BY InputsAssumption, FS_AddElement, FS_CardinalityType, Zenon DEF Dispatchers
<1>2. Cardinality(Dispatchers) # 0
  BY <1>1, FS_EmptySet DEF Dispatchers
<1>3. QED
  BY <1>1, <1>2

\* The fires in flight are counted: there are at most as many as dispatchers.
LEMMA FiresAreFew ==
    ASSUME NEW w
    PROVE  /\ IsFiniteSet(NewSessionFires(w)) /\ Cardinality(NewSessionFires(w)) \in Nat
           /\ Cardinality(NewSessionFires(w)) <= Cardinality(Dispatchers)
           /\ IsFiniteSet(NewSessionFires(w)') /\ Cardinality(NewSessionFires(w)') \in Nat
           /\ Cardinality(Dispatchers) \in Nat /\ Cardinality(Dispatchers) >= 1
<1>1. IsFiniteSet(Dispatchers) /\ Cardinality(Dispatchers) \in Nat
      /\ Cardinality(Dispatchers) >= 1
  BY DispatchersCount, Zenon
<1>2. NewSessionFires(w) \in SUBSET Dispatchers /\ NewSessionFires(w)' \in SUBSET Dispatchers
  BY DEF NewSessionFires
<1>3. IsFiniteSet(NewSessionFires(w)) /\ IsFiniteSet(NewSessionFires(w)')
      /\ Cardinality(NewSessionFires(w)) <= Cardinality(Dispatchers)
  BY <1>1, <1>2, FS_Subset, Zenon
<1>4. Cardinality(NewSessionFires(w)) \in Nat /\ Cardinality(NewSessionFires(w)') \in Nat
  BY <1>3, FS_CardinalityType, Zenon
<1>5. QED
  BY <1>1, <1>3, <1>4

\* The bound of one workspace: the empty sessions of fires in flight and of fires
\* that a crash or an error cut short.
TabBound(w) == blank[w] <= Cardinality(NewSessionFires(w)) + faults * Cardinality(Dispatchers)

\* One element more or less changes the size of a finite set by at most one.
LEMMA OneElement ==
    ASSUME NEW S, IsFiniteSet(S), NEW T, IsFiniteSet(T), NEW x
    PROVE  /\ T \subseteq S \cup {x} => Cardinality(T) <= Cardinality(S) + 1
           /\ x \notin S /\ S \cup {x} \subseteq T => Cardinality(S) + 1 <= Cardinality(T)
<1>1. /\ IsFiniteSet(S \cup {x}) /\ Cardinality(S) \in Nat /\ Cardinality(S \cup {x}) \in Nat
      /\ Cardinality(T) \in Nat
  BY FS_AddElement, FS_CardinalityType
<1>2. Cardinality(S \cup {x}) = IF x \in S THEN Cardinality(S) ELSE Cardinality(S) + 1
  BY FS_AddElement
<1>3. T \subseteq S \cup {x} => Cardinality(T) <= Cardinality(S \cup {x})
  BY <1>1, FS_Subset
<1>4. S \cup {x} \subseteq T => Cardinality(S \cup {x}) <= Cardinality(T)
  BY FS_Subset
<1>5. QED
  BY <1>1, <1>2, <1>3, <1>4

\* A fault pays for every dispatcher.
LEMMA FaultsPay ==
    ASSUME NEW N \in Nat, NEW f \in Nat
    PROVE  f * N \in Nat /\ (f + 1) * N = f * N + N
OBVIOUS

\* A step that creates no session and ends no fire keeps the bound.
LEMMA NoFireEnds ==
    ASSUME Tabs, TypeOK', [Next]_vars, NEW w \in Workspaces, blank'[w] <= blank[w],
           faults' = faults \/ faults' = faults + 1,
           NewSessionFires(w) \subseteq NewSessionFires(w)'
    PROVE  TabBound(w)'
<1>1. /\ blank[w] \in Int /\ blank'[w] \in Int /\ faults \in Nat
      /\ blank[w] <= Cardinality(NewSessionFires(w)) + faults * Cardinality(Dispatchers)
  BY BoundsAssumption DEF Tabs, Inv, TypeOK, NoBlankTabs
<1>2. Cardinality(NewSessionFires(w)) <= Cardinality(NewSessionFires(w)')
  BY FiresAreFew, FS_Subset
<1>3. /\ Cardinality(Dispatchers) \in Nat /\ Cardinality(NewSessionFires(w)) \in Nat
      /\ Cardinality(NewSessionFires(w)') \in Nat
  BY FiresAreFew
<1> DEFINE N == Cardinality(Dispatchers)
<1>4. faults * N \in Nat /\ (faults + 1) * N = faults * N + N
  BY <1>1, <1>3, FaultsPay
<1>5. faults' * N \in Nat /\ faults' * N >= faults * N
  BY <1>1, <1>3, <1>4
<1>6. QED
  BY <1>1, <1>2, <1>3, <1>4, <1>5 DEF TabBound

\* One fire ends: with its session filled or archived, or with a fault.
LEMMA OneFireEnds ==
    ASSUME Tabs, TypeOK', [Next]_vars, NEW w \in Workspaces, NEW d \in Dispatchers,
           \/ blank'[w] <= blank[w] - 1 /\ faults' = faults
           \/ blank'[w] <= blank[w] /\ faults' = faults + 1,
           NewSessionFires(w) \subseteq NewSessionFires(w)' \cup {d}
    PROVE  TabBound(w)'
<1>1. /\ blank[w] \in Int /\ blank'[w] \in Int /\ faults \in Nat
      /\ blank[w] <= Cardinality(NewSessionFires(w)) + faults * Cardinality(Dispatchers)
  BY BoundsAssumption DEF Tabs, Inv, TypeOK, NoBlankTabs
<1>2. Cardinality(NewSessionFires(w)) <= Cardinality(NewSessionFires(w)') + 1
  BY FiresAreFew, OneElement
<1>3. /\ Cardinality(Dispatchers) \in Nat /\ Cardinality(NewSessionFires(w)) \in Nat
      /\ Cardinality(NewSessionFires(w)') \in Nat /\ Cardinality(Dispatchers) >= 1
  BY FiresAreFew
<1> DEFINE N == Cardinality(Dispatchers)
<1>4. faults * N \in Nat /\ (faults + 1) * N = faults * N + N
  BY <1>1, <1>3, FaultsPay
<1>5. QED
  BY <1>1, <1>2, <1>3, <1>4 DEF TabBound

\* A step that creates no session and only starts or ends other work.
LEMMA CommandTabs ==
    ASSUME Tabs, [Next]_vars, UNCHANGED <<ws, blank>>,
           faults' = faults \/ faults' = faults + 1,
           \A d \in Dispatchers :
               \/ job'[d] = job[d]
               \/ /\ \A w \in Workspaces : d \notin NewSessionFires(w)
                  /\ job'[d].pc # "idle" => hist'[job'[d].task].arms > 0
                  /\ job'[d].pc = "create" => row'[job'[d].task].newSession
    PROVE  Tabs'
<1>1. Inv' /\ TypeOK /\ TypeOK'
  BY InvStep, TypeStep DEF Tabs, Inv
<1>2. JobsAreBorn'
  BY FiresStay DEF Tabs, JobsAreBorn
<1>3. DeletedHasNoTabs'
  BY DEF Tabs, DeletedHasNoTabs
<1>4. ASSUME NEW w \in Workspaces PROVE TabBound(w)'
  <2>1. NewSessionFires(w) \subseteq NewSessionFires(w)'
    <3>1. NewSessionFires(w) \subseteq Dispatchers
      BY DEF NewSessionFires
    <3>2. QED
      BY <3>1, FiresStay DEF Tabs
  <2>2. blank[w] \in Int
    BY <1>1 DEF TypeOK
  <2>3. QED
    BY <1>1, <2>1, <2>2, NoFireEnds
<1>5. QED
  BY <1>1, <1>2, <1>3, <1>4 DEF Tabs, NoBlankTabs, TabBound

\* create_chat_session: the new tab belongs to a fire in flight.
LEMMA CreateTabs == ASSUME Tabs, NEW d \in Dispatchers, CreateSession(d) PROVE Tabs'
<1>0. [Next]_vars
  BY Zenon DEF Next, DispatchStep
<1>1. Inv' /\ TypeOK /\ TypeOK'
  BY <1>0, InvStep, TypeStep DEF Tabs, Inv
<1>a. PICK t \in Tasks, v \in Workspaces : t = job[d].task /\ v = row[t].ws
  BY <1>1 DEF TypeOK, JobState, TaskRow
<1>2. /\ t = job[d].task /\ v = row[t].ws /\ job \in [Dispatchers -> JobState]
      /\ blank \in [Workspaces -> Int] /\ row[t].newSession /\ hist[t].arms > 0
  BY <1>1, <1>a DEF CreateSession, TypeOK, Tabs, JobsAreBorn
<1>3. job[d].pc = "create" /\ UNCHANGED <<row, hist, ws>> /\ (Healthy \/ Faulty)
  BY DEF CreateSession
<1>4. CASE UNCHANGED blank
  <2>1. job' = [job EXCEPT ![d].pc = "record", ![d].err = "transient"] \/ job' = [job EXCEPT ![d].pc = "send"]
    BY <1>4 DEF CreateSession
  <2>2. job'[d].task = t /\ job'[d].pc \in {"record", "send"} /\ \A e \in Dispatchers : e # d => job'[e] = job[e]
    BY <1>2, <2>1 DEF JobState
  <2>3. QED
    BY <1>0, <1>2, <1>3, <1>4, <2>2, CommandTabs DEF NewSessionFires, Healthy, Faulty
<1>5. CASE ~UNCHANGED blank
  <2>1. /\ ws[v] # "deleted" /\ faults' = faults /\ blank' = [blank EXCEPT ![v] = @ + 1]
        /\ job' = [job EXCEPT ![d].pc = "send"]
    BY <1>2, <1>5 DEF CreateSession, Healthy
  <2>2. /\ job'[d].task = t /\ job'[d].pc = "send"
        /\ \A e \in Dispatchers : e # d => job'[e] = job[e]
    BY <1>2, <2>1 DEF JobState
  <2>3. JobsAreBorn'
    BY <1>0, <1>2, <1>3, <2>2, FiresStay DEF Tabs, JobsAreBorn
  <2>4. DeletedHasNoTabs'
    BY <1>2, <1>3, <2>1 DEF Tabs, DeletedHasNoTabs
  <2>5. \A w \in Workspaces : NewSessionFires(w) \subseteq NewSessionFires(w)'
    <3>1. d \notin NewSessionFires(v)
      BY <1>3 DEF NewSessionFires
    <3>2. \A w \in Workspaces : NewSessionFires(w) \subseteq Dispatchers /\ d \notin NewSessionFires(w)
      BY <1>3 DEF NewSessionFires
    <3>3. QED
      BY <1>0, <2>2, <3>2, FiresStay DEF Tabs
  <2>6. ASSUME NEW w \in Workspaces, w # v PROVE TabBound(w)'
    <3>1. blank'[w] = blank[w] /\ blank[w] \in Int
      BY <1>2, <2>1, <2>6
    <3>2. QED
      BY <1>0, <1>1, <2>1, <2>5, <3>1, NoFireEnds
  <2>7. TabBound(v)'
    <3>1. d \notin NewSessionFires(v) /\ d \in NewSessionFires(v)'
      BY <1>2, <1>3, <2>2 DEF NewSessionFires
    <3>2. NewSessionFires(v) \cup {d} \subseteq NewSessionFires(v)'
      BY <2>5, <3>1
    <3>4. Cardinality(NewSessionFires(v)) + 1 <= Cardinality(NewSessionFires(v)')
      BY <3>1, <3>2, FiresAreFew, OneElement
    <3>5. TabBound(v) /\ blank'[v] = blank[v] + 1 /\ blank[v] \in Int
      BY <1>2, <2>1 DEF Tabs, NoBlankTabs, TabBound
    <3>6. faults * Cardinality(Dispatchers) \in Nat
      <4>1. faults \in Nat /\ Cardinality(Dispatchers) \in Nat
        BY <1>1, BoundsAssumption, DispatchersCount DEF TypeOK
      <4>2. QED
        BY <4>1, FaultsPay
    <3>7. QED
      BY <2>1, <3>4, <3>5, <3>6, FiresAreFew DEF TabBound
  <2>8. QED
    BY <1>1, <2>3, <2>4, <2>6, <2>7 DEF Tabs, NoBlankTabs, TabBound
<1>6. QED
  BY <1>4, <1>5

\* send_chat_message and archive_chat_session: a fire ends when its tab is used or
\* removed, or is left to a fault.
LEMMA EndTabs ==
    ASSUME Tabs, NEW d \in Dispatchers, Send(d) \/ Rollback(d)
    PROVE  Tabs'
<1>0. [Next]_vars
  BY Zenon DEF Next, DispatchStep
<1>1. Inv' /\ TypeOK /\ TypeOK'
  BY <1>0, InvStep, TypeStep DEF Tabs, Inv
<1>a. PICK t \in Tasks, v \in Workspaces : t = job[d].task /\ v = row[t].ws
  BY <1>1 DEF TypeOK, JobState, TaskRow
<1>2. /\ t = job[d].task /\ v = row[t].ws /\ job \in [Dispatchers -> JobState]
      /\ row[t].newSession \in BOOLEAN
      /\ blank \in [Workspaces -> Int] /\ hist[t].arms > 0
  BY <1>1, <1>a DEF Send, Rollback, TypeOK, TaskRow, Tabs, JobsAreBorn
<1>3. UNCHANGED <<row, ws>> /\ (faults' = faults \/ faults' = faults + 1)
  BY DEF Send, Rollback, Healthy, Faulty
<1>4. /\ job'[d].task = t /\ job'[d].pc \in {"rollback", "record"}
      /\ job[d].pc \in {"send", "rollback"} /\ (job[d].pc = "rollback" => job'[d].pc = "record")
      /\ \A e \in Dispatchers : e # d => job'[e] = job[e]
  <2>1. \E p \in {"rollback", "record"} : \E err :
            \/ job' = [job EXCEPT ![d].pc = p, ![d].err = err] /\ job[d].pc = "send"
            \/ job' = [job EXCEPT ![d].pc = "record"] /\ job[d].pc = "rollback"
    BY DEF Send, Rollback, AfterSend
  <2>2. QED
    BY <1>2, <2>1 DEF JobState
<1>5. hist'[t].arms > 0
  <2>1. hist'[t].arms >= hist[t].arms /\ hist[t].arms \in Nat /\ hist'[t].arms \in Nat
    BY <1>0, <1>1, <1>2, RowsKeepTarget DEF TypeOK
  <2>2. QED
    BY <1>2, <2>1
<1>6. JobsAreBorn'
  BY <1>0, <1>4, <1>5, FiresStay DEF Tabs, JobsAreBorn
<1>7. \A w \in Workspaces : NewSessionFires(w) \subseteq NewSessionFires(w)' \cup {d}
  <2>1. \A w \in Workspaces : NewSessionFires(w) \subseteq Dispatchers
    BY DEF NewSessionFires
  <2>2. QED
    BY <1>0, <1>4, <2>1, FiresStay DEF Tabs
<1>8. \A w \in Workspaces : w # v => NewSessionFires(w) \subseteq NewSessionFires(w)'
  BY <1>2, <1>7 DEF NewSessionFires
<1>9. ASSUME blank' \in {blank, [blank EXCEPT ![v] = @ - 1]},
             \/ /\ blank'[v] = blank[v] - 1 \/ faults' = faults + 1
                /\ ws[v] # "deleted" \/ blank' = blank
             \/ blank' = blank /\ NewSessionFires(v) \subseteq NewSessionFires(v)'
             \/ blank' = blank /\ ws[v] = "deleted"
      PROVE  Tabs'
  <2>1. DeletedHasNoTabs'
    BY <1>2, <1>3, <1>9 DEF Tabs, DeletedHasNoTabs
  <2>2. ASSUME NEW w \in Workspaces, w # v PROVE TabBound(w)'
    <3>1. blank'[w] = blank[w] /\ blank[w] \in Int
      BY <1>2, <1>9, <2>2
    <3>2. QED
      BY <1>0, <1>1, <1>3, <1>8, <2>2, <3>1, NoFireEnds
  <2>3. TabBound(v)'
    <3>1. CASE blank'[v] = blank[v] - 1 \/ faults' = faults + 1
      <4>1. \/ blank'[v] <= blank[v] - 1 /\ faults' = faults
            \/ blank'[v] <= blank[v] /\ faults' = faults + 1
        BY <1>2, <1>3, <1>9, <3>1
      <4>2. QED
        BY <1>0, <1>1, <1>2, <1>7, <4>1, OneFireEnds
    <3>2. CASE blank' = blank /\ NewSessionFires(v) \subseteq NewSessionFires(v)'
      <4>1. blank'[v] <= blank[v]
        BY <1>2, <3>2
      <4>2. QED
        BY <1>0, <1>1, <1>2, <1>3, <3>2, <4>1, NoFireEnds
    <3>3. CASE blank' = blank /\ ws[v] = "deleted"
      <4>1. blank'[v] = 0
        BY <1>2, <3>3 DEF Tabs, DeletedHasNoTabs
      <4>2. Cardinality(NewSessionFires(v)') \in Nat /\ faults' * Cardinality(Dispatchers) \in Nat
        <5>1. faults' \in Nat /\ Cardinality(Dispatchers) \in Nat
          BY <1>1, BoundsAssumption, DispatchersCount DEF TypeOK
        <5>2. QED
          BY <5>1, FiresAreFew, FaultsPay
      <4>3. QED
        BY <4>1, <4>2 DEF TabBound
    <3>4. QED
      BY <1>9, <3>1, <3>2, <3>3
  <2>4. QED
    BY <1>1, <1>6, <2>1, <2>2, <2>3 DEF Tabs, NoBlankTabs, TabBound
<1>10. CASE Send(d)
  <2>1. PICK err \in SendOutcomes(v) :
          /\ IF err = "transient" THEN Faulty ELSE Healthy
          /\ job' = [job EXCEPT ![d].pc = AfterSend(d, err), ![d].err = err]
          /\ blank' = IF err = "none" /\ row[t].newSession
                      THEN [blank EXCEPT ![v] = @ - 1] ELSE blank
    BY <1>2, <1>10 DEF Send
  <2>2. CASE err = "none" /\ row[t].newSession
    <3>1. blank' = [blank EXCEPT ![v] = @ - 1] /\ blank'[v] = blank[v] - 1
      BY <1>2, <2>1, <2>2
    <3>2. ws[v] # "deleted"
      BY <2>2 DEF SendOutcomes
    <3>3. QED
      BY <3>1, <3>2, <1>9
  <2>3. CASE ~(err = "none" /\ row[t].newSession)
    <3>1. blank' = blank
      BY <2>1, <2>3
    <3>2. NewSessionFires(v) \subseteq NewSessionFires(v)'
      <4>1. CASE row[t].newSession
        <5>1. job'[d].pc = "rollback"
          BY <1>2, <2>1, <2>3, <4>1 DEF AfterSend, JobState
        <5>2. d \in NewSessionFires(v)'
          BY <1>2, <1>3, <1>4, <4>1, <5>1 DEF NewSessionFires
        <5>3. QED
          BY <1>2, <1>7, <5>2
      <4>2. CASE ~row[t].newSession
        BY <1>2, <1>7, <4>2 DEF NewSessionFires
      <4>3. QED
        BY <4>1, <4>2
    <3>3. QED
      BY <3>1, <3>2, <1>9
  <2>4. QED
    BY <2>2, <2>3
<1>11. CASE Rollback(d)
  <2>1. CASE Healthy
    <3>1. CASE ws[v] = "deleted"
      <4>1. blank' = blank
        BY <1>1, <1>2, <1>11, <2>1, <3>1, BoundsAssumption DEF Rollback, Healthy, Faulty, TypeOK
      <4>2. QED
        BY <4>1, <3>1, <1>9
    <3>2. CASE ws[v] # "deleted" /\ blank' = [blank EXCEPT ![v] = @ - 1]
      <4>1. blank'[v] = blank[v] - 1
        BY <1>2, <3>2
      <4>2. QED
        BY <4>1, <3>2, <1>9
    <3>3. QED
      BY <1>1, <1>2, <1>11, <2>1, <3>1, <3>2, BoundsAssumption DEF Rollback, Healthy, Faulty, TypeOK
  <2>2. CASE Faulty /\ UNCHANGED blank
    BY <2>2, <1>9 DEF Faulty
  <2>3. QED
    BY <1>11, <2>1, <2>2 DEF Rollback
<1>12. QED
  BY <1>10, <1>11

\* Quitting ends every fire at once, and its fault pays for all of them.
LEMMA CrashTabs == ASSUME Tabs, Crash PROVE Tabs'
<1>0. [Next]_vars
  BY DEF Next
<1>1. Inv' /\ TypeOK /\ TypeOK'
  BY <1>0, InvStep, TypeStep DEF Tabs, Inv
<1>2. faults' = faults + 1 /\ UNCHANGED <<blank, ws>> /\ \A d \in Dispatchers : job'[d] = IdleJob
  BY DEF Crash, Faulty
<1>3. JobsAreBorn' /\ DeletedHasNoTabs'
  <2>0. IdleJob.pc = "idle"
    BY DEF IdleJob
  <2>1. \A d \in Dispatchers : job'[d].pc = "idle"
    BY <1>2, <2>0
  <2>2. JobsAreBorn'
    BY <2>1 DEF JobsAreBorn
  <2>3. QED
    BY <1>2, <2>2 DEF Tabs, DeletedHasNoTabs
<1>4. ASSUME NEW w \in Workspaces PROVE TabBound(w)'
  <2>1. TabBound(w) /\ blank[w] \in Int /\ faults \in Nat
    BY <1>1, BoundsAssumption DEF Tabs, NoBlankTabs, TabBound, TypeOK
  <2> DEFINE N == Cardinality(Dispatchers)
  <2>2. N \in Nat /\ Cardinality(NewSessionFires(w)) \in Nat /\ Cardinality(NewSessionFires(w)) <= N
        /\ Cardinality(NewSessionFires(w)') \in Nat
    BY FiresAreFew
  <2>3. faults * N \in Nat /\ (faults + 1) * N = faults * N + N
    BY <2>1, <2>2, FaultsPay
  <2>4. QED
    BY <1>2, <2>1, <2>2, <2>3 DEF TabBound
<1>5. QED
  BY <1>1, <1>3, <1>4 DEF Tabs, NoBlankTabs, TabBound

\* delete_workspace: the tabs go with the workspace.
LEMMA DeleteTabs == ASSUME Tabs, NEW v \in Managed, DeleteWorkspace(v) PROVE Tabs'
<1>0. [Next]_vars
  BY Zenon DEF Next
<1>1. Inv' /\ TypeOK /\ TypeOK' /\ v \in Workspaces
  BY <1>0, InvStep, TypeStep, InputsAssumption DEF Tabs, Inv
<1>2. UNCHANGED <<job, row, hist, faults>> /\ blank' = [blank EXCEPT ![v] = 0]
      /\ ws' = [ws EXCEPT ![v] = "deleted"] /\ blank \in [Workspaces -> Int]
      /\ ws \in [Workspaces -> WsStates]
  BY <1>1 DEF DeleteWorkspace, TypeOK
<1>3. JobsAreBorn'
  BY <1>2 DEF Tabs, JobsAreBorn
<1>4. DeletedHasNoTabs'
  BY <1>2 DEF Tabs, DeletedHasNoTabs
<1>5. ASSUME NEW w \in Workspaces PROVE TabBound(w)'
  <2>1. TabBound(w) /\ NewSessionFires(w)' = NewSessionFires(w)
    BY <1>2 DEF Tabs, NoBlankTabs, TabBound, NewSessionFires
  <2>2. faults * Cardinality(Dispatchers) \in Nat
    <3>1. faults \in Nat /\ Cardinality(Dispatchers) \in Nat
      BY <1>1, BoundsAssumption, DispatchersCount DEF TypeOK
    <3>2. QED
      BY <3>1, FaultsPay
  <2>3. blank'[w] = blank[w] \/ blank'[w] = 0
    BY <1>2
  <2>4. QED
    BY <1>2, <2>1, <2>2, <2>3, FiresAreFew DEF TabBound
<1>6. QED
  BY <1>1, <1>3, <1>4, <1>5 DEF Tabs, NoBlankTabs, TabBound

\* Every step keeps the bound.
LEMMA TabsStep == Tabs /\ [Next]_vars => Tabs'
<1>0. SUFFICES ASSUME Tabs, [Next]_vars PROVE Tabs'
  OBVIOUS
<1>1. /\ TypeOK /\ TypeOK' /\ job \in [Dispatchers -> JobState]
      /\ ws \in [Workspaces -> WsStates] /\ faults \in Nat
  BY <1>0, TypeStep, BoundsAssumption DEF Tabs, Inv, TypeOK
<1>2. ASSUME UNCHANGED <<ws, blank, job>>, Healthy \/ Faulty PROVE Tabs'
  BY <1>0, <1>2, CommandTabs DEF Healthy, Faulty
<1>3. ASSUME NEW t \in Tasks, ScheduleWakeup(t) \/ CreateCronRoutine(t) \/ DeleteRoutine(t) \/ PauseRoutine(t)
      PROVE  Tabs'
  <2>1. UNCHANGED <<ws, blank, job, faults>>
    BY <1>3 DEF ScheduleWakeup, CreateCronRoutine, DeleteRoutine, PauseRoutine, Insert
  <2>2. QED
    BY <1>2, <2>1 DEF Healthy
<1>4. ASSUME NEW d \in Dispatchers, NEW j, UNCHANGED <<ws, blank>>, Healthy \/ Faulty,
             job' = [job EXCEPT ![d] = j], job[d].pc \notin {"send", "rollback"},
             j.pc # "idle" => hist'[j.task].arms > 0,
             j.pc = "create" => row'[j.task].newSession
      PROVE  Tabs'
  <2>1. \A e \in Dispatchers : job'[e] = IF e = d THEN j ELSE job[e]
    BY <1>1, <1>4
  <2>2. \A w \in Workspaces : d \notin NewSessionFires(w)
    BY <1>4 DEF NewSessionFires
  <2>3. QED
    BY <1>0, <1>4, <2>1, <2>2, CommandTabs DEF Healthy, Faulty
<1>5. ASSUME NEW t \in stored PROVE hist[t].arms > 0 /\ t \in Tasks
  BY <1>0, <1>1 DEF Tabs, Inv, UnbornIsBlank, TypeOK
<1>6. ASSUME NEW c \in Clients, ResumeWrite(c) PROVE Tabs'
  <2>1. job' = [job EXCEPT ![c] = IdleJob] /\ job[c].pc = "resume" /\ UNCHANGED <<ws, blank, faults>>
    BY <1>6 DEF ResumeWrite
  <2>2. QED
    BY <1>4, <2>1 DEF Dispatchers, Healthy, IdleJob
<1>7. ASSUME NEW c \in Clients, NEW t \in Tasks, ResumeRead(c, t) PROVE Tabs'
  <2>1. job' = [job EXCEPT ![c] = [IdleJob EXCEPT !.pc = "resume", !.task = t, !.next = ResumeFireTime(t)]]
        /\ job[c].pc = "idle" /\ t \in stored /\ UNCHANGED <<ws, blank, faults, hist>>
    BY <1>7 DEF ResumeRead
  <2> DEFINE j == [IdleJob EXCEPT !.pc = "resume", !.task = t, !.next = ResumeFireTime(t)]
  <2>2. j.pc = "resume" /\ j.task = t
    BY DEF IdleJob
  <2>3. hist'[t].arms > 0
    BY <1>5, <2>1
  <2> HIDE DEF j
  <2>4. QED
    BY <1>4, <2>1, <2>2, <2>3 DEF Dispatchers, Healthy, j
<1>8. ASSUME NEW t \in Tasks
      PROVE  Dispatch(t).task = t /\ (Dispatch(t).pc = "create" => row[t].newSession)
  BY DEF Dispatch, IdleJob
<1>9. ASSUME NEW c \in Clients, NEW t \in Tasks, RunRoutine(c, t) PROVE Tabs'
  <2>1. job' = [job EXCEPT ![c] = Dispatch(t)]
        /\ job[c].pc = "idle" /\ t \in stored /\ UNCHANGED <<ws, blank, faults, hist, row>>
    BY <1>9 DEF RunRoutine
  <2>2. hist'[t].arms > 0
    BY <1>5, <2>1
  <2>3. QED
    BY <1>4, <1>8, <2>1, <2>2 DEF Dispatchers, Healthy
<1>10. ASSUME NEW w \in Managed, ArchiveDisable(w) PROVE Tabs'
  <2>1. UNCHANGED <<ws, blank, job, faults>>
    BY <1>10 DEF ArchiveDisable
  <2>2. QED
    BY <1>2, <2>1 DEF Healthy
<1>11. ASSUME NEW v \in Managed, ArchiveFlip(v) \/ RestoreClaim(v) \/ RestoreDone(v) PROVE Tabs'
  <2>1. UNCHANGED <<job, row, hist, faults, blank>>
    BY <1>11 DEF ArchiveFlip, RestoreClaim, RestoreDone
  <2>2. \A w \in Workspaces : ws'[w] = "deleted" => ws[w] = "deleted"
    BY <1>1, <1>11, InputsAssumption DEF ArchiveFlip, RestoreClaim, RestoreDone
  <2>3. JobsAreBorn' /\ DeletedHasNoTabs' /\ NoBlankTabs'
    BY <1>0, <2>1, <2>2 DEF Tabs, JobsAreBorn, DeletedHasNoTabs, NoBlankTabs, NewSessionFires
  <2>4. QED
    BY <1>0, <2>3, InvStep DEF Tabs
<1>12. CASE Sweep \/ SweepCannotOpen \/ LoadDue \/ MarkSkips \/ PlanWait \/ EnterWait \/ SleepOver
  <2>1. UNCHANGED <<ws, blank, job>> /\ (Healthy \/ Faulty)
    BY <1>12 DEF Sweep, SweepCannotOpen, LoadDue, MarkSkips, PlanWait, EnterWait, SleepOver, Healthy
  <2>2. QED
    BY <1>2, <2>1
<1>13. CASE MarkAndDispatch
  <2>1. PICK t : /\ t = Head(loop.due) /\ CanMark(t) /\ row' = [row EXCEPT ![t] = MarkedRow(t)]
                 /\ job' = [job EXCEPT ![Loop] = Dispatch(t)] /\ job[Loop].pc = "idle"
                 /\ hist' = [hist EXCEPT ![t].fired = loop.now] /\ UNCHANGED <<ws, blank, faults>>
    BY <1>13 DEF MarkAndDispatch, LoopReady, Healthy
  <2>2. t \in Tasks /\ hist[t].arms > 0
    BY <1>5, <2>1 DEF CanMark, DueAt
  <2>3. hist'[t].arms = hist[t].arms
    BY <1>1, <2>1, <2>2 DEF TypeOK
  <2>4. row'[t].newSession = row[t].newSession
    BY <1>0, <1>1, <2>2, RowsKeepTarget
  <2>5. QED
    BY <1>4, <1>8, <2>1, <2>2, <2>3, <2>4 DEF Dispatchers, Healthy
<1>14. CASE Bookkeep
  <2>1. job' = [job EXCEPT ![Loop] = IdleJob] /\ job[Loop].pc = "book" /\ UNCHANGED <<ws, blank>>
        /\ (Healthy \/ Faulty)
    BY <1>14 DEF Bookkeep
  <2>2. QED
    BY <1>4, <2>1 DEF Dispatchers, IdleJob
<1>15. ASSUME NEW d \in Dispatchers, RecordRun(d) PROVE Tabs'
  <2> DEFINE j == IF d = Loop /\ job[d].err # "none" THEN [job[d] EXCEPT !.pc = "book"] ELSE IdleJob
  <2>1. job' = [job EXCEPT ![d] = j] /\ job[d].pc = "record" /\ UNCHANGED <<ws, blank, hist>>
        /\ (Healthy \/ Faulty)
    BY <1>15 DEF RecordRun
  <2>2. \/ j.pc = "idle"
        \/ j.pc = "book" /\ j.task = job[d].task
    BY <1>1 DEF IdleJob, JobState
  <2>3. hist[job[d].task].arms > 0
    BY <1>0, <2>1 DEF Tabs, JobsAreBorn
  <2> HIDE DEF j
  <2>4. QED
    BY <1>4, <2>1, <2>2, <2>3
<1>16. CASE Tick \/ Start \/ UNCHANGED vars
  <2>1. UNCHANGED <<ws, blank, job>> /\ Healthy
    BY <1>16 DEF Tick, Start, vars, Healthy
  <2>2. QED
    BY <1>2, <2>1
<1>17. QED
  BY <1>0, <1>3, <1>6, <1>7, <1>9, <1>10, <1>11, <1>12, <1>13, <1>14, <1>15, <1>16, CreateTabs,
     EndTabs, CrashTabs, DeleteTabs DEF Next, LoopStep, DispatchStep

\* A routine that opens a new chat session for each fire leaves no blank tabs behind,
\* however its sends fail (dispatch_task_prompt): beyond the fires in flight there
\* are at most as many as crashes and database errors cut short.
THEOREM TabsStayFew == Spec => []NoBlankTabs
<1>1. Init => Tabs
  <2>1. SUFFICES ASSUME Init PROVE Tabs
    OBVIOUS
  <2>2. JobsAreBorn /\ DeletedHasNoTabs
    BY <2>1 DEF Init, IdleJob, JobsAreBorn, DeletedHasNoTabs
  <2>3. ASSUME NEW w \in Workspaces PROVE TabBound(w)
    <3>1. blank[w] = 0 /\ faults = 0
      BY <2>1 DEF Init
    <3>2. QED
      BY <3>1, FiresAreFew, FaultsPay DEF TabBound
  <2>4. QED
    BY <2>1, <2>2, <2>3, InvInit DEF Tabs, NoBlankTabs, TabBound
<1>2. Tabs => NoBlankTabs
  BY DEF Tabs
<1>3. QED
  BY <1>1, <1>2, TabsStep, PTL DEF Spec
=============================================================================

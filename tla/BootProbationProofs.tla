------------------------- MODULE BootProbationProofs -------------------------
(***************************************************************************)
(* Proofs about BootProbation, for any number of releases, launches,         *)
(* instances side by side, updates, failed operations, crashes and recorded   *)
(* stages: no hypothesis but BootAssumption.                                  *)
(*                                                                           *)
(* Two facts carry both safety theorems: a section writes back a record that   *)
(* is still on disk, unless `stale' counts the write; and a sentinel that has  *)
(* gone never comes back, unless such a write brings it back.                  *)
(***************************************************************************)
EXTENDS BootProbation, FiniteSetTheorems, TLAPS

-----------------------------------------------------------------------------
(* Types.                                                                    *)

(* Only a launch that is not of the newest release has an update to offer.   *)
OfferInv == \A b \in Boot : boot[b].update # "none" => boot[b].ver < Releases

TypeInv == TypeOK /\ OfferInv

LEMMA ConstantFacts ==
    /\ NoFile \in Probation /\ NoProcess \in Process
    /\ MaxProbationAttempts = 2
    /\ 0 \in Version
BY BootAssumption DEF NoFile, NoProcess, Probation, Process, Version, MaxProbationAttempts

LEMMA StartedType ==
    ASSUME NEW v \in Version
    PROVE  Started(v) \in Process /\ Started(v).update = "none"
BY ConstantFacts DEF Started, NoProcess, Process

LEMMA EndedType ==
    ASSUME NEW s \in {"gone", "crashed"}
    PROVE  Ended(s) \in Process /\ Ended(s).update = "none"
<1>1. NoProcess \in Process
  BY ConstantFacts
<1> QED
  BY <1>1 DEF Ended, NoProcess, Process

(* The lock changes nothing but the section and its record.                   *)
LEMMA LockType ==
    ASSUME NEW p \in Process, NEW sec \in {"attempt", "stage", "timeout"}, sentinel \in Probation
    PROVE  /\ Locks(p, sec) \in Process /\ Unlocks(p) \in Process
           /\ Locks(p, sec).update = p.update /\ Locks(p, sec).ver = p.ver
           /\ Unlocks(p).update = p.update /\ Unlocks(p).ver = p.ver
BY ConstantFacts DEF Locks, Unlocks, Process

LEMMA StatusType ==
    ASSUME NEW r \in Probation,
           NEW s \in {"Absent", "Pending", "RollbackInProgress", "RollbackFailed"}
    PROVE  Status(r, s) \in Probation
BY DEF Status, Probation

LEMMA InitType == Init => TypeInv
<1> SUFFICES ASSUME Init PROVE TypeInv
  OBVIOUS
<1>1. Started(0) \in Process /\ Started(0).update = "none"
  BY StartedType, ConstantFacts
<1>2. NoProcess.update = "none"
  BY DEF NoProcess
<1>3. \A b \in Boot : boot[b] \in {Started(0), NoProcess}
  BY DEF Init
<1>4. boot \in [Boot -> Process]
  BY <1>1, ConstantFacts DEF Init
<1>5. helper \in [Boot -> [pc: HelperSteps, rec: Probation]]
  BY ConstantFacts DEF Init, HelperSteps
<1>6. left \in 0 .. Rare
  BY BootAssumption DEF Init
<1>7. arms \in [Boot -> 0 .. created] /\ created \in Nat /\ lost \in Nat /\ stale \in Nat
  BY DEF Init
<1> QED
  BY <1>1, <1>2, <1>3, <1>4, <1>5, <1>6, <1>7, ConstantFacts
     DEF Init, TypeInv, TypeOK, OfferInv, VersionOrNone, Reports

(* Updating one launch keeps the other launches as they were.                *)
LEMMA BootUpdate ==
    ASSUME TypeInv, NEW b \in Boot, NEW p \in Process,
           p.update # "none" => p.ver < Releases,
           boot' = [boot EXCEPT ![b] = p]
    PROVE  (boot \in [Boot -> Process])' /\ OfferInv'
BY DEF TypeInv, TypeOK, OfferInv

LEMMA RareType ==
    ASSUME TypeInv, RareEvent \/ UNCHANGED left
    PROVE  left' \in 0 .. Rare
BY BootAssumption DEF TypeInv, TypeOK, RareEvent

LEMMA WriteBackType ==
    ASSUME TypeInv, NEW read, NEW r \in Probation, WriteBack(read, r)
    PROVE  sentinel' \in Probation /\ stale' \in Nat /\ left' \in 0 .. Rare
<1>1. RareEvent \/ UNCHANGED left
  BY DEF WriteBack
<1> QED
  BY <1>1, RareType DEF WriteBack, TypeInv, TypeOK

LEMMA RemovedType ==
    ASSUME TypeInv, Removed
    PROVE  sentinel' \in Probation /\ left' \in 0 .. Rare
<1>1. RareEvent \/ UNCHANGED left
  BY DEF Removed
<1> QED
  BY <1>1, RareType, ConstantFacts DEF Removed, TypeInv, TypeOK

LEMMA UserType ==
    ASSUME TypeInv, NEW b \in Boot, Launch(b) \/ ForceQuit(b) \/ AppExit(b)
    PROVE  TypeInv'
<1>1. CASE Launch(b)
  <2>1. Started(installed) \in Process /\ Started(installed).update = "none"
    BY <1>1, StartedType DEF Launch, TypeInv, TypeOK, VersionOrNone
  <2>2. boot' = [boot EXCEPT ![b] = Started(installed)]
    BY <1>1 DEF Launch, Launched
  <2>3. (boot \in [Boot -> Process])' /\ OfferInv'
    BY <2>1, <2>2, BootUpdate
  <2> QED
    BY <1>1, <2>3 DEF Launch, Files, Hist, TypeInv, TypeOK
<1>2. CASE ForceQuit(b)
  <2>1. (boot \in [Boot -> Process])' /\ OfferInv'
    BY <1>2, BootUpdate, EndedType DEF ForceQuit
  <2>2. left' \in 0 .. Rare
    BY <1>2, RareType DEF ForceQuit
  <2> QED
    BY <1>2, <2>1, <2>2 DEF ForceQuit, Files, Hist, TypeInv, TypeOK
<1>3. CASE AppExit(b)
  <2>1. (boot \in [Boot -> Process])' /\ OfferInv'
    BY <1>3, BootUpdate, EndedType DEF AppExit
  <2> QED
    BY <1>3, <2>1 DEF AppExit, Files, Hist, TypeInv, TypeOK
<1> QED
  BY <1>1, <1>2, <1>3

(* A launch that is watched leaves its setup and the lock.                    *)
LEMMA WatchedType ==
    ASSUME TypeInv, NEW b \in Boot, NEW t \in {"off", "armed"}, boot' = Watched(b, t)
    PROVE  (boot \in [Boot -> Process])' /\ OfferInv'
<1> DEFINE p == [Unlocks(boot[b]) EXCEPT !.st = "up", !.timer = t]
<1>1. boot[b] \in Process /\ sentinel \in Probation
  BY DEF TypeInv, TypeOK
<1>2. Unlocks(boot[b]) \in Process /\ Unlocks(boot[b]).update = boot[b].update
      /\ Unlocks(boot[b]).ver = boot[b].ver
  BY <1>1, LockType
<1>3. p \in Process /\ p.update = boot[b].update /\ p.ver = boot[b].ver
  BY <1>2 DEF Process
<1>4. boot' = [boot EXCEPT ![b] = p]
  BY DEF Watched, TypeInv, TypeOK
<1>5. boot[b].update # "none" => boot[b].ver < Releases
  BY DEF TypeInv, OfferInv
<1> HIDE DEF p
<1> QED
  BY <1>3, <1>4, <1>5, BootUpdate

LEMMA SetupType ==
    ASSUME TypeInv, NEW b \in Boot,
           StartMonitor(b) \/ RecordAttempt(b) \/ ReadForStage(b) \/ WriteStage(b)
    PROVE  TypeInv'
<1>1. boot[b] \in Process /\ sentinel \in Probation /\ boot[b].held \in Probation
      /\ (boot[b].update # "none" => boot[b].ver < Releases)
  BY DEF TypeInv, TypeOK, Process, OfferInv
<1>2. ASSUME NEW sec \in {"attempt", "stage", "timeout"}, boot' = [boot EXCEPT ![b] = Locks(boot[b], sec)]
      PROVE  (boot \in [Boot -> Process])' /\ OfferInv'
  BY <1>1, <1>2, LockType, BootUpdate
<1>3. CASE StartMonitor(b)
  <2>1. boot' = [boot EXCEPT ![b] = Locks(boot[b], "attempt")] \/ boot' = Watched(b, "off")
    BY <1>3 DEF StartMonitor, TypeInv, TypeOK
  <2>2. (boot \in [Boot -> Process])' /\ OfferInv'
    BY <1>2, <2>1, WatchedType
  <2> QED
    BY <1>3, <2>2 DEF StartMonitor, Hist, TypeInv, TypeOK, Reports
<1>4. CASE RecordAttempt(b)
  <2>1. (boot \in [Boot -> Process])' /\ OfferInv'
    BY <1>4, WatchedType DEF RecordAttempt
  <2>2. CASE Exhausted(boot[b].held) /\ Removed /\ UNCHANGED <<arms, lost, stale>>
    <3>1. sentinel' \in Probation /\ left' \in 0 .. Rare
      BY <2>2, RemovedType
    <3> QED
      BY <1>4, <2>1, <2>2, <3>1 DEF RecordAttempt, TypeInv, TypeOK
  <2>3. CASE /\ ~Exhausted(boot[b].held) /\ WriteBack({boot[b].held}, Attempted(boot[b].held))
             /\ arms' = [arms EXCEPT ![b] = boot[b].held.created]
             /\ lost' \in {lost, lost + 1}
    <3>1. Attempted(boot[b].held) \in Probation
      BY <1>1, <2>3, ConstantFacts DEF Exhausted, Attempted, Probation
    <3>2. sentinel' \in Probation /\ stale' \in Nat /\ left' \in 0 .. Rare
      BY <2>3, <3>1, WriteBackType
    <3>3. arms' \in [Boot -> Nat] /\ lost' \in Nat
      BY <1>1, <2>3 DEF TypeInv, TypeOK, Probation
    <3> QED
      BY <1>4, <2>1, <3>2, <3>3 DEF RecordAttempt, TypeInv, TypeOK
  <2> QED
    BY <1>4, <2>2, <2>3 DEF RecordAttempt
<1>5. CASE ReadForStage(b)
  <2>1. boot' = [boot EXCEPT ![b] = Locks(boot[b], "stage")]
    BY <1>5 DEF ReadForStage, TypeInv, TypeOK
  <2>2. (boot \in [Boot -> Process])' /\ OfferInv'
    BY <1>2, <2>1
  <2>3. left' \in 0 .. Rare
    BY <1>5, RareType DEF ReadForStage
  <2> QED
    BY <1>5, <2>2, <2>3 DEF ReadForStage, Files, Hist, TypeInv, TypeOK
<1>6. CASE WriteStage(b)
  <2>1. boot' = [boot EXCEPT ![b] = Unlocks(boot[b])]
    BY <1>6 DEF WriteStage, TypeInv, TypeOK
  <2>2. (boot \in [Boot -> Process])' /\ OfferInv'
    BY <1>1, <2>1, LockType, BootUpdate
  <2>3. sentinel' \in Probation /\ stale' \in Nat /\ left' \in 0 .. Rare
    BY <1>1, <1>6, WriteBackType DEF WriteStage
  <2> QED
    BY <1>6, <2>2, <2>3 DEF WriteStage, TypeInv, TypeOK
<1> QED
  BY <1>3, <1>4, <1>5, <1>6

LEMMA UpdaterType ==
    ASSUME TypeInv, NEW b \in Boot, Updater(b)
    PROVE  TypeInv'
<1>1. boot[b] \in Process /\ boot[b].ver \in Version
      /\ (boot[b].update # "none" => boot[b].ver < Releases)
  BY DEF TypeInv, TypeOK, Process, OfferInv
<1>2. CASE CheckForUpdates(b)
  <2>1. boot' = [boot EXCEPT ![b] = [boot[b] EXCEPT !.update = Offer(b)]]
    BY <1>2 DEF CheckForUpdates, TypeInv, TypeOK
  <2>2. (boot \in [Boot -> Process])' /\ OfferInv'
    BY <1>1, <2>1, BootUpdate DEF Offer, Process
  <2> QED
    BY <1>2, <2>2 DEF CheckForUpdates, Files, Hist, TypeInv, TypeOK
<1>3. CASE Backup(b)
  <2>1. PICK k \in BOOLEAN :
           boot' = [boot EXCEPT ![b] = [boot[b] EXCEPT !.update = "backedUp", !.kept = k]]
    BY <1>3 DEF Backup, TypeInv, TypeOK
  <2>2. boot[b].update = "found"
    BY <1>3 DEF Backup
  <2>3. (boot \in [Boot -> Process])' /\ OfferInv'
    BY <1>1, <2>1, <2>2, BootUpdate DEF Process
  <2>4. left' \in 0 .. Rare
    BY <1>3, RareType DEF Backup
  <2>5. backups' \in [Version -> VersionOrNone]
    BY <1>3, <1>1 DEF Backup, TypeInv, TypeOK, VersionOrNone
  <2> QED
    BY <1>3, <2>3, <2>4, <2>5 DEF Backup, Hist, TypeInv, TypeOK
<1>4. CASE Prepare(b)
  <2>1. PICK u \in {"prepared", "none"} : boot' = [boot EXCEPT ![b] = [boot[b] EXCEPT !.update = u]]
    BY <1>4 DEF Prepare, TypeInv, TypeOK
  <2>2. boot[b].update = "backedUp"
    BY <1>4 DEF Prepare
  <2>3. (boot \in [Boot -> Process])' /\ OfferInv'
    BY <1>1, <2>1, <2>2, BootUpdate DEF Process
  <2>4. left' \in 0 .. Rare
    BY <1>4, RareType DEF Prepare
  <2>5. sentinel' \in Probation /\ created' \in Nat
    BY <1>1, <1>4, ConstantFacts DEF Prepare, TypeInv, TypeOK, Probation, Process
  <2> QED
    BY <1>4, <2>3, <2>4, <2>5 DEF Prepare, TypeInv, TypeOK
<1>5. CASE Install(b)
  <2>1. PICK u \in {"installed", "none"} : boot' = [boot EXCEPT ![b] = [boot[b] EXCEPT !.update = u]]
    BY <1>5 DEF Install, TypeInv, TypeOK
  <2>2. boot[b].update = "prepared"
    BY <1>5 DEF Install
  <2>3. (boot \in [Boot -> Process])' /\ OfferInv'
    BY <1>1, <2>1, <2>2, BootUpdate DEF Process
  <2>4. left' \in 0 .. Rare
    BY <1>5, RareType DEF Install
  <2>5. boot[b].ver + 1 \in Version
    BY <1>1, <2>2, BootAssumption DEF Version
  <2>6. installed' \in VersionOrNone
    BY <1>5, <2>5 DEF Install, TypeInv, TypeOK, VersionOrNone
  <2> QED
    BY <1>5, <2>3, <2>4, <2>6 DEF Install, Hist, TypeInv, TypeOK
<1>6. CASE Restart(b)
  <2>1. Ended("gone") \in Process /\ Ended("gone").update = "none"
    BY EndedType
  <2>2. (boot \in [Boot -> Process])' /\ OfferInv'
    <3>1. CASE boot' = [boot EXCEPT ![b] = Ended("gone")]
      BY <2>1, <3>1, BootUpdate
    <3>2. ASSUME NEW c \in Boot, installed # None,
                 boot' = [boot EXCEPT ![b] = Ended("gone"), ![c] = Launched]
          PROVE  (boot \in [Boot -> Process])' /\ OfferInv'
      <4>1. Launched \in Process /\ Launched.update = "none"
        BY <3>2, StartedType DEF Launched, TypeInv, TypeOK, VersionOrNone
      <4>2. \A x \in Boot : boot'[x] \in {boot[x], Ended("gone"), Launched}
        BY <3>2 DEF TypeInv, TypeOK
      <4> QED
        BY <2>1, <3>2, <4>1, <4>2 DEF TypeInv, TypeOK, OfferInv
    <3> QED
      BY <1>6, <3>1, <3>2 DEF Restart, Free
  <2> QED
    BY <1>6, <2>2 DEF Restart, Files, Hist, TypeInv, TypeOK
<1> QED
  BY <1>2, <1>3, <1>4, <1>5, <1>6 DEF Updater

LEMMA AckType ==
    ASSUME TypeInv, NEW b \in Boot,
           Acknowledge(b) \/ AckRemove(b) \/ TimerFires(b) \/ TimeoutRead(b)
    PROVE  TypeInv'
<1>1. boot[b] \in Process /\ sentinel \in Probation
      /\ (boot[b].update # "none" => boot[b].ver < Releases)
  BY DEF TypeInv, TypeOK, OfferInv
<1>2. CASE Acknowledge(b)
  <2>1. boot' = [boot EXCEPT ![b] = [boot[b] EXCEPT !.ack = "flagged"]]
    BY <1>2 DEF Acknowledge, TypeInv, TypeOK
  <2>2. (boot \in [Boot -> Process])' /\ OfferInv'
    BY <1>1, <2>1, BootUpdate DEF Process
  <2> QED
    BY <1>2, <2>2 DEF Acknowledge, Files, Hist, TypeInv, TypeOK
<1>3. CASE AckRemove(b)
  <2>1. PICK a \in {"done", "leaked"} : boot' = [boot EXCEPT ![b] = [boot[b] EXCEPT !.ack = a]]
    BY <1>3 DEF AckRemove, TypeInv, TypeOK
  <2>2. (boot \in [Boot -> Process])' /\ OfferInv'
    BY <1>1, <2>1, BootUpdate DEF Process
  <2>3. sentinel' \in Probation /\ left' \in 0 .. Rare
    BY <1>3, RemovedType DEF AckRemove
  <2> QED
    BY <1>3, <2>2, <2>3 DEF AckRemove, Hist, TypeInv, TypeOK
<1>4. CASE TimerFires(b)
  <2>1. PICK t \in {"fired", "off"} : boot' = [boot EXCEPT ![b] = [boot[b] EXCEPT !.timer = t]]
    BY <1>4 DEF TimerFires, TypeInv, TypeOK
  <2>2. (boot \in [Boot -> Process])' /\ OfferInv'
    BY <1>1, <2>1, BootUpdate DEF Process
  <2> QED
    BY <1>4, <2>2 DEF TimerFires, Files, Hist, TypeInv, TypeOK
<1>5. CASE TimeoutRead(b)
  <2>1. \/ boot' = [boot EXCEPT ![b] = [boot[b] EXCEPT !.timer = "off"]]
        \/ boot' = [boot EXCEPT ![b] = Locks(boot[b], "timeout")]
    BY <1>5 DEF TimeoutRead, TypeInv, TypeOK
  <2>2. [boot[b] EXCEPT !.timer = "off"] \in Process
    BY <1>1 DEF Process
  <2>3. Locks(boot[b], "timeout") \in Process
        /\ Locks(boot[b], "timeout").update = boot[b].update
        /\ Locks(boot[b], "timeout").ver = boot[b].ver
    BY <1>1, LockType
  <2>4. (boot \in [Boot -> Process])' /\ OfferInv'
    BY <1>1, <2>1, <2>2, <2>3, BootUpdate DEF Process
  <2> QED
    BY <1>5, <2>4 DEF TimeoutRead, Files, Hist, TypeInv, TypeOK
<1> QED
  BY <1>2, <1>3, <1>4, <1>5

LEMMA TimeoutType ==
    ASSUME TypeInv, NEW b \in Boot, TimeoutFail(b) \/ TimeoutMark(b) \/ SpawnHelper(b)
    PROVE  TypeInv'
<1>1. boot[b] \in Process /\ sentinel \in Probation /\ boot[b].held \in Probation
      /\ helper[b].rec \in Probation
      /\ (boot[b].update # "none" => boot[b].ver < Releases)
  BY DEF TypeInv, TypeOK, Process, OfferInv
<1>2. Unlocks(boot[b]) \in Process /\ Unlocks(boot[b]).update = boot[b].update
      /\ Unlocks(boot[b]).ver = boot[b].ver
  BY <1>1, LockType
<1>3. CASE TimeoutFail(b)
  <2>1. boot' = [boot EXCEPT ![b] = [Unlocks(boot[b]) EXCEPT !.timer = "off", !.st = "exiting"]]
    BY <1>3 DEF TimeoutFail, TypeInv, TypeOK
  <2>2. (boot \in [Boot -> Process])' /\ OfferInv'
    BY <1>1, <1>2, <2>1, BootUpdate DEF Process
  <2>3. sentinel' \in Probation /\ stale' \in Nat /\ left' \in 0 .. Rare
    BY <1>1, <1>3, StatusType, WriteBackType DEF TimeoutFail
  <2> QED
    BY <1>3, <2>2, <2>3 DEF TimeoutFail, TypeInv, TypeOK, Reports
<1>4. CASE TimeoutMark(b)
  <2>1. boot' = [boot EXCEPT ![b] = [Unlocks(boot[b]) EXCEPT !.timer = "marked"]]
    BY <1>4 DEF TimeoutMark, TypeInv, TypeOK
  <2>2. (boot \in [Boot -> Process])' /\ OfferInv'
    BY <1>1, <1>2, <2>1, BootUpdate DEF Process
  <2>3. sentinel' \in Probation /\ stale' \in Nat /\ left' \in 0 .. Rare
    BY <1>1, <1>4, StatusType, WriteBackType DEF TimeoutMark
  <2>4. helper' \in [Boot -> [pc: HelperSteps, rec: Probation]]
    BY <1>1, <1>4 DEF TimeoutMark, TypeInv, TypeOK
  <2> QED
    BY <1>4, <2>2, <2>3, <2>4 DEF TimeoutMark, TypeInv, TypeOK
<1>5. CASE SpawnHelper(b)
  <2>1. boot' = [boot EXCEPT ![b] = [boot[b] EXCEPT !.timer = "off", !.st = "exiting"]]
    BY <1>5 DEF SpawnHelper, TypeInv, TypeOK
  <2>2. (boot \in [Boot -> Process])' /\ OfferInv'
    BY <1>1, <2>1, BootUpdate DEF Process
  <2>3. left' \in 0 .. Rare
    BY <1>5, RareType DEF SpawnHelper
  <2>4. sentinel' \in Probation /\ stale' \in Nat /\ report' \in Reports
    BY <1>1, <1>5, StatusType DEF SpawnHelper, TypeInv, TypeOK, Reports
  <2>5. helper' \in [Boot -> [pc: HelperSteps, rec: Probation]]
    BY <1>1, <1>5, ConstantFacts DEF SpawnHelper, TypeInv, TypeOK, HelperSteps
  <2> QED
    BY <1>5, <2>2, <2>3, <2>4, <2>5 DEF SpawnHelper, TypeInv, TypeOK
<1> QED
  BY <1>3, <1>4, <1>5

LEMMA HelperUpdate ==
    ASSUME TypeInv, NEW b \in Boot, NEW pc \in HelperSteps,
           Help(b, pc) \/ HelperEnds(b, pc)
    PROVE  helper' \in [Boot -> [pc: HelperSteps, rec: Probation]]
BY ConstantFacts DEF TypeInv, TypeOK, Help, HelperEnds

LEMMA HelperType ==
    ASSUME TypeInv, NEW b \in Boot, Helper(b) \/ HelperDies(b)
    PROVE  TypeInv'
<1>1. helper[b].rec \in Probation /\ sentinel \in Probation /\ helper[b].rec.prev \in Version
  BY DEF TypeInv, TypeOK, Probation
<1>2. ASSUME NEW pc \in HelperSteps, Help(b, pc) \/ HelperEnds(b, pc)
      PROVE  helper' \in [Boot -> [pc: HelperSteps, rec: Probation]]
  BY <1>2, HelperUpdate
<1>3. CASE HelperRead(b)
  <2>1. helper' \in [Boot -> [pc: HelperSteps, rec: Probation]]
    BY <1>1, <1>3, ConstantFacts DEF HelperRead, HelperSteps, TypeInv, TypeOK
  <2> QED
    BY <1>3, <2>1 DEF HelperRead, Files, Hist, TypeInv, TypeOK, OfferInv
<1>4. CASE HelperWait(b)
  <2>1. left' \in 0 .. Rare
    BY <1>4, RareType DEF HelperWait
  <2> QED
    BY <1>2, <1>4, <2>1 DEF HelperWait, Files, Hist, HelperSteps, TypeInv, TypeOK, OfferInv
<1>5. CASE HelperRemove(b)
  <2>1. left' \in 0 .. Rare
    BY <1>5, RareType DEF HelperRemove
  <2>2. installed' \in VersionOrNone
    BY <1>5 DEF HelperRemove, TypeInv, TypeOK, VersionOrNone
  <2>3. Help(b, "copy") \/ Help(b, "fail")
    BY <1>5 DEF HelperRemove
  <2> QED
    BY <1>2, <1>5, <2>1, <2>2, <2>3 DEF HelperRemove, Hist, HelperSteps, TypeInv, TypeOK, OfferInv
<1>6. CASE HelperCopy(b)
  <2>1. left' \in 0 .. Rare
    BY <1>6, RareType DEF HelperCopy
  <2>2. installed' \in VersionOrNone
    BY <1>1, <1>6 DEF HelperCopy, TypeInv, TypeOK, VersionOrNone
  <2>3. Help(b, "relaunch") \/ Help(b, "fail")
    BY <1>6 DEF HelperCopy
  <2> QED
    BY <1>2, <1>6, <2>1, <2>2, <2>3 DEF HelperCopy, Hist, HelperSteps, TypeInv, TypeOK, OfferInv
<1>7. CASE Relaunch(b)
  <2>1. left' \in 0 .. Rare
    BY <1>7, RareType DEF Relaunch
  <2>2. (boot \in [Boot -> Process])' /\ OfferInv'
    <3>1. CASE UNCHANGED boot
      BY <3>1 DEF TypeInv, TypeOK, OfferInv
    <3>2. ASSUME NEW c \in Boot, installed # None, boot' = [boot EXCEPT ![c] = Launched]
          PROVE  (boot \in [Boot -> Process])' /\ OfferInv'
      <4>1. Launched \in Process /\ Launched.update = "none"
        BY <3>2, StartedType DEF Launched, TypeInv, TypeOK, VersionOrNone
      <4> QED
        BY <3>2, <4>1, BootUpdate
    <3> QED
      BY <1>7, <3>1, <3>2 DEF Relaunch, Free
  <2>3. Help(b, "clear") \/ Help(b, "fail")
    BY <1>7 DEF Relaunch
  <2> QED
    BY <1>2, <1>7, <2>1, <2>2, <2>3 DEF Relaunch, Files, Hist, HelperSteps, TypeInv, TypeOK
<1>8. CASE HelperClear(b)
  <2>1. sentinel' \in Probation /\ left' \in 0 .. Rare
    BY <1>8, RemovedType DEF HelperClear
  <2> QED
    BY <1>2, <1>8, <2>1 DEF HelperClear, Hist, HelperSteps, TypeInv, TypeOK, OfferInv
<1>9. CASE HelperFail(b)
  <2>1. sentinel' \in Probation /\ stale' \in Nat /\ left' \in 0 .. Rare
    BY <1>1, <1>9, StatusType, WriteBackType DEF HelperFail
  <2> QED
    BY <1>2, <1>9, <2>1 DEF HelperFail, HelperSteps, TypeInv, TypeOK, OfferInv
<1>10. CASE HelperReport(b)
  BY <1>2, <1>10 DEF HelperReport, Hist, HelperSteps, Reports, TypeInv, TypeOK, OfferInv
<1>11. CASE HelperDies(b)
  <2>1. left' \in 0 .. Rare
    BY <1>11, RareType DEF HelperDies
  <2> QED
    BY <1>2, <1>11, <2>1 DEF HelperDies, Files, Hist, HelperSteps, TypeInv, TypeOK, OfferInv
<1> QED
  BY <1>3, <1>4, <1>5, <1>6, <1>7, <1>8, <1>9, <1>10, <1>11 DEF Helper

LEMMA StepType == TypeInv /\ [Next]_vars => TypeInv'
<1> SUFFICES ASSUME TypeInv, [Next]_vars PROVE TypeInv'
  OBVIOUS
<1>1. CASE UNCHANGED vars
  BY <1>1 DEF vars, TypeInv, TypeOK, OfferInv
<1>2. CASE Next
  BY <1>2, UserType, SetupType, UpdaterType, AckType, TimeoutType, HelperType
     DEF Next, Monitor
<1> QED
  BY <1>1, <1>2

(* Every variable keeps its type: what start_monitor, boot_ok, the updater,  *)
(* the timeout handler and the helper write stays a state they can read.      *)
THEOREM Typed == Spec => []TypeOK
<1>1. Spec => []TypeInv
  BY InitType, StepType, PTL DEF Spec
<1>2. TypeInv => TypeOK
  BY DEF TypeInv
<1> QED
  BY <1>1, <1>2, PTL

-----------------------------------------------------------------------------
(* What a step may do to the sentinel, and to one launch.                    *)

(* Records name sentinels that have been prepared.                           *)
CountInv ==
    /\ sentinel.created <= created
    /\ (sentinel.status = "Pending") => sentinel.created # 0
    /\ \A b \in Boot : /\ arms[b] <= created
                       /\ boot[b].held.created <= created
                       /\ helper[b].rec.created <= created

(* start_monitor's section is open during setup only, before boot_ok; it and *)
(* that of a boot stage hold a pending record; an armed launch knows on what. *)
Local(p, a) ==
    /\ (p.st = "setup") => (p.ack = "no")
    /\ (p.sec = "attempt") => (p.st = "setup")
    /\ (p.sec \in {"attempt", "stage"}) => (p.held.status = "Pending" /\ p.held.created # 0)
    /\ (p.sec = "none") => (p.held = NoFile)
    /\ (p.timer # "off" \/ p.sec = "timeout") => (a # 0)
LocalInv == \A b \in Boot : Local(boot[b], arms[b])

(* A record the frontend has acknowledged is neither on disk nor in a section. *)
AckInv ==
    stale = 0 =>
        \A b \in Boot : (boot[b].ack = "done" /\ arms[b] # 0) =>
            (sentinel.created # arms[b] /\ boot[b].held.created # arms[b])

(* A launch that arms uses up the record it armed on.                        *)
Fresh(g) == sentinel.status = "Pending" /\ sentinel.created = g /\ sentinel.attempts = 0
BudgetInv ==
    \A g \in Nat \ {0} :
        Cardinality(ArmedOn(g)) <= lost + stale + (IF Fresh(g) THEN 0 ELSE 1)

IInv == TypeInv /\ CountInv /\ LocalInv

(* The file: unless the step counts as stale, it leaves the sentinel, removes *)
(* it, prepares a new one, or writes back one of the same update that no       *)
(* launch can arm on.                                                          *)
FileStep ==
    /\ created' \in {created, created + 1} /\ stale' \in {stale, stale + 1}
    /\ sentinel'.created <= created'
    /\ (sentinel'.status = "Pending") => sentinel'.created # 0
    /\ (stale' = stale) =>
           \/ sentinel' \in {sentinel, NoFile}
           \/ sentinel'.created = created + 1
           \/ /\ sentinel'.created = sentinel.created
              /\ ~(sentinel'.status = "Pending" /\ sentinel'.attempts = 0)

(* A launch: what it holds was on disk, and `done' is reached by removing it. *)
LaunchStep(c) ==
    /\ boot'[c].held \in {boot[c].held, sentinel, NoFile}
    /\ helper'[c].rec \in {helper[c].rec, boot[c].held, sentinel, NoFile}
    /\ arms'[c] \in {arms[c], boot[c].held.created}
    /\ (boot'[c].ack = "done") =>
           /\ arms'[c] = arms[c]
           /\ \/ boot[c].ack = "done"
              \/ sentinel' = NoFile /\ boot'[c].held = NoFile
    /\ Local(boot'[c], arms'[c])

LEMMA Untouched ==
    ASSUME IInv, NEW c \in Boot, boot'[c] = boot[c], arms'[c] = arms[c],
           helper'[c].rec \in {helper[c].rec, boot[c].held, sentinel, NoFile}
    PROVE  LaunchStep(c)
BY DEF LaunchStep, IInv, LocalInv

(* One launch at a time.                                                     *)
LEMMA OneLaunch ==
    ASSUME IInv, NEW b \in Boot, NEW p,
           boot' = [boot EXCEPT ![b] = p],
           UNCHANGED <<helper, arms>>,
           p.held \in {boot[b].held, sentinel, NoFile},
           (p.ack = "done") => (boot[b].ack = "done" \/ (sentinel' = NoFile /\ p.held = NoFile)),
           Local(p, arms[b])
    PROVE  \A c \in Boot : LaunchStep(c)
<1> TAKE c \in Boot
<1>1. CASE c = b
  BY <1>1 DEF LaunchStep, IInv, TypeInv, TypeOK
<1>2. CASE c # b
  BY <1>2, Untouched DEF IInv, TypeInv, TypeOK
<1> QED
  BY <1>1, <1>2

LEMMA NewLaunch ==
    /\ \A s \in {"gone", "crashed"} : \A a \in Nat :
         Local(Ended(s), a) /\ Ended(s).held = NoFile /\ Ended(s).ack = "no"
    /\ \A v \in Version : \A a \in Nat :
         Local(Started(v), a) /\ Started(v).held = NoFile /\ Started(v).ack = "no"
BY DEF Ended, Started, NoProcess, Local

LEMMA HelperOnly ==
    ASSUME IInv, NEW b \in Boot, NEW r \in {helper[b].rec, boot[b].held, sentinel, NoFile},
           NEW pc, UNCHANGED <<boot, arms>>,
           helper' = [helper EXCEPT ![b] = [pc |-> pc, rec |-> r]]
    PROVE  \A c \in Boot : LaunchStep(c)
<1> TAKE c \in Boot
<1>1. helper'[c].rec \in {helper[c].rec, boot[c].held, sentinel, NoFile}
  BY DEF IInv, TypeInv, TypeOK
<1> QED
  BY <1>1, Untouched

LEMMA SameFile ==
    ASSUME IInv, UNCHANGED <<sentinel, created, stale>>
    PROVE  FileStep
BY DEF FileStep, IInv, CountInv, TypeInv, TypeOK

LEMMA RemovedFile ==
    ASSUME IInv, Removed, UNCHANGED <<created, stale>>
    PROVE  FileStep
BY ConstantFacts DEF FileStep, Removed, NoFile, IInv, CountInv, TypeInv, TypeOK, Probation

(* A record written back over one of the same update.                        *)
LEMMA WriteBackFile ==
    ASSUME IInv, NEW read, NEW r \in Probation, WriteBack(read, r), UNCHANGED created,
           \A x \in read : x.created = r.created,
           r.created <= created, (r.status = "Pending") => r.created # 0,
           \/ r.status # "Pending" \/ r.attempts # 0 \/ read = {r}
    PROVE  FileStep
<1>1. CASE UNCHANGED <<sentinel, stale>>
  BY <1>1, SameFile
<1>2. CASE sentinel' = r /\ stale' = IF sentinel \in read THEN stale ELSE stale + 1
  BY <1>2 DEF FileStep, IInv, CountInv, TypeInv, TypeOK
<1> QED
  BY <1>1, <1>2 DEF WriteBack

LEMMA UserStep ==
    ASSUME IInv, NEW b \in Boot, Launch(b) \/ ForceQuit(b) \/ AppExit(b) \/ Restart(b)
    PROVE  FileStep /\ \A c \in Boot : LaunchStep(c)
<1>1. FileStep
  BY SameFile DEF Launch, ForceQuit, AppExit, Restart, Files, Hist
<1>2. \A c \in Boot : /\ boot'[c] = boot[c] \/ boot'[c] \in {Ended("gone"), Ended("crashed")}
                                            \/ boot'[c] \in {Started(v) : v \in Version}
                      /\ arms'[c] = arms[c] /\ helper'[c] = helper[c]
  <2>1. CASE Launch(b)
    BY <2>1 DEF Launch, Launched, Hist, IInv, TypeInv, TypeOK, VersionOrNone
  <2>2. CASE ForceQuit(b) \/ AppExit(b)
    BY <2>2 DEF ForceQuit, AppExit, Hist, IInv, TypeInv, TypeOK
  <2>3. CASE Restart(b)
    BY <2>3 DEF Restart, Launched, Hist, IInv, TypeInv, TypeOK, VersionOrNone
  <2> QED
    BY <2>1, <2>2, <2>3
<1>3. ASSUME NEW c \in Boot PROVE LaunchStep(c)
  <2>1. arms[c] \in Nat
    BY DEF IInv, TypeInv, TypeOK
  <2>2. CASE boot'[c] = boot[c]
    BY <1>2, <2>2, Untouched
  <2>3. CASE boot'[c] \in {Ended("gone"), Ended("crashed")}
    BY <1>2, <2>1, <2>3, NewLaunch DEF LaunchStep
  <2>4. CASE boot'[c] \in {Started(v) : v \in Version}
    BY <1>2, <2>1, <2>4, NewLaunch DEF LaunchStep
  <2> QED
    BY <1>2, <2>2, <2>3, <2>4
<1> QED
  BY <1>1, <1>3

LEMMA MonitorStep ==
    ASSUME IInv, NEW b \in Boot, StartMonitor(b) \/ ReadForStage(b) \/ WriteStage(b)
    PROVE  FileStep /\ \A c \in Boot : LaunchStep(c)
<1>1. boot[b] \in Process /\ boot[b].held \in Probation /\ sentinel \in Probation
      /\ Local(boot[b], arms[b]) /\ boot[b].held.created <= created
      /\ boot \in [Boot -> Process]
  BY DEF IInv, TypeInv, TypeOK, Process, LocalInv, CountInv
<1>2. CASE StartMonitor(b)
  <2>1. FileStep
    BY <1>2, SameFile DEF StartMonitor, Hist
  <2>2. CASE sentinel.status = "Pending"
    <3>1. boot' = [boot EXCEPT ![b] = Locks(boot[b], "attempt")]
      BY <1>2, <2>2 DEF StartMonitor, IInv, TypeInv, TypeOK
    <3>2. Local(Locks(boot[b], "attempt"), arms[b])
      BY <1>1, <1>2, <2>2 DEF Local, Locks, StartMonitor, IInv, CountInv, Process
    <3>3. Locks(boot[b], "attempt").held = sentinel /\ Locks(boot[b], "attempt").ack = boot[b].ack
      BY <1>1 DEF Locks, Process
    <3> QED
      BY <1>2, <2>1, <3>1, <3>2, <3>3, OneLaunch DEF StartMonitor, Hist
  <2>3. CASE sentinel.status # "Pending"
    <3> DEFINE p == [Unlocks(boot[b]) EXCEPT !.st = "up", !.timer = "off"]
    <3>1. boot' = [boot EXCEPT ![b] = p]
      BY <1>1, <1>2, <2>3 DEF StartMonitor, Watched
    <3>2. Local(p, arms[b]) /\ p.held = NoFile /\ p.ack = boot[b].ack
      BY <1>1, <1>2 DEF Local, Unlocks, StartMonitor, Process
    <3> HIDE DEF p
    <3> QED
      BY <1>2, <2>1, <3>1, <3>2, OneLaunch DEF StartMonitor, Hist
  <2> QED
    BY <2>2, <2>3
<1>3. CASE ReadForStage(b)
  <2>1. FileStep
    BY <1>3, SameFile DEF ReadForStage, Files, Hist
  <2>2. boot' = [boot EXCEPT ![b] = Locks(boot[b], "stage")]
    BY <1>1, <1>3 DEF ReadForStage
  <2>3. Local(Locks(boot[b], "stage"), arms[b])
    BY <1>1, <1>3 DEF Local, Locks, ReadForStage, IInv, CountInv, Process
  <2>4. Locks(boot[b], "stage").held = sentinel /\ Locks(boot[b], "stage").ack = boot[b].ack
    BY <1>1 DEF Locks, Process
  <2> QED
    BY <1>3, <2>1, <2>2, <2>3, <2>4, OneLaunch DEF ReadForStage, Hist
<1>4. CASE WriteStage(b)
  <2>1. FileStep
    BY <1>1, <1>4, WriteBackFile DEF WriteStage, Local
  <2>2. boot' = [boot EXCEPT ![b] = Unlocks(boot[b])]
    BY <1>1, <1>4 DEF WriteStage
  <2>3. Local(Unlocks(boot[b]), arms[b])
    BY <1>1, <1>4 DEF Local, Unlocks, WriteStage, Process
  <2>4. Unlocks(boot[b]).held = NoFile /\ Unlocks(boot[b]).ack = boot[b].ack
    BY <1>1 DEF Unlocks, Process
  <2> QED
    BY <1>4, <2>1, <2>2, <2>3, <2>4, OneLaunch DEF WriteStage
<1> QED
  BY <1>2, <1>3, <1>4

LEMMA AttemptStep ==
    ASSUME IInv, NEW b \in Boot, RecordAttempt(b)
    PROVE  FileStep /\ \A c \in Boot : LaunchStep(c)
<1> DEFINE r == boot[b].held
           up(t) == [Unlocks(boot[b]) EXCEPT !.st = "up", !.timer = t]
<1>1. boot[b] \in Process /\ r \in Probation /\ sentinel \in Probation
      /\ Local(boot[b], arms[b]) /\ r.created <= created
      /\ boot \in [Boot -> Process] /\ arms \in [Boot -> Nat]
  BY DEF IInv, TypeInv, TypeOK, Process, LocalInv, CountInv
<1>2. boot[b].st = "setup" /\ boot[b].ack = "no" /\ r.status = "Pending" /\ r.created # 0
  BY <1>1 DEF Local, RecordAttempt
<1>3. \A t \in {"off", "armed"} : Watched(b, t) = [boot EXCEPT ![b] = up(t)]
  BY <1>1 DEF Watched
<1>4. \A t \in {"off", "armed"} : /\ up(t).held = NoFile /\ up(t).ack = "no"
                                  /\ up(t).st = "up" /\ up(t).sec = "none" /\ up(t).timer = t
  BY <1>1, <1>2 DEF Unlocks, Process
<1>5. CASE Exhausted(r)
  <2>1. boot' = [boot EXCEPT ![b] = up("off")] /\ Removed
        /\ UNCHANGED <<arms, lost, stale, helper, created>>
    BY <1>3, <1>5 DEF RecordAttempt
  <2>2. FileStep
    BY <2>1, RemovedFile
  <2>3. Local(up("off"), arms[b])
    BY <1>4 DEF Local
  <2> HIDE DEF up
  <2> QED
    BY <1>4, <2>1, <2>2, <2>3, OneLaunch
<1>6. CASE ~Exhausted(r)
  <2>1. boot' = [boot EXCEPT ![b] = up("armed")] /\ WriteBack({r}, Attempted(r))
        /\ arms' = [arms EXCEPT ![b] = r.created] /\ UNCHANGED <<helper, created>>
    BY <1>3, <1>6 DEF RecordAttempt
  <2>2. Attempted(r) \in Probation /\ Attempted(r).created = r.created
        /\ Attempted(r).attempts # 0
    BY <1>1, <1>6, ConstantFacts DEF Exhausted, Attempted, Probation
  <2>3. FileStep
    BY <1>1, <1>2, <2>1, <2>2, WriteBackFile
  <2>4. Local(up("armed"), r.created)
    BY <1>2, <1>4 DEF Local
  <2>5. ASSUME NEW c \in Boot PROVE LaunchStep(c)
    <3>1. CASE c = b
      <4>1. boot'[b] = up("armed") /\ arms'[b] = r.created /\ helper'[b] = helper[b]
        BY <1>1, <2>1
      <4> HIDE DEF up
      <4> QED
        BY <1>4, <2>4, <3>1, <4>1 DEF LaunchStep
    <3>2. CASE c # b
      BY <1>1, <2>1, <3>2, Untouched
    <3> QED
      BY <3>1, <3>2
  <2> QED
    BY <2>3, <2>5
<1> QED
  BY <1>5, <1>6

LEMMA UpdaterStep ==
    ASSUME IInv, NEW b \in Boot,
           CheckForUpdates(b) \/ Backup(b) \/ Prepare(b) \/ Install(b)
    PROVE  FileStep /\ \A c \in Boot : LaunchStep(c)
<1>1. boot[b] \in Process /\ Local(boot[b], arms[b]) /\ boot \in [Boot -> Process]
  BY DEF IInv, TypeInv, TypeOK, LocalInv
<1>2. FileStep
  <2>1. CASE UNCHANGED <<sentinel, created, stale>>
    BY <2>1, SameFile
  <2>2. CASE /\ sentinel' = [status |-> "Pending", prev |-> boot[b].ver,
                             backup |-> boot[b].kept, attempts |-> 0,
                             created |-> created + 1]
             /\ created' = created + 1 /\ UNCHANGED stale
    BY <2>2 DEF FileStep, IInv, TypeInv, TypeOK
  <2> QED
    BY <2>1, <2>2 DEF CheckForUpdates, Backup, Prepare, Install, Files, Hist
<1>3. \E u, k : boot' = [boot EXCEPT ![b] = [boot[b] EXCEPT !.update = u, !.kept = k]]
  <2>1. ASSUME NEW u, boot' = [boot EXCEPT ![b].update = u]
        PROVE  boot' = [boot EXCEPT ![b] = [boot[b] EXCEPT !.update = u, !.kept = boot[b].kept]]
    BY <1>1, <2>1 DEF Process
  <2>2. CASE Backup(b)
    <3>1. \/ boot' = [boot EXCEPT ![b] = [boot[b] EXCEPT !.update = "backedUp", !.kept = TRUE]]
          \/ boot' = [boot EXCEPT ![b] = [boot[b] EXCEPT !.update = "backedUp", !.kept = FALSE]]
      BY <1>1, <2>2 DEF Backup
    <3> QED
      BY <3>1
  <2>3. CASE CheckForUpdates(b)
    BY <2>1, <2>3 DEF CheckForUpdates
  <2>4. CASE Prepare(b)
    BY <2>1, <2>4 DEF Prepare
  <2>5. CASE Install(b)
    BY <2>1, <2>5 DEF Install
  <2> QED
    BY <2>2, <2>3, <2>4, <2>5
<1>4. PICK u, k : boot' = [boot EXCEPT ![b] = [boot[b] EXCEPT !.update = u, !.kept = k]]
  BY <1>3
<1> DEFINE p == [boot[b] EXCEPT !.update = u, !.kept = k]
<1>5. Local(p, arms[b]) /\ p.held = boot[b].held /\ p.ack = boot[b].ack
  BY <1>1 DEF Local, Process
<1>6. UNCHANGED <<helper, arms>>
  BY DEF CheckForUpdates, Backup, Prepare, Install, Hist
<1>7. boot' = [boot EXCEPT ![b] = p]
  BY <1>4
<1> HIDE DEF p
<1> QED
  BY <1>2, <1>5, <1>6, <1>7, OneLaunch

LEMMA AckStep ==
    ASSUME IInv, NEW b \in Boot, Acknowledge(b) \/ AckRemove(b)
    PROVE  FileStep /\ \A c \in Boot : LaunchStep(c)
<1>1. boot[b] \in Process /\ Local(boot[b], arms[b]) /\ boot \in [Boot -> Process]
  BY DEF IInv, TypeInv, TypeOK, LocalInv
<1>2. boot[b].st # "setup"
  BY DEF Acknowledge, AckRemove, Runs
<1> DEFINE p(a) == [boot[b] EXCEPT !.ack = a]
<1>3. \A a : Local(p(a), arms[b]) /\ p(a).held = boot[b].held /\ p(a).ack = a
  BY <1>1, <1>2 DEF Local, Process
<1>4. CASE Acknowledge(b)
  <2>1. boot' = [boot EXCEPT ![b] = p("flagged")] /\ UNCHANGED <<helper, arms>>
    BY <1>1, <1>4 DEF Acknowledge, Hist
  <2>2. FileStep
    BY <1>4, SameFile DEF Acknowledge, Files, Hist
  <2> HIDE DEF p
  <2> QED
    BY <1>3, <2>1, <2>2, OneLaunch
<1>5. CASE AckRemove(b)
  <2>1. FileStep /\ UNCHANGED <<helper, arms>>
    BY <1>5, RemovedFile DEF AckRemove, Hist
  <2>2. boot[b].held = NoFile
    BY <1>1, <1>5 DEF AckRemove, AckLock, Unlocked, Local
  <2>3. boot' = [boot EXCEPT ![b] = p(IF sentinel' = NoFile THEN "done" ELSE "leaked")]
    BY <1>1, <1>5 DEF AckRemove
  <2> HIDE DEF p
  <2> QED
    BY <1>3, <2>1, <2>2, <2>3, OneLaunch
<1> QED
  BY <1>4, <1>5

LEMMA TimeoutStep ==
    ASSUME IInv, NEW b \in Boot,
           TimerFires(b) \/ TimeoutRead(b) \/ TimeoutFail(b)
    PROVE  FileStep /\ \A c \in Boot : LaunchStep(c)
<1>1. boot[b] \in Process /\ Local(boot[b], arms[b]) /\ boot \in [Boot -> Process]
      /\ boot[b].held \in Probation /\ sentinel \in Probation /\ boot[b].held.created <= created
  BY DEF IInv, TypeInv, TypeOK, LocalInv, Process, CountInv
<1>2. boot[b].timer # "off" => arms[b] # 0
  BY <1>1 DEF Local
<1>3. CASE TimerFires(b)
  <2> DEFINE p(t) == [boot[b] EXCEPT !.timer = t]
  <2>1. PICK t \in {"fired", "off"} : boot' = [boot EXCEPT ![b] = p(t)]
    BY <1>1, <1>3 DEF TimerFires
  <2>2. FileStep /\ UNCHANGED <<helper, arms>>
    BY <1>3, SameFile DEF TimerFires, Files, Hist
  <2>3. Local(p(t), arms[b]) /\ p(t).held = boot[b].held /\ p(t).ack = boot[b].ack
    BY <1>1, <1>2, <1>3 DEF Local, Process, TimerFires
  <2> HIDE DEF p
  <2> QED
    BY <2>1, <2>2, <2>3, OneLaunch
<1>4. CASE TimeoutRead(b)
  <2>1. FileStep /\ UNCHANGED <<helper, arms>>
    BY <1>4, SameFile DEF TimeoutRead, Files, Hist
  <2>2. CASE sentinel = NoFile
    <3> DEFINE p == [boot[b] EXCEPT !.timer = "off"]
    <3>1. boot' = [boot EXCEPT ![b] = p]
      BY <1>1, <1>4, <2>2 DEF TimeoutRead
    <3>2. Local(p, arms[b]) /\ p.held = boot[b].held /\ p.ack = boot[b].ack
      BY <1>1 DEF Local, Process
    <3> HIDE DEF p
    <3> QED
      BY <2>1, <3>1, <3>2, OneLaunch
  <2>3. CASE sentinel # NoFile
    <3> DEFINE p == Locks(boot[b], "timeout")
    <3>1. boot' = [boot EXCEPT ![b] = p] /\ arms[b] # 0
      BY <1>1, <1>2, <1>4, <2>3 DEF TimeoutRead
    <3>2. Local(p, arms[b]) /\ p.held = sentinel /\ p.ack = boot[b].ack
      BY <1>1, <3>1 DEF Local, Locks, Process
    <3> HIDE DEF p
    <3> QED
      BY <2>1, <3>1, <3>2, OneLaunch
  <2> QED
    BY <2>2, <2>3
<1>5. CASE TimeoutFail(b)
  <2> DEFINE p == [Unlocks(boot[b]) EXCEPT !.timer = "off", !.st = "exiting"]
             r == Status(boot[b].held, "RollbackFailed")
  <2>1. boot' = [boot EXCEPT ![b] = p] /\ UNCHANGED <<helper, arms, created>>
        /\ WriteBack({boot[b].held}, r)
    BY <1>1, <1>5 DEF TimeoutFail
  <2>2. r \in Probation /\ r.created = boot[b].held.created /\ r.status = "RollbackFailed"
    BY <1>1 DEF Status, Probation
  <2>3. Local(p, arms[b]) /\ p.held = NoFile /\ p.ack = boot[b].ack
    BY <1>1 DEF Local, Unlocks, Process
  <2> HIDE DEF p, r
  <2>4. FileStep
    BY <1>1, <2>1, <2>2, WriteBackFile
  <2> QED
    BY <2>1, <2>3, <2>4, OneLaunch
<1> QED
  BY <1>3, <1>4, <1>5

(* The timeout handler and the helper share a record: two updates at once.   *)
LEMMA OneBoth ==
    ASSUME IInv, NEW b \in Boot, NEW p, NEW h, UNCHANGED arms,
           boot' = [boot EXCEPT ![b] = p], helper' = [helper EXCEPT ![b] = h],
           p.held \in {boot[b].held, sentinel, NoFile},
           h.rec \in {helper[b].rec, boot[b].held, sentinel, NoFile},
           p.ack = boot[b].ack, Local(p, arms[b])
    PROVE  \A c \in Boot : LaunchStep(c)
<1> TAKE c \in Boot
<1>1. CASE c = b
  BY <1>1 DEF LaunchStep, IInv, TypeInv, TypeOK
<1>2. CASE c # b
  BY <1>2, Untouched DEF IInv, TypeInv, TypeOK
<1> QED
  BY <1>1, <1>2

LEMMA MarkStep ==
    ASSUME IInv, NEW b \in Boot, TimeoutMark(b) \/ SpawnHelper(b)
    PROVE  FileStep /\ \A c \in Boot : LaunchStep(c)
<1>1. boot[b] \in Process /\ Local(boot[b], arms[b]) /\ boot \in [Boot -> Process]
      /\ boot[b].held \in Probation /\ sentinel \in Probation /\ boot[b].held.created <= created
      /\ helper[b].rec \in Probation /\ helper[b].rec.created <= created
      /\ helper \in [Boot -> [pc: HelperSteps, rec: Probation]]
  BY DEF IInv, TypeInv, TypeOK, LocalInv, Process, CountInv
<1>2. CASE TimeoutMark(b)
  <2> DEFINE p == [Unlocks(boot[b]) EXCEPT !.timer = "marked"]
             h == [helper[b] EXCEPT !.rec = boot[b].held]
             r == Status(boot[b].held, "RollbackInProgress")
  <2>1. boot' = [boot EXCEPT ![b] = p] /\ UNCHANGED <<arms, created>>
        /\ WriteBack({boot[b].held}, r) /\ helper' = [helper EXCEPT ![b] = h]
    BY <1>1, <1>2 DEF TimeoutMark
  <2>2. r \in Probation /\ r.created = boot[b].held.created /\ r.status = "RollbackInProgress"
    BY <1>1 DEF Status, Probation
  <2>3. p.held = NoFile /\ p.ack = boot[b].ack /\ h.rec = boot[b].held
        /\ p.sec = "none" /\ p.st = boot[b].st /\ p.timer = "marked"
    BY <1>1 DEF Unlocks, Process
  <2>4. arms[b] # 0
    BY <1>1, <1>2 DEF Local, TimeoutMark
  <2> HIDE DEF p, r, h
  <2>5. Local(p, arms[b])
    BY <1>1, <2>3, <2>4 DEF Local
  <2>6. FileStep
    BY <1>1, <2>1, <2>2, WriteBackFile
  <2> QED
    BY <2>1, <2>3, <2>5, <2>6, OneBoth
<1>3. CASE SpawnHelper(b)
  <2> DEFINE p == [boot[b] EXCEPT !.timer = "off", !.st = "exiting"]
             r == Status(helper[b].rec, "RollbackFailed")
  <2>1. boot' = [boot EXCEPT ![b] = p] /\ UNCHANGED <<arms, created>>
    BY <1>1, <1>3 DEF SpawnHelper
  <2>2. r \in Probation /\ r.created = helper[b].rec.created /\ r.status = "RollbackFailed"
    BY <1>1 DEF Status, Probation
  <2>3. p.held = boot[b].held /\ p.ack = boot[b].ack /\ Local(p, arms[b])
    BY <1>1, <1>3 DEF Local, Process, SpawnHelper, Up
  <2>4. \E h : helper' = [helper EXCEPT ![b] = h] /\ h.rec = NoFile
    <3>1. helper' = [helper EXCEPT ![b] = [pc |-> "start", rec |-> NoFile]]
          \/ helper' = [helper EXCEPT ![b] = [helper[b] EXCEPT !.rec = NoFile]]
      BY <1>1, <1>3 DEF SpawnHelper
    <3> QED
      BY <1>1, <3>1
  <2> HIDE DEF p
  <2>5. FileStep
    <3>1. CASE UNCHANGED <<sentinel, stale>>
      BY <2>1, <3>1, SameFile
    <3>2. CASE /\ sentinel' = r
               /\ stale' = IF sentinel \in {helper[b].rec, Status(helper[b].rec, "RollbackInProgress")}
                           THEN stale ELSE stale + 1
      <4>1. Status(helper[b].rec, "RollbackInProgress").created = r.created
        BY <1>1 DEF Status, Probation
      <4> HIDE DEF r
      <4> QED
        BY <1>1, <2>1, <2>2, <3>2, <4>1 DEF FileStep, IInv, CountInv, TypeInv, TypeOK
    <3> QED
      BY <1>3, <3>1, <3>2 DEF SpawnHelper
  <2> QED
    BY <2>1, <2>3, <2>4, <2>5, OneBoth
<1> QED
  BY <1>2, <1>3

LEMMA HelperStep ==
    ASSUME IInv, NEW b \in Boot, (Helper(b) /\ ~Relaunch(b)) \/ HelperDies(b)
    PROVE  FileStep /\ \A c \in Boot : LaunchStep(c)
<1>1. sentinel \in Probation /\ helper[b].rec \in Probation
      /\ helper[b].rec.created <= created
      /\ helper \in [Boot -> [pc: HelperSteps, rec: Probation]]
  BY DEF IInv, TypeInv, TypeOK, CountInv
<1>2. ASSUME NEW pc, Help(b, pc) \/ HelperEnds(b, pc), UNCHANGED <<boot, arms>>
      PROVE  \A c \in Boot : LaunchStep(c)
  <2>1. helper' = [helper EXCEPT ![b] = [pc |-> pc, rec |-> helper[b].rec]]
        \/ helper' = [helper EXCEPT ![b] = [pc |-> pc, rec |-> NoFile]]
    BY <1>1, <1>2 DEF Help, HelperEnds
  <2> QED
    BY <1>2, <2>1, HelperOnly
<1>3. CASE HelperRead(b)
  <2>1. FileStep /\ UNCHANGED <<boot, arms>>
    BY <1>3, SameFile DEF HelperRead, Files, Hist
  <2>2. helper' = [helper EXCEPT ![b] = [pc |-> "done", rec |-> NoFile]]
        \/ helper' = [helper EXCEPT ![b] = [pc |-> "wait", rec |-> sentinel]]
    BY <1>3 DEF HelperRead
  <2> QED
    BY <2>1, <2>2, HelperOnly
<1>4. CASE HelperWait(b) \/ HelperRemove(b) \/ HelperCopy(b) \/ HelperReport(b) \/ HelperDies(b)
  <2>1. FileStep /\ UNCHANGED <<boot, arms>>
    BY <1>4, SameFile
    DEF HelperWait, HelperRemove, HelperCopy, HelperReport, HelperDies, Files, Hist
  <2>2. \E pc : Help(b, pc) \/ HelperEnds(b, pc)
    BY <1>4 DEF HelperWait, HelperRemove, HelperCopy, HelperReport, HelperDies
  <2> QED
    BY <1>2, <2>1, <2>2
<1>5. CASE HelperClear(b)
  BY <1>2, <1>5, RemovedFile DEF HelperClear, Hist
<1>6. CASE HelperFail(b)
  <2> DEFINE r == Status(helper[b].rec, "RollbackFailed")
  <2>1. r \in Probation /\ r.created = helper[b].rec.created /\ r.status = "RollbackFailed"
    BY <1>1 DEF Status, Probation
  <2>2. WriteBack({helper[b].rec}, r) /\ UNCHANGED <<boot, arms, created>>
        /\ Help(b, "tellFailed")
    BY <1>6 DEF HelperFail
  <2> HIDE DEF r
  <2>3. FileStep
    BY <1>1, <2>1, <2>2, WriteBackFile
  <2> QED
    BY <1>2, <2>2, <2>3
<1> QED
  BY <1>3, <1>4, <1>5, <1>6 DEF Helper

LEMMA RelaunchStep ==
    ASSUME IInv, NEW b \in Boot, Relaunch(b)
    PROVE  FileStep /\ \A c \in Boot : LaunchStep(c)
<1>1. FileStep
  BY SameFile DEF Relaunch, Files, Hist
<1>2. \A c \in Boot : /\ boot'[c] = boot[c] \/ boot'[c] \in {Started(v) : v \in Version}
                      /\ arms'[c] = arms[c] /\ helper'[c].rec = helper[c].rec
                      /\ arms[c] \in Nat
  BY DEF Relaunch, Help, Launched, Hist, IInv, TypeInv, TypeOK, VersionOrNone
<1>3. ASSUME NEW c \in Boot PROVE LaunchStep(c)
  <2>1. CASE boot'[c] = boot[c]
    BY <1>2, <2>1, Untouched
  <2>2. CASE boot'[c] \in {Started(v) : v \in Version}
    BY <1>2, <2>2, NewLaunch DEF LaunchStep
  <2> QED
    BY <1>2, <2>1, <2>2
<1> QED
  BY <1>1, <1>3

(* Every step is both.                                                       *)
LEMMA EveryStep ==
    ASSUME IInv, Next
    PROVE  FileStep /\ \A c \in Boot : LaunchStep(c)
BY UserStep, MonitorStep, AttemptStep, UpdaterStep, AckStep, TimeoutStep, MarkStep,
   HelperStep, RelaunchStep
   DEF Next, Updater, Monitor, Helper

-----------------------------------------------------------------------------
(* The invariants.                                                           *)

LEMMA InitInv == Init => IInv /\ AckInv /\ BudgetInv
<1> SUFFICES ASSUME Init PROVE IInv /\ AckInv /\ BudgetInv
  OBVIOUS
<1>1. TypeInv
  BY InitType
<1>2. \A b \in Boot : /\ Local(boot[b], arms[b]) /\ arms[b] = 0
                      /\ boot[b].held = NoFile /\ boot[b].ack = "no"
                      /\ helper[b].rec = NoFile
  <2>1. Local(NoProcess, 0) /\ NoProcess.held = NoFile /\ NoProcess.ack = "no"
    BY DEF Local, NoProcess
  <2>2. Local(Started(0), 0) /\ Started(0).held = NoFile /\ Started(0).ack = "no"
    BY NewLaunch, ConstantFacts
  <2> QED
    BY <2>1, <2>2 DEF Init
<1>3. CountInv /\ LocalInv /\ AckInv
  BY <1>2 DEF Init, CountInv, LocalInv, AckInv, NoFile
<1>4. ASSUME NEW g \in Nat \ {0}
      PROVE  Cardinality(ArmedOn(g)) <= lost + stale + (IF Fresh(g) THEN 0 ELSE 1)
  <2>1. ArmedOn(g) = {}
    BY <1>2 DEF ArmedOn
  <2> QED
    BY <2>1, FS_EmptySet DEF Init, Fresh, NoFile
<1> QED
  BY <1>1, <1>3, <1>4 DEF IInv, BudgetInv

LEMMA StepIInv == IInv /\ [Next]_vars => IInv'
<1> SUFFICES ASSUME IInv, [Next]_vars PROVE IInv'
  OBVIOUS
<1>1. TypeInv'
  BY StepType DEF IInv
<1>2. CASE UNCHANGED vars
  BY <1>1, <1>2 DEF vars, IInv, CountInv, LocalInv
<1>3. CASE Next
  <2>1. FileStep /\ \A c \in Boot : LaunchStep(c)
    BY <1>3, EveryStep
  <2>2. LocalInv'
    BY <2>1 DEF LaunchStep, LocalInv
  <2>3. created \in Nat /\ created' \in Nat /\ created <= created' /\ NoFile.created = 0
    BY <2>1 DEF FileStep, IInv, TypeInv, TypeOK, NoFile
  <2>4. ASSUME NEW b \in Boot
        PROVE  arms'[b] <= created' /\ boot'[b].held.created <= created'
               /\ helper'[b].rec.created <= created'
    <3>1. arms[b] <= created /\ boot[b].held.created <= created
          /\ helper[b].rec.created <= created /\ sentinel.created <= created
      BY DEF IInv, CountInv
    <3>2. arms[b] \in Nat /\ boot[b].held.created \in Nat
          /\ helper[b].rec.created \in Nat /\ sentinel.created \in Nat
      BY DEF IInv, TypeInv, TypeOK, Process, Probation
    <3> QED
      BY <2>1, <2>3, <3>1, <3>2 DEF LaunchStep
  <2>5. CountInv'
    BY <2>1, <2>4 DEF FileStep, CountInv
  <2> QED
    BY <1>1, <2>2, <2>5 DEF IInv
<1> QED
  BY <1>2, <1>3

LEMMA StepAck == IInv /\ AckInv /\ [Next]_vars => AckInv'
<1> SUFFICES ASSUME IInv, AckInv, [Next]_vars, stale' = 0, NEW b \in Boot,
                    boot'[b].ack = "done", arms'[b] # 0
             PROVE  sentinel'.created # arms'[b] /\ boot'[b].held.created # arms'[b]
  BY DEF AckInv
<1>1. CASE UNCHANGED vars
  BY <1>1 DEF vars, AckInv
<1>2. CASE Next
  <2>1. FileStep /\ LaunchStep(b)
    BY <1>2, EveryStep
  <2>2. arms'[b] = arms[b] /\ arms[b] \in Nat /\ arms[b] <= created /\ created \in Nat
    BY <2>1 DEF LaunchStep, IInv, CountInv, TypeInv, TypeOK
  <2>3. CASE sentinel' = NoFile /\ boot'[b].held = NoFile
    BY <2>2, <2>3 DEF NoFile
  <2>4. CASE boot[b].ack = "done"
    <3>1. stale = 0 /\ stale' = stale
      BY <2>1 DEF FileStep, IInv, TypeInv, TypeOK
    <3>2. sentinel.created # arms[b] /\ boot[b].held.created # arms[b]
      BY <2>2, <2>4, <3>1 DEF AckInv
    <3>3. sentinel'.created # arms[b]
      BY <2>1, <2>2, <3>1, <3>2 DEF FileStep, NoFile
    <3>4. boot'[b].held.created # arms[b]
      BY <2>1, <2>2, <3>2 DEF LaunchStep, NoFile
    <3> QED
      BY <2>2, <3>3, <3>4
  <2> QED
    BY <2>1, <2>3, <2>4 DEF LaunchStep
<1> QED
  BY <1>1, <1>2

(* A step that arms nothing.                                                 *)
LEMMA BudgetFrame ==
    ASSUME IInv, BudgetInv, FileStep, UNCHANGED <<arms, lost>>
    PROVE  BudgetInv'
<1> SUFFICES ASSUME NEW g \in Nat \ {0}
             PROVE  Cardinality(ArmedOn(g)') <= lost' + stale' + (IF Fresh(g)' THEN 0 ELSE 1)
  BY DEF BudgetInv
<1>1. ArmedOn(g)' = ArmedOn(g)
  BY DEF ArmedOn
<1>2. IsFiniteSet(ArmedOn(g)) /\ Cardinality(ArmedOn(g)) \in Nat
  <2>1. IsFiniteSet(Boot)
    BY FS_Interval, BootAssumption DEF Boot
  <2> QED
    BY <2>1, FS_Subset, FS_CardinalityType DEF ArmedOn
<1>3. Cardinality(ArmedOn(g)) <= lost + stale + (IF Fresh(g) THEN 0 ELSE 1)
  BY DEF BudgetInv
<1>4. lost \in Nat /\ stale \in Nat /\ created \in Nat
  BY DEF IInv, TypeInv, TypeOK
<1>5. CASE ~Fresh(g)' \/ Fresh(g)
  BY <1>1, <1>2, <1>3, <1>4, <1>5 DEF FileStep
<1>6. CASE stale' = stale + 1
  BY <1>1, <1>2, <1>3, <1>4, <1>6
<1>7. CASE Fresh(g)' /\ ~Fresh(g) /\ stale' = stale
  <2>1. sentinel'.created = created + 1 /\ g = created + 1
    BY <1>7 DEF FileStep, Fresh, NoFile
  <2>2. ArmedOn(g) = {}
    BY <2>1, <1>4 DEF ArmedOn, IInv, CountInv, TypeInv, TypeOK
  <2> QED
    BY <1>1, <1>4, <1>7, <2>2, FS_EmptySet
<1> QED
  BY <1>5, <1>6, <1>7 DEF FileStep

(* Arming uses the record up, or is one of the counted exceptions.           *)
LEMMA BudgetArm ==
    ASSUME IInv, BudgetInv, NEW b \in Boot, RecordAttempt(b), ~Exhausted(boot[b].held)
    PROVE  BudgetInv'
<1> DEFINE r == boot[b].held
<1> SUFFICES ASSUME NEW g \in Nat \ {0}
             PROVE  Cardinality(ArmedOn(g)') <= lost' + stale' + (IF Fresh(g)' THEN 0 ELSE 1)
  BY DEF BudgetInv
<1>1. r \in Probation /\ r.status = "Pending" /\ r.attempts = 0 /\ Attempted(r).attempts = 1
      /\ Attempted(r).created = r.created
  <2>1. boot[b].held \in Probation /\ boot[b].held.status = "Pending"
    BY DEF IInv, TypeInv, TypeOK, Process, LocalInv, Local, RecordAttempt
  <2> QED
    BY <2>1, ConstantFacts DEF Exhausted, Attempted, Probation
<1>2. arms' = [arms EXCEPT ![b] = r.created] /\ arms \in [Boot -> Nat]
  BY DEF RecordAttempt, IInv, TypeInv, TypeOK
<1>3. IsFiniteSet(Boot)
  BY FS_Interval, BootAssumption DEF Boot
<1>4. IsFiniteSet(ArmedOn(g)) /\ Cardinality(ArmedOn(g)) \in Nat
  BY <1>3, FS_Subset, FS_CardinalityType DEF ArmedOn
<1>5. lost \in Nat /\ stale \in Nat /\ left \in Nat
  BY BootAssumption DEF IInv, TypeInv, TypeOK
<1>6. Cardinality(ArmedOn(g)) <= lost + stale + (IF Fresh(g) THEN 0 ELSE 1)
  BY DEF BudgetInv
<1>7. \/ /\ sentinel' = Attempted(r) /\ lost' = lost
         /\ stale' = IF sentinel = r THEN stale ELSE stale + 1
      \/ UNCHANGED <<sentinel, stale>> /\ lost' = lost + 1
  BY <1>5 DEF RecordAttempt, WriteBack, RareEvent
<1>8. CASE r.created # g
  <2>1. ArmedOn(g)' \subseteq ArmedOn(g)
    BY <1>2, <1>8 DEF ArmedOn
  <2>2. Cardinality(ArmedOn(g)') <= Cardinality(ArmedOn(g)) /\ Cardinality(ArmedOn(g)') \in Nat
    BY <1>4, <2>1, FS_Subset, FS_CardinalityType
  <2>3. Fresh(g)' => Fresh(g)
    BY <1>1, <1>7, <1>8 DEF Fresh
  <2> QED
    BY <1>4, <1>5, <1>6, <1>7, <2>2, <2>3
<1>9. CASE r.created = g
  <2>1. ArmedOn(g)' = ArmedOn(g) \cup {b}
    BY <1>2, <1>9 DEF ArmedOn
  <2>2. Cardinality(ArmedOn(g)') <= Cardinality(ArmedOn(g)) + 1 /\ Cardinality(ArmedOn(g)') \in Nat
    <3>1. IsFiniteSet(ArmedOn(g)')
      BY <1>4, <2>1, FS_AddElement
    <3> QED
      BY <1>4, <2>1, <3>1, FS_AddElement, FS_CardinalityType
  <2>3. CASE sentinel' = Attempted(r) /\ lost' = lost /\ sentinel = r /\ stale' = stale
    BY <1>1, <1>4, <1>5, <1>6, <1>9, <2>2, <2>3 DEF Fresh
  <2>4. CASE sentinel' = Attempted(r) /\ lost' = lost /\ stale' = stale + 1
    BY <1>1, <1>4, <1>5, <1>6, <2>2, <2>4 DEF Fresh
  <2>5. CASE UNCHANGED <<sentinel, stale>> /\ lost' = lost + 1
    <3>1. Fresh(g)' <=> Fresh(g)
      BY <2>5 DEF Fresh
    <3> QED
      BY <1>4, <1>5, <1>6, <2>2, <2>5, <3>1
  <2> QED
    BY <1>7, <2>3, <2>4, <2>5
<1> QED
  BY <1>8, <1>9

LEMMA StepBudget == IInv /\ BudgetInv /\ [Next]_vars => BudgetInv'
<1> SUFFICES ASSUME IInv, BudgetInv, [Next]_vars PROVE BudgetInv'
  OBVIOUS
<1>1. CASE UNCHANGED vars
  BY <1>1 DEF vars, BudgetInv, ArmedOn, Fresh
<1>2. CASE Next
  <2>1. FileStep
    BY <1>2, EveryStep
  <2>2. ASSUME NEW b \in Boot, RecordAttempt(b)
        PROVE  BudgetInv'
    <3>1. CASE Exhausted(boot[b].held)
      BY <2>1, <2>2, <3>1, BudgetFrame DEF RecordAttempt
    <3> QED
      BY <2>2, <3>1, BudgetArm
  <2>3. CASE UNCHANGED <<arms, lost>>
    BY <2>1, <2>3, BudgetFrame
  <2>4. (\E b \in Boot : RecordAttempt(b)) \/ UNCHANGED <<arms, lost>>
    <3> SUFFICES ASSUME NEW b \in Boot,
                        \/ Launch(b) \/ ForceQuit(b) \/ StartMonitor(b) \/ ReadForStage(b)
                        \/ WriteStage(b) \/ Updater(b) \/ Acknowledge(b) \/ AckRemove(b)
                        \/ Monitor(b) \/ Helper(b) \/ HelperDies(b)
                 PROVE  arms' = arms /\ lost' = lost
      BY <1>2 DEF Next
    <3>1. CASE Updater(b)
      BY <3>1 DEF Updater, CheckForUpdates, Backup, Prepare, Install, Restart, Hist
    <3>2. CASE Monitor(b)
      BY <3>2 DEF Monitor, TimerFires, TimeoutRead, TimeoutFail, TimeoutMark, SpawnHelper,
         AppExit, Hist
    <3>3. CASE Helper(b) \/ HelperDies(b)
      BY <3>3 DEF Helper, HelperRead, HelperWait, HelperRemove, HelperCopy, Relaunch,
         HelperClear, HelperFail, HelperReport, HelperDies, Hist
    <3>4. CASE \/ Launch(b) \/ ForceQuit(b) \/ StartMonitor(b) \/ ReadForStage(b)
               \/ WriteStage(b) \/ Acknowledge(b) \/ AckRemove(b)
      BY <3>4 DEF Launch, ForceQuit, StartMonitor, ReadForStage, WriteStage, Acknowledge,
         AckRemove, Hist
    <3> QED
      BY <3>1, <3>2, <3>3, <3>4
  <2> QED
    BY <2>2, <2>3, <2>4
<1> QED
  BY <1>1, <1>2

LEMMA SpecInv == Spec => [](IInv /\ AckInv /\ BudgetInv)
<1>1. IInv /\ AckInv /\ BudgetInv /\ [Next]_vars => (IInv /\ AckInv /\ BudgetInv)'
  BY StepIInv, StepAck, StepBudget
<1> QED
  BY <1>1, InitInv, PTL DEF Spec

(* However many instances, force-quits, relaunches and failed writes: one     *)
(* update arms no launch beyond the first, but for the attempts that were not  *)
(* written and the overwritten files.                                          *)
THEOREM AttemptsBounded == Spec => []AttemptsBound
<1>1. IInv /\ BudgetInv => AttemptsBound
  <2> SUFFICES ASSUME IInv, BudgetInv, NEW b \in Boot, arms[b] # 0
               PROVE  Cardinality(ArmedOn(arms[b])) <= (MaxProbationAttempts - 1) + lost + stale
    BY DEF AttemptsBound
  <2>1. arms[b] \in Nat /\ lost \in Nat /\ stale \in Nat
    BY DEF IInv, TypeInv, TypeOK
  <2>2. IsFiniteSet(ArmedOn(arms[b]))
    <3>1. IsFiniteSet(Boot)
      BY FS_Interval, BootAssumption DEF Boot
    <3> QED
      BY <3>1, FS_Subset DEF ArmedOn
  <2>3. Cardinality(ArmedOn(arms[b])) \in Nat
    BY <2>2, FS_CardinalityType
  <2>4. Cardinality(ArmedOn(arms[b])) <= lost + stale + (IF Fresh(arms[b]) THEN 0 ELSE 1)
    BY <2>1 DEF BudgetInv
  <2> QED
    BY <2>1, <2>3, <2>4, ConstantFacts
<1> QED
  BY <1>1, SpecInv, PTL

(* A launch whose boot_ok has returned does not roll its update back, however *)
(* its timer, its own boot stages and the other processes interleave.          *)
THEOREM AcknowledgedStays == Spec => AckSticks
<1> DEFINE Step == \A b \in Boot :
               stale = 0 /\ boot[b].ack = "done" /\ Marks(b)
                   => boot[b].held.created # arms[b]
<1>1. IInv /\ AckInv /\ [Next]_vars => [Step]_vars
  <2> SUFFICES ASSUME IInv, AckInv, NEW b \in Boot, stale = 0, boot[b].ack = "done", Marks(b)
               PROVE  boot[b].held.created # arms[b]
    OBVIOUS
  <2>1. arms[b] # 0
    BY DEF Marks, IInv, LocalInv, Local
  <2> QED
    BY <2>1 DEF AckInv
<1> QED
  BY <1>1, SpecInv, PTL DEF Spec, AckSticks
=============================================================================

---------------------------- MODULE BootProbation ----------------------------
(***************************************************************************)
(* The probation of a freshly installed build: the updater commands that    *)
(* back the install up and replace it (src/src-tauri/src/commands/          *)
(* updater.rs), the monitor that a launch arms and boot_ok cancels, and the   *)
(* helper process that puts the backup back (boot_probation.rs, main.rs).     *)
(*                                                                           *)
(* The processes share three files: the install, the sentinel and the        *)
(* report. Several instances of the app may run at once, and                  *)
(* PROBATION_FILE_LOCK orders the sections of one process only: a section that *)
(* reads the sentinel and writes it back is two steps below.                  *)
(* What a boot stage or a log tail says only feeds the report: not modelled.  *)
(***************************************************************************)
EXTENDS Naturals, FiniteSets

CONSTANTS
    Releases,    \* how many versions follow the first one
    Boots,       \* bound: launches of the app, named 1 .. Boots
    Instances,   \* bound: instances the user runs side by side
    Updates,     \* bound: no update is started after this many
    Rare,        \* bound: failed operations, crashes and recorded boot stages
    None         \* no install, no backup

ASSUME BootAssumption ==
    /\ Releases \in Nat /\ Boots \in Nat \ {0}
    /\ Instances \in Nat /\ Updates \in Nat /\ Rare \in Nat
    /\ None \notin Nat

Version == 0 .. Releases
Boot == 1 .. Boots
MaxProbationAttempts == 2

VARIABLES
    installed,   \* the version at the install target, None between two copies
    backups,     \* what the copy under updates/previous/<version> holds
    sentinel,    \* the boot probation file
    report,      \* the rollback report file
    boot,        \* the launches of the app
    helper,      \* the helper each launch may spawn
    left,        \* rare events still to come
    created,     \* how many sentinels have been prepared
    (* For the properties only. *)
    arms,        \* the sentinel each launch was armed on, 0 for none
    lost,        \* attempts counted that could not be written
    stale        \* writes over a sentinel changed since the writer read it

vars == <<installed, backups, sentinel, report, boot, helper, left,
          created, arms, lost, stale>>

Probation ==
    [status: {"Absent", "Pending", "RollbackInProgress", "RollbackFailed"},
     prev: Version, backup: BOOLEAN,
     attempts: 0 .. MaxProbationAttempts - 1, created: Nat]

Reports == {"none", "restored", "notRestored"}

(* setup: before start_monitor. update: where install_pending_update is. sec *)
(* and held: the section under the lock, and the record it has read.          *)
Process ==
    [st: {"none", "setup", "up", "exiting", "gone", "crashed"}, ver: Version,
     ack: {"no", "flagged", "done", "leaked"},
     timer: {"off", "armed", "fired", "marked"},
     update: {"none", "found", "backedUp", "prepared", "installed"},
     kept: BOOLEAN, sec: {"none", "attempt", "stage", "timeout"}, held: Probation]

NoFile ==
    [status |-> "Absent", prev |-> 0, backup |-> FALSE, attempts |-> 0,
     created |-> 0]

NoProcess ==
    [st |-> "none", ver |-> 0, ack |-> "no", timer |-> "off", update |-> "none",
     kept |-> FALSE, sec |-> "none", held |-> NoFile]

HelperSteps == {"none", "start", "wait", "remove", "copy", "relaunch", "clear",
                "fail", "tell", "tellFailed", "done", "crashed"}

Ended(st) == [NoProcess EXCEPT !.st = st]
Started(v) == [NoProcess EXCEPT !.st = "setup", !.ver = v]

Init ==
    /\ installed = 0
    /\ backups = [v \in Version |-> None]
    /\ sentinel = NoFile
    /\ report = "none"
    /\ boot = [b \in Boot |-> IF b = 1 THEN Started(0) ELSE NoProcess]
    /\ helper = [b \in Boot |-> [pc |-> "none", rec |-> NoFile]]
    /\ left = Rare
    /\ created = 0 /\ arms = [b \in Boot |-> 0] /\ lost = 0 /\ stale = 0

-----------------------------------------------------------------------------
(* Helper operators. *)

Alive(b) == boot[b].st \in {"setup", "up", "exiting"}
Up(b) == boot[b].st = "up"
Runs(b) == boot[b].st \in {"up", "exiting"}   \* past setup

RareEvent == left > 0 /\ left' = left - 1

(* The next launch runs whatever is installed. *)
Free == {b \in Boot : \A c \in Boot : boot[c].st = "none" <=> c >= b}
Launched == Started(installed)

(* The lock of a process: taken from the read to the write of a section. *)
Unlocked(b) == boot[b].sec = "none"
Locks(p, sec) == [p EXCEPT !.sec = sec, !.held = sentinel]
Unlocks(p) == [p EXCEPT !.sec = "none", !.held = NoFile]

Status(r, s) == [r EXCEPT !.status = s]

(* A record is written by someone who has read the file as one of `read', or *)
(* the write is lost.                                                         *)
WriteBack(read, r) ==
    \/ /\ sentinel' = r
       /\ stale' = IF sentinel \in read THEN stale ELSE stale + 1
       /\ UNCHANGED left
    \/ RareEvent /\ UNCHANGED <<sentinel, stale>>

Removed ==
    \/ sentinel' = NoFile /\ UNCHANGED left
    \/ sentinel # NoFile /\ RareEvent /\ UNCHANGED sentinel

Files == <<installed, backups, sentinel, report>>
Hist == <<created, arms, lost, stale>>

-----------------------------------------------------------------------------
(* The user, and the start of the app. *)

(* Beside other instances or alone. *)
Launch(b) ==
    /\ b \in Free /\ installed # None
    /\ Cardinality({c \in Boot : Alive(c)}) < Instances
    /\ boot' = [boot EXCEPT ![b] = Launched]
    /\ UNCHANGED <<Files, helper, left, Hist>>

(* The user quits the app, or it dies. *)
ForceQuit(b) ==
    /\ Alive(b)
    /\ RareEvent
    /\ boot' = [boot EXCEPT ![b] = Ended("crashed")]
    /\ UNCHANGED <<Files, helper, Hist>>

Watched(b, timer) ==
    [boot EXCEPT ![b] = [Unlocks(@) EXCEPT !.st = "up", !.timer = timer]]
Attempted(r) == [r EXCEPT !.attempts = @ + 1]

(* show_pending_report takes the report, then start_monitor reads the        *)
(* sentinel and returns unless it is pending.                                 *)
StartMonitor(b) ==
    /\ boot[b].st = "setup" /\ Unlocked(b)
    /\ report' = "none"
    /\ boot' = IF sentinel.status = "Pending"
               THEN [boot EXCEPT ![b] = Locks(@, "attempt")]
               ELSE Watched(b, "off")
    /\ UNCHANGED <<installed, backups, sentinel, helper, left, Hist>>

(* Mutant: the attempts are compared before this one is counted. *)
ExhaustedLate(r) == r.attempts >= MaxProbationAttempts
Exhausted(r) == Attempted(r).attempts >= MaxProbationAttempts

(* The attempt is counted and the timer armed, also when the count cannot be *)
(* written down; after too many attempts the sentinel goes instead.           *)
RecordAttempt(b) ==
    /\ boot[b].sec = "attempt"
    /\ LET r == boot[b].held IN
       \/ /\ Exhausted(r)
          /\ boot' = Watched(b, "off")
          /\ Removed
          /\ UNCHANGED <<arms, lost, stale>>
       \/ /\ ~Exhausted(r)
          /\ boot' = Watched(b, "armed")
          /\ arms' = [arms EXCEPT ![b] = r.created]
          /\ WriteBack({r}, Attempted(r))
          /\ lost' = IF left' = left THEN lost ELSE lost + 1
    /\ UNCHANGED <<installed, backups, report, helper, created>>

(* record_boot_stage, at the start of setup and from the frontend: nothing is *)
(* written unless the sentinel is pending and the stage is new.               *)
ReadForStage(b) ==
    /\ Alive(b) /\ Unlocked(b)
    /\ sentinel.status = "Pending" /\ RareEvent
    /\ boot' = [boot EXCEPT ![b] = Locks(@, "stage")]
    /\ UNCHANGED <<Files, helper, Hist>>

WriteStage(b) ==
    /\ boot[b].sec = "stage"
    /\ boot' = [boot EXCEPT ![b] = Unlocks(@)]
    /\ WriteBack({boot[b].held}, boot[b].held)
    /\ UNCHANGED <<installed, backups, report, helper, created, arms, lost>>

-----------------------------------------------------------------------------
(* commands/updater.rs *)

Offer(b) == IF boot[b].ver < Releases THEN "found" ELSE "none"

(* check_for_updates_with_channel fills or clears the slot; it does not ask  *)
(* whether the launch is still on probation.                                  *)
CheckForUpdates(b) ==
    /\ Up(b) /\ boot[b].update \in {"none", "found"} /\ created < Updates
    /\ boot' = [boot EXCEPT ![b].update = Offer(b)]
    /\ UNCHANGED <<Files, helper, left, Hist>>

(* create_backup. The copy fails, with the old one of this version already   *)
(* removed, or the target is not one that can be backed up.                   *)
Backup(b) ==
    /\ Up(b) /\ boot[b].update = "found"
    /\ \/ /\ installed # None
          /\ boot' = [boot EXCEPT ![b].update = "backedUp", ![b].kept = TRUE]
          /\ backups' = [v \in Version |-> IF v = boot[b].ver THEN installed ELSE None]
          /\ UNCHANGED left
       \/ /\ (installed = None /\ UNCHANGED left) \/ RareEvent
          /\ boot' = [boot EXCEPT ![b].update = "backedUp", ![b].kept = FALSE]
          /\ backups' = [backups EXCEPT ![boot[b].ver] = None]
    /\ UNCHANGED <<installed, sentinel, report, helper, Hist>>

(* prepare_for_update writes the sentinel, without the lock; the update stops *)
(* if it cannot.                                                              *)
Prepare(b) ==
    /\ Up(b) /\ boot[b].update = "backedUp"
    /\ \/ /\ sentinel' = [status |-> "Pending", prev |-> boot[b].ver,
                          backup |-> boot[b].kept, attempts |-> 0,
                          created |-> created + 1]
          /\ created' = created + 1
          /\ boot' = [boot EXCEPT ![b].update = "prepared"]
          /\ UNCHANGED left
       \/ /\ RareEvent
          /\ boot' = [boot EXCEPT ![b].update = "none"]
          /\ UNCHANGED <<sentinel, created>>
    /\ UNCHANGED <<installed, backups, report, helper, arms, lost, stale>>

(* download_and_install: on an error the old version goes on running, and    *)
(* the sentinel stays.                                                        *)
Install(b) ==
    /\ Up(b) /\ boot[b].update = "prepared"
    /\ \/ /\ installed' = boot[b].ver + 1
          /\ boot' = [boot EXCEPT ![b].update = "installed"]
          /\ UNCHANGED left
       \/ /\ RareEvent
          /\ boot' = [boot EXCEPT ![b].update = "none"]
          /\ UNCHANGED installed
    /\ UNCHANGED <<backups, sentinel, report, helper, Hist>>

(* A helper of another launch may have taken the install away. *)
Restart(b) ==
    /\ Up(b) /\ boot[b].update = "installed"
    /\ \/ /\ installed # None
          /\ \E c \in Free :
               boot' = [boot EXCEPT ![b] = Ended("gone"), ![c] = Launched]
       \/ /\ installed = None
          /\ boot' = [boot EXCEPT ![b] = Ended("gone")]
    /\ UNCHANGED <<Files, helper, left, Hist>>

-----------------------------------------------------------------------------
(* boot_ok: the flag first, then the file, under the lock. *)

Acknowledge(b) ==
    /\ Runs(b) /\ boot[b].ack = "no"
    /\ boot' = [boot EXCEPT ![b].ack = "flagged"]
    /\ UNCHANGED <<Files, helper, left, Hist>>

(* Mutant: the file goes although another task is in its section. *)
LockIgnored(b) == TRUE
AckLock(b) == Unlocked(b)

AckRemove(b) ==
    /\ Runs(b) /\ boot[b].ack = "flagged" /\ AckLock(b)
    /\ Removed
    /\ boot' = [boot EXCEPT ![b].ack = IF sentinel' = NoFile THEN "done" ELSE "leaked"]
    /\ UNCHANGED <<installed, backups, report, helper, Hist>>

-----------------------------------------------------------------------------
(* The monitor. *)

(* The sleep ends: the flag decides, unless the notification came first. *)
TimerFires(b) ==
    /\ Up(b) /\ boot[b].timer = "armed"
    /\ boot' = [boot EXCEPT ![b].timer = IF boot[b].ack = "no" THEN "fired" ELSE "off"]
    /\ UNCHANGED <<Files, helper, left, Hist>>

(* handle_probation_timeout takes the lock and reads the sentinel, whatever  *)
(* its status.                                                                *)
TimeoutRead(b) ==
    /\ Up(b) /\ boot[b].timer = "fired" /\ Unlocked(b)
    /\ boot' = [boot EXCEPT ![b] = IF sentinel = NoFile THEN [@ EXCEPT !.timer = "off"]
                                   ELSE Locks(@, "timeout")]
    /\ UNCHANGED <<Files, helper, left, Hist>>

(* Without a backup the launch reports and exits. *)
TimeoutFail(b) ==
    /\ boot[b].sec = "timeout" /\ ~boot[b].held.backup
    /\ boot' = [boot EXCEPT ![b] = [Unlocks(@) EXCEPT !.timer = "off", !.st = "exiting"]]
    /\ WriteBack({boot[b].held}, Status(boot[b].held, "RollbackFailed"))
    /\ report' = "notRestored"
    /\ UNCHANGED <<installed, backups, helper, created, arms, lost>>

(* With one the rollback is marked, and goes on although the mark is lost. *)
TimeoutMark(b) ==
    /\ boot[b].sec = "timeout" /\ boot[b].held.backup
    /\ boot' = [boot EXCEPT ![b] = [Unlocks(@) EXCEPT !.timer = "marked"]]
    /\ helper' = [helper EXCEPT ![b].rec = boot[b].held]
    /\ WriteBack({boot[b].held}, Status(boot[b].held, "RollbackInProgress"))
    /\ UNCHANGED <<installed, backups, report, created, arms, lost>>

(* The helper is spawned, or the failure is written down without the lock. *)
SpawnHelper(b) ==
    /\ Up(b) /\ boot[b].timer = "marked"
    /\ boot' = [boot EXCEPT ![b].timer = "off", ![b].st = "exiting"]
    /\ LET r == helper[b].rec IN
       \/ /\ helper' = [helper EXCEPT ![b] = [pc |-> "start", rec |-> NoFile]]
          /\ UNCHANGED <<sentinel, report, left, stale>>
       \/ /\ RareEvent
          /\ sentinel' = Status(r, "RollbackFailed")
          /\ stale' = IF sentinel \in {r, Status(r, "RollbackInProgress")}
                      THEN stale ELSE stale + 1
          /\ report' = "notRestored"
          /\ helper' = [helper EXCEPT ![b].rec = NoFile]
    /\ UNCHANGED <<installed, backups, created, arms, lost>>

AppExit(b) ==
    /\ boot[b].st = "exiting"
    /\ boot' = [boot EXCEPT ![b] = Ended("gone")]
    /\ UNCHANGED <<Files, helper, left, Hist>>

-----------------------------------------------------------------------------
(* run_helper. *)

HelperAt(b, pc) == helper[b].pc = pc
Help(b, pc) == helper' = [helper EXCEPT ![b].pc = pc]
HelperEnds(b, pc) == helper' = [helper EXCEPT ![b] = [pc |-> pc, rec |-> NoFile]]

HelperRead(b) ==
    /\ HelperAt(b, "start")
    /\ helper' = [helper EXCEPT ![b] =
                    IF sentinel = NoFile THEN [pc |-> "done", rec |-> NoFile]
                    ELSE [pc |-> "wait", rec |-> sentinel]]
    /\ UNCHANGED <<Files, boot, left, Hist>>

(* wait_for_parent_exit gives up after 20 s. *)
HelperWait(b) ==
    /\ HelperAt(b, "wait")
    /\ \/ ~Alive(b) /\ UNCHANGED left
       \/ Alive(b) /\ RareEvent
    /\ Help(b, "remove")
    /\ UNCHANGED <<Files, boot, Hist>>

(* restore_backup: the install is removed, then the backup copied. Removing  *)
(* may fail, before anything is gone or half way.                             *)
HelperRemove(b) ==
    /\ HelperAt(b, "remove")
    /\ \/ /\ helper[b].rec.backup /\ backups[helper[b].rec.prev] # None
          /\ \/ Help(b, "copy") /\ installed' = None /\ UNCHANGED left
             \/ /\ RareEvent /\ installed # None
                /\ Help(b, "fail") /\ installed' \in {installed, None}
       \/ /\ ~(helper[b].rec.backup /\ backups[helper[b].rec.prev] # None)
          /\ Help(b, "fail")
          /\ UNCHANGED <<installed, left>>
    /\ UNCHANGED <<backups, sentinel, report, boot, Hist>>

HelperCopy(b) ==
    /\ HelperAt(b, "copy")
    /\ \/ /\ backups[helper[b].rec.prev] # None
          /\ installed' = backups[helper[b].rec.prev]
          /\ Help(b, "relaunch")
          /\ UNCHANGED left
       \/ /\ (backups[helper[b].rec.prev] = None /\ UNCHANGED left) \/ RareEvent
          /\ Help(b, "fail")
          /\ UNCHANGED installed
    /\ UNCHANGED <<backups, sentinel, report, boot, Hist>>

Relaunch(b) ==
    /\ HelperAt(b, "relaunch")
    /\ \/ /\ installed # None
          /\ \E c \in Free : boot' = [boot EXCEPT ![c] = Launched]
          /\ Help(b, "clear")
          /\ UNCHANGED left
       \/ /\ (installed = None /\ UNCHANGED left) \/ RareEvent
          /\ Help(b, "fail")
          /\ UNCHANGED boot
    /\ UNCHANGED <<Files, Hist>>

(* The sentinel goes only now, with the old version already running. *)
HelperClear(b) ==
    /\ HelperAt(b, "clear")
    /\ Removed
    /\ Help(b, "tell")
    /\ UNCHANGED <<installed, backups, report, boot, Hist>>

(* The helper writes the record it read at its start. *)
HelperFail(b) ==
    /\ HelperAt(b, "fail")
    /\ WriteBack({helper[b].rec}, Status(helper[b].rec, "RollbackFailed"))
    /\ Help(b, "tellFailed")
    /\ UNCHANGED <<installed, backups, report, boot, created, arms, lost>>

(* Mutant: only a successful rollback is reported. *)
HelperReportsSuccess(b) ==
    /\ helper[b].pc \in {"tell", "tellFailed"}
    /\ report' = IF HelperAt(b, "tell") THEN "restored" ELSE report
    /\ HelperEnds(b, "done")
    /\ UNCHANGED <<installed, backups, sentinel, boot, left, Hist>>

HelperReport(b) ==
    /\ helper[b].pc \in {"tell", "tellFailed"}
    /\ report' = IF HelperAt(b, "tell") THEN "restored" ELSE "notRestored"
    /\ HelperEnds(b, "done")
    /\ UNCHANGED <<installed, backups, sentinel, boot, left, Hist>>

HelperDies(b) ==
    /\ helper[b].pc \notin {"none", "done", "crashed"}
    /\ RareEvent
    /\ HelperEnds(b, "crashed")
    /\ UNCHANGED <<Files, boot, Hist>>

-----------------------------------------------------------------------------
Monitor(b) ==
    \/ TimerFires(b) \/ TimeoutRead(b) \/ TimeoutFail(b) \/ TimeoutMark(b)
    \/ SpawnHelper(b) \/ AppExit(b)

Helper(b) ==
    \/ HelperRead(b) \/ HelperWait(b) \/ HelperRemove(b) \/ HelperCopy(b)
    \/ Relaunch(b) \/ HelperClear(b) \/ HelperFail(b) \/ HelperReport(b)

Updater(b) ==
    CheckForUpdates(b) \/ Backup(b) \/ Prepare(b) \/ Install(b) \/ Restart(b)

Next ==
    \E b \in Boot :
        \/ Launch(b) \/ ForceQuit(b) \/ StartMonitor(b) \/ RecordAttempt(b)
        \/ ReadForStage(b) \/ WriteStage(b) \/ Updater(b)
        \/ Acknowledge(b) \/ AckRemove(b) \/ Monitor(b)
        \/ Helper(b) \/ HelperDies(b)

Spec == Init /\ [][Next]_vars

(* The setup of a launch, its timer, its sections and the helper go on by    *)
(* themselves; the frontend owes no boot_ok, and the user nothing.            *)
FairSpec ==
    /\ Spec
    /\ \A b \in Boot :
        /\ WF_vars(StartMonitor(b)) /\ WF_vars(RecordAttempt(b)) /\ WF_vars(WriteStage(b))
        /\ WF_vars(Monitor(b)) /\ WF_vars(Helper(b))

-----------------------------------------------------------------------------
(* Properties. *)

VersionOrNone == Version \cup {None}

(* Every variable has its type; a sentinel names a version that exists, and  *)
(* counts fewer attempts than start_monitor gives up at.                      *)
TypeOK ==
    /\ installed \in VersionOrNone
    /\ backups \in [Version -> VersionOrNone]
    /\ sentinel \in Probation
    /\ report \in Reports
    /\ boot \in [Boot -> Process]
    /\ helper \in [Boot -> [pc: HelperSteps, rec: Probation]]
    /\ left \in 0 .. Rare
    /\ created \in Nat /\ arms \in [Boot -> Nat]
    /\ lost \in Nat /\ stale \in Nat

(* "After this many recorded launch attempts on the same sentinel, we stop   *)
(* arming": force-quits, relaunches by the helper, launches by hand during a  *)
(* rollback and stages recorded in between arm no further launch; only a      *)
(* count that could not be written, or one that another process overwrote     *)
(* with what it had read before, allows one more.                             *)
ArmedOn(g) == {b \in Boot : arms[b] = g}
AttemptsBound ==
    \A b \in Boot : arms[b] # 0 =>
        Cardinality(ArmedOn(arms[b]))
            <= (MaxProbationAttempts - 1) + lost + stale

(* A launch whose boot_ok has returned never rolls back the update it was on *)
(* probation for, even when its timer had already found the flag unset: the    *)
(* handler decides on the file boot_ok has removed by then, and no other       *)
(* step brings it back unless processes overwrite each other's file.           *)
Marks(b) == boot[b].timer = "fired" /\ boot'[b].timer = "marked"
AckSticks ==
    [][\A b \in Boot :
           stale = 0 /\ boot[b].ack = "done" /\ Marks(b)
               => boot[b].held.created # arms[b]]_vars

(* An armed launch that the frontend never acknowledges does not stay: while *)
(* nothing is killed, another launch runs in its place or beside it, or a      *)
(* report waits for the next one, whichever copy, spawn, relaunch or write of   *)
(* the sentinel fails.                                                         *)
Replaced(b) ==
    \/ boot[b].ack # "no" \/ report # "none"
    \/ \E c \in Boot : c # b /\ Alive(c)
    \/ \E c \in Boot : boot[c].st = "crashed" \/ helper[c].pc = "crashed"
    \/ Free = {}   \* the bound of the model
ProbationResolves == \A b \in Boot : boot[b].timer = "armed" ~> Replaced(b)
=============================================================================

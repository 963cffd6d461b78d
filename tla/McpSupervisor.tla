---------------------------- MODULE McpSupervisor ----------------------------
(***************************************************************************)
(* The MCP servers of one repository: the rows of repository_mcp_servers,    *)
(* the disabledMcpServers list of ~/.claude.json, the supervisor's map of    *)
(* server states (src/src/mcp_supervisor.rs), and the commands that work on   *)
(* all three (src/src-tauri/src/commands/mcp.rs), called concurrently.        *)
(*                                                                           *)
(* The supervisor's methods take its lock for each critical section and do   *)
(* the network check between two of them: one action is one critical section, *)
(* one SQL statement or one file access. What a check answers is external.    *)
(***************************************************************************)
EXTENDS Naturals

CONSTANTS
    Servers,   \* names of MCP servers
    Calls,     \* concurrent command calls
    MaxFails   \* failure_count saturates here ("this many or more")

ASSUME FailsAssumption == MaxFails \in Nat \ {0}

VARIABLES
    rows,      \* repository_mcp_servers: no row, enabled, disabled
    listed,    \* disabledMcpServers of ~/.claude.json
    ids,       \* row ids drawn for a server while the window is open; 2 is "more"
    sup,       \* RepoMcpState.servers
    call       \* locals of each command

vars == <<rows, listed, ids, sup, call>>

-----------------------------------------------------------------------------
(* State. *)

RowStates == {"none", "on", "off"}
Rows == [Servers -> RowStates]
NoRows == [s \in Servers |-> "none"]
On(b) == IF b THEN "on" ELSE "off"

Server ==
    [st: {"none", "pending", "connected", "failed", "disabled"},
     enabled: BOOLEAN, fails: 0 .. MaxFails, err: BOOLEAN]

(* Not in the map. *)
NoServer == [st |-> "none", enabled |-> FALSE, fails |-> 0, err |-> FALSE]

Steps == {"idle", "merge", "reload", "init", "validate", "validating",
          "mark", "reconnecting", "list", "enable"}

Call == [pc: Steps, rows: Rows, check: SUBSET Servers, enabled: BOOLEAN]
NoCall ==
    [pc |-> "idle", rows |-> NoRows, check |-> {}, enabled |-> FALSE]

Init ==
    /\ rows = NoRows
    /\ listed = {}
    /\ ids = [s \in Servers |-> 0]
    /\ sup = [s \in Servers |-> NoServer]
    /\ call = [c \in Calls |-> NoCall]

-----------------------------------------------------------------------------
(* Helpers. *)

At(c, pc) == call[c].pc = pc
Known(s) == sup[s].st # "none"
Goto(c, pc) == call' = [call EXCEPT ![c].pc = pc]
Return(c) == call' = [call EXCEPT ![c] = NoCall]

(* New rows for the servers in S. *)
Drawn(S) == [s \in Servers |-> IF s \in S /\ ids[s] < 2 THEN ids[s] + 1 ELSE ids[s]]

(* What a finished check makes of a server. *)
Verdict(r, ok) ==
    IF ok THEN [r EXCEPT !.st = "connected", !.fails = 0, !.err = FALSE]
    ELSE [r EXCEPT !.st = "failed", !.err = TRUE,
                   !.fails = IF @ < MaxFails THEN @ + 1 ELSE @]

(* Mutant: the verdict also reaches a server disabled during the check. *)
AppliedAnyway(S, good) ==
    [s \in Servers |-> IF s \in S /\ Known(s) THEN Verdict(sup[s], s \in good)
                       ELSE sup[s]]
(* The verdicts on S, for the servers that are still there and enabled. *)
Applied(S, good) ==
    [s \in Servers |-> IF s \in S /\ Known(s) /\ sup[s].enabled
                       THEN Verdict(sup[s], s \in good) ELSE sup[s]]

(* A server new to the supervisor. *)
Added(on) ==
    [NoServer EXCEPT !.st = IF on THEN "pending" ELSE "disabled", !.enabled = on]

(* Mutant: a dropped server leaves its failures behind. *)
SupervisedResidue(saved) ==
    [s \in Servers |->
        IF saved[s] = "none" THEN [sup[s] EXCEPT !.st = "none"]
        ELSE IF Known(s) THEN [sup[s] EXCEPT !.enabled = saved[s] = "on"]
        ELSE Added(saved[s] = "on")]
(* init_repo_with_enabled: drop what has no row, keep the state of the rest. *)
Supervised(saved) ==
    [s \in Servers |->
        IF saved[s] = "none" THEN NoServer
        ELSE IF Known(s) THEN [sup[s] EXCEPT !.enabled = saved[s] = "on"]
        ELSE Added(saved[s] = "on")]

(* Mutant: re-enabling keeps the error of the time before. *)
SwitchedKeepsError(r, on) ==
    IF ~on THEN [r EXCEPT !.enabled = FALSE, !.st = "disabled"]
    ELSE IF r.st = "disabled"
    THEN [r EXCEPT !.enabled = TRUE, !.st = "pending", !.fails = 0]
    ELSE [r EXCEPT !.enabled = TRUE]
(* set_server_enabled on a server that is there. *)
Switched(r, on) ==
    IF ~on THEN [r EXCEPT !.enabled = FALSE, !.st = "disabled"]
    ELSE IF r.st = "disabled"
    THEN [r EXCEPT !.enabled = TRUE, !.st = "pending", !.fails = 0, !.err = FALSE]
    ELSE [r EXCEPT !.enabled = TRUE]

-----------------------------------------------------------------------------
(* ensure_and_validate_mcps. *)

(* The rows are read; an error counts as no rows. *)
EnsureList(c) ==
    /\ At(c, "idle")
    /\ \E old \in {rows, NoRows} :
           call' = [call EXCEPT ![c].pc = "merge", ![c].rows = old]
    /\ UNCHANGED <<rows, listed, ids, sup>>

InitialFlag(s) == On(s \notin listed)   \* get_disabled_servers

(* Detected servers keep the flag of their old row; new ones take the list's. *)
Merged(old, detected) ==
    [s \in Servers |-> IF s \notin detected THEN "none"
                       ELSE IF old[s] # "none" THEN old[s]
                       ELSE InitialFlag(s)]

(* The list is read and the merge replaces the table, or the write fails and *)
(* the table stays.                                                           *)
EnsureReplace(c) ==
    /\ At(c, "merge")
    /\ \E detected \in SUBSET Servers :
           LET new == Merged(call[c].rows, detected)
           IN  \/ /\ rows' = new
                  /\ ids' = Drawn({s \in detected : call[c].rows[s] = "none"})
               \/ UNCHANGED <<rows, ids>>
    /\ Goto(c, "reload")
    /\ UNCHANGED <<listed, sup>>

EnsureReload(c) ==
    /\ At(c, "reload")
    /\ \E saved \in {rows, NoRows} :
           call' = [call EXCEPT ![c].pc = "init", ![c].rows = saved]
    /\ UNCHANGED <<rows, listed, ids, sup>>

EnsureInit(c) ==
    /\ At(c, "init")
    /\ sup' = Supervised(call[c].rows)
    /\ IF call[c].rows = NoRows THEN Return(c) ELSE Goto(c, "validate")
    /\ UNCHANGED <<rows, listed, ids>>

(* validate_servers: the enabled servers are noted under the read lock, *)
(* checked without it, and the verdicts applied under the write lock.   *)
ValidateRead(c) ==
    /\ At(c, "validate")
    /\ call' = [call EXCEPT ![c].pc = "validating",
                            ![c].check = {s \in Servers : sup[s].enabled}]
    /\ UNCHANGED <<rows, listed, ids, sup>>

ValidateApply(c) ==
    /\ At(c, "validating")
    /\ \E good \in SUBSET call[c].check : sup' = Applied(call[c].check, good)
    /\ Return(c)
    /\ UNCHANGED <<rows, listed, ids>>

-----------------------------------------------------------------------------
(* reconnect_server. *)

ReconnectRead(c, s) ==
    /\ At(c, "idle")
    /\ sup[s].enabled
    /\ call' = [call EXCEPT ![c].pc = "mark", ![c].check = {s}]
    /\ UNCHANGED <<rows, listed, ids, sup>>

(* Whatever happened since the read lock was dropped, the server is pending. *)
ReconnectMark(c) ==
    /\ At(c, "mark")
    /\ sup' = [s \in Servers |-> IF s \in call[c].check /\ Known(s)
                                 THEN [sup[s] EXCEPT !.st = "pending"] ELSE sup[s]]
    /\ Goto(c, "reconnecting")
    /\ UNCHANGED <<rows, listed, ids>>

ReconnectApply(c) ==
    /\ At(c, "reconnecting")
    /\ \E good \in SUBSET call[c].check : sup' = Applied(call[c].check, good)
    /\ Return(c)
    /\ UNCHANGED <<rows, listed, ids>>

-----------------------------------------------------------------------------
(* set_mcp_server_enabled. *)

(* UPDATE by the id the caller has loaded: it misses a row that is gone or  *)
(* has been written again under a new id.                                    *)
SetRow(c, s, on) ==
    /\ At(c, "idle")
    /\ \/ rows' = IF rows[s] = "none" THEN rows ELSE [rows EXCEPT ![s] = On(on)]
       \/ ids[s] > 1 /\ UNCHANGED rows
    /\ call' = [call EXCEPT ![c].pc = "list", ![c].check = {s}, ![c].enabled = on]
    /\ UNCHANGED <<listed, ids, sup>>

(* set_server_disabled_in_config; a failure is only logged. *)
SetListed(c) ==
    /\ At(c, "list")
    /\ \/ listed' = IF call[c].enabled THEN listed \ call[c].check
                    ELSE listed \cup call[c].check
       \/ UNCHANGED listed
    /\ Goto(c, "enable")
    /\ UNCHANGED <<rows, ids, sup>>

(* The repository cannot be read: a plain `?' after the row was written. *)
SetFails(c) ==
    /\ At(c, "list")
    /\ Return(c)
    /\ UNCHANGED <<rows, listed, ids, sup>>

SetSupervised(c) ==
    /\ At(c, "enable")
    /\ sup' = [s \in Servers |-> IF s \in call[c].check /\ Known(s)
                                 THEN Switched(sup[s], call[c].enabled) ELSE sup[s]]
    /\ Return(c)
    /\ UNCHANGED <<rows, listed, ids>>

-----------------------------------------------------------------------------
(* The commands of one statement, the agent's stream, the workspaces, and the *)
(* world outside.                                                             *)

(* save_repository_mcps: the chosen servers, with the list's flags. *)
Save ==
    /\ \E chosen \in SUBSET Servers :
           /\ rows' = Merged(NoRows, chosen)
           /\ ids' = Drawn(chosen)
    /\ UNCHANGED <<listed, sup, call>>

DeleteRow(s) ==
    /\ rows[s] # "none"
    /\ rows' = [rows EXCEPT ![s] = "none"]
    /\ UNCHANGED <<listed, ids, sup, call>>

ReportToolFailure(s) ==
    /\ sup[s].st = "connected"
    /\ sup' = [sup EXCEPT ![s] = Verdict(@, FALSE)]
    /\ UNCHANGED <<rows, listed, ids, call>>

(* remove_repo: the last workspace of the repository is archived or deleted. *)
RemoveRepo ==
    /\ sup' = [s \in Servers |-> NoServer]
    /\ UNCHANGED <<rows, listed, ids, call>>

(* Another program edits ~/.claude.json. *)
EditConfig ==
    /\ \E L \in SUBSET Servers : listed' = L
    /\ UNCHANGED <<rows, ids, sup, call>>

(* The window, with the ids it has loaded, and the supervisor start afresh. *)
AppRestart ==
    /\ sup' = [s \in Servers |-> NoServer]
    /\ call' = [c \in Calls |-> NoCall]
    /\ ids' = [s \in Servers |-> IF rows[s] = "none" THEN 0 ELSE 1]
    /\ UNCHANGED <<rows, listed>>

-----------------------------------------------------------------------------
Ensure(c) ==
    \/ EnsureList(c) \/ EnsureReplace(c) \/ EnsureReload(c) \/ EnsureInit(c)
    \/ ValidateRead(c) \/ ValidateApply(c)

Next ==
    \/ \E c \in Calls :
        \/ Ensure(c) \/ ReconnectMark(c) \/ ReconnectApply(c)
        \/ SetListed(c) \/ SetFails(c) \/ SetSupervised(c)
        \/ \E s \in Servers : ReconnectRead(c, s) \/ \E on \in BOOLEAN : SetRow(c, s, on)
    \/ \E s \in Servers : DeleteRow(s) \/ ReportToolFailure(s)
    \/ Save \/ RemoveRepo \/ EditConfig \/ AppRestart

Spec == Init /\ [][Next]_vars

-----------------------------------------------------------------------------
(* Properties. *)

(* Every variable has its type, and a server the supervisor has dropped      *)
(* leaves nothing behind that the next one of its name would inherit.         *)
TypeOK ==
    /\ rows \in Rows
    /\ listed \subseteq Servers /\ ids \in [Servers -> 0 .. 2]
    /\ sup \in [Servers -> Server]
    /\ call \in [Calls -> Call]
    /\ \A s \in Servers : ~Known(s) => sup[s] = NoServer

(* The status line shown for a server agrees with itself: an error is shown *)
(* exactly when failures are counted, a connected server has none, a failed   *)
(* one has some, whatever checks, toggles, reloads and reports overlap.       *)
ErrorsMatchState ==
    \A s \in Servers :
        /\ sup[s].err <=> sup[s].fails > 0
        /\ sup[s].st = "connected" => ~sup[s].err
        /\ sup[s].st = "failed" => sup[s].err

(* "Server may have been disabled while validation was in flight": a check  *)
(* or a reconnection that ends late neither connects a server that has been   *)
(* disabled or dropped nor counts a failure against it. (One that has been    *)
(* enabled or added again in the meantime does take the late answer: the code *)
(* looks a verdict's server up by its name.)                                  *)
NoLateVerdict ==
    [][\A s \in Servers :
           ~sup[s].enabled /\ sup[s].st # "connected"
               => sup'[s].st # "connected" /\ sup'[s].fails <= sup[s].fails]_vars
=============================================================================

------------------------- MODULE McpSupervisorProofs -------------------------
(***************************************************************************)
(* Proofs about McpSupervisor, for any set of servers and any number of      *)
(* concurrent commands.                                                      *)
(***************************************************************************)
EXTENDS McpSupervisor, TLAPS

-----------------------------------------------------------------------------
\* The inductive invariant, as the server records and what is kept around them.

\* One server's record: typed, empty when dropped, and with an error shown
\* exactly when failures are counted.
Sound(r) ==
    /\ r \in Server
    /\ r.st = "none" => r = NoServer
    /\ r.err <=> r.fails > 0
    /\ r.st = "connected" => ~r.err
    /\ r.st = "failed" => r.err

SupOK == sup \in [Servers -> Server] /\ \A s \in Servers : Sound(sup[s])

RestOK ==
    /\ rows \in Rows
    /\ listed \subseteq Servers
    /\ ids \in [Servers -> 0 .. 2]
    /\ call \in [Calls -> Call]

Inv == SupOK /\ RestOK

-----------------------------------------------------------------------------
\* What the helpers preserve.

\* A dropped server is a sound record.
LEMMA NoServerSound == Sound(NoServer)
BY FailsAssumption DEF Sound, NoServer, Server

\* A record without failures and without an error is sound, unless it is failed.
LEMMA CleanSound ==
    ASSUME NEW v \in Server, v.fails = 0, v.err = FALSE,
           v.st \in {"pending", "connected", "disabled"}
    PROVE  Sound(v)
<1>1. ~(v.fails > 0) /\ v.st # "none" /\ v.st # "failed"
  OBVIOUS
<1>2. QED
  BY <1>1, Zenon DEF Sound

\* A verdict keeps count and error together.
LEMMA VerdictSound ==
    ASSUME NEW r, Sound(r), r.st # "none"
    PROVE  \A ok \in BOOLEAN : Sound(Verdict(r, ok))
<1>1. r \in Server /\ r.fails \in 0 .. MaxFails
  BY DEF Sound, Server
<1>2. Sound(Verdict(r, TRUE))
  <2> DEFINE w(e, b) == [r EXCEPT !.st = "connected", !.fails = 0, !.err = e, !.enabled = b]
             v == w(FALSE, r.enabled)
  <2>1. 0 \in 0 .. MaxFails /\ r.enabled \in BOOLEAN
    BY <1>1, FailsAssumption DEF Server
  <2>2. \A e, b \in BOOLEAN : w(e, b) \in Server /\ w(e, b).st = "connected"
                              /\ w(e, b).fails = 0 /\ w(e, b).err = e
    BY <1>1, <2>1 DEF Server
  <2>3. Verdict(r, TRUE) = v
    BY <1>1 DEF Verdict, Server
  <2> HIDE DEF w
  <2>4. v \in Server /\ v.st = "connected" /\ v.fails = 0 /\ v.err = FALSE
    BY <2>1, <2>2, Zenon
  <2> HIDE DEF v
  <2>5. QED
    BY <2>3, <2>4, CleanSound
<1>3. Sound(Verdict(r, FALSE))
  <2> DEFINE n == IF r.fails < MaxFails THEN r.fails + 1 ELSE r.fails
             v == [r EXCEPT !.st = "failed", !.err = TRUE, !.fails = n]
  <2>1. n \in 0 .. MaxFails /\ n > 0
    BY <1>1, FailsAssumption
  <2>2. Verdict(r, FALSE) = v
    BY DEF Verdict
  <2> HIDE DEF n
  <2>3. v \in Server /\ v.st = "failed" /\ v.fails = n /\ v.err
    BY <1>1, <2>1 DEF Server
  <2> HIDE DEF v
  <2>4. QED
    BY <2>1, <2>2, <2>3 DEF Sound
<1>4. QED
  BY <1>2, <1>3

\* A toggle keeps them together, resets both when it re-enables, and connects
\* nothing.
LEMMA SwitchedSound ==
    ASSUME NEW r, Sound(r), r.st # "none"
    PROVE  \A on \in BOOLEAN :
               /\ Sound(Switched(r, on))
               /\ Switched(r, on).st = "connected" => r.st = "connected"
<1>1. r \in Server
  BY DEF Sound
<1>2. Sound(Switched(r, FALSE)) /\ Switched(r, FALSE).st = "disabled"
  BY <1>1 DEF Sound, Switched, Server
<1>3. CASE r.st = "disabled"
  <2> DEFINE w(e, b) == [r EXCEPT !.st = "pending", !.fails = 0, !.err = e, !.enabled = b]
             v == w(FALSE, TRUE)
  <2>0. 0 \in 0 .. MaxFails
    BY FailsAssumption
  <2>1. \A e, b \in BOOLEAN : w(e, b) \in Server /\ w(e, b).st = "pending"
                              /\ w(e, b).fails = 0 /\ w(e, b).err = e
    BY <1>1, <2>0 DEF Server
  <2>2. Switched(r, TRUE) = v
    BY <1>1, <1>3 DEF Switched, Server
  <2> HIDE DEF w
  <2>3. v \in Server /\ v.st = "pending" /\ v.fails = 0 /\ v.err = FALSE
    BY <2>1, Zenon
  <2> HIDE DEF v
  <2>4. Sound(Switched(r, TRUE)) /\ Switched(r, TRUE).st = "pending"
    BY <2>2, <2>3, CleanSound
  <2>5. QED
    BY <1>2, <2>4
<1>4. CASE r.st # "disabled"
  <2>1. Sound(Switched(r, TRUE)) /\ Switched(r, TRUE).st = r.st
    BY <1>1, <1>4 DEF Sound, Switched, Server
  <2>2. QED
    BY <1>2, <2>1
<1>5. QED
  BY <1>3, <1>4

\* The flag is written from the row; the state is kept.
LEMMA FlaggedSound ==
    ASSUME NEW r, Sound(r), r.st # "none"
    PROVE  \A b \in BOOLEAN : Sound([r EXCEPT !.enabled = b])
BY DEF Sound, Server

\* A server is added as pending or disabled, without failures.
LEMMA AddedSound ==
    ASSUME NEW b \in BOOLEAN
    PROVE  Sound(Added(b)) /\ Added(b).st # "connected"
<1> DEFINE st == IF b THEN "pending" ELSE "disabled"
<1>1. NoServer \in Server /\ NoServer.fails = 0 /\ st \in {"pending", "disabled"}
  BY NoServerSound DEF Sound, NoServer
<1>2. NoServer.err = FALSE
  BY DEF NoServer
<1>3. Added(b) = [NoServer EXCEPT !.st = st, !.enabled = b]
  BY DEF Added
<1> HIDE DEF st
<1>4. \A r \in Server :
          LET v == [r EXCEPT !.st = st, !.enabled = b]
          IN  v \in Server /\ v.st = st /\ v.fails = r.fails /\ v.err = r.err
  BY <1>1 DEF Server
<1>5. /\ Added(b) \in Server /\ Added(b).st = st
      /\ Added(b).fails = NoServer.fails /\ Added(b).err = NoServer.err
  BY <1>1, <1>3, <1>4, Zenon
<1>6. QED
  BY <1>1, <1>2, <1>5, CleanSound

\* Sound records make a sound map.
LEMMA SupSet ==
    ASSUME sup' = [s \in Servers |-> sup'[s]], \A s \in Servers : Sound(sup'[s])
    PROVE  SupOK'
BY DEF SupOK, Sound

\* A call that returns, or goes on, keeps its type.
LEMMA CallSteps ==
    ASSUME RestOK, NEW c \in Calls
    PROVE  /\ Return(c) => call' \in [Calls -> Call]
           /\ \A pc \in Steps : Goto(c, pc) => call' \in [Calls -> Call]
<1>1. NoRows \in Rows
  BY DEF NoRows, Rows, RowStates
<1>2. NoCall \in Call
  BY <1>1 DEF NoCall, Call, Steps
<1>3. call \in [Calls -> Call]
  BY DEF RestOK
<1>4. Return(c) => call' \in [Calls -> Call]
  BY <1>2, <1>3 DEF Return
<1>5. ASSUME NEW pc \in Steps, Goto(c, pc)
      PROVE  call' \in [Calls -> Call]
  BY <1>3, <1>5 DEF Goto, Call
<1>6. QED
  BY <1>4, <1>5

\* The verdicts of a check keep the map sound, and connect only what is enabled.
LEMMA AppliedOK ==
    ASSUME SupOK, NEW S, NEW good, sup' = Applied(S, good)
    PROVE  /\ SupOK'
           /\ \A s \in Servers : sup[s].st # "connected" /\ sup'[s].st = "connected"
                                     => sup[s].enabled
<1>1. \A s \in Servers : Sound(sup[s])
  BY DEF SupOK
<1>2. ASSUME NEW s \in Servers
      PROVE  Sound(sup'[s]) /\ (sup'[s] = sup[s] \/ sup[s].enabled)
  <2>1. CASE s \in S /\ Known(s) /\ sup[s].enabled
    <3>1. sup'[s] = Verdict(sup[s], s \in good)
      BY <2>1 DEF Applied
    <3>2. (s \in good) \in BOOLEAN
      OBVIOUS
    <3>3. Sound(Verdict(sup[s], s \in good))
      BY <1>1, <2>1, <3>2, VerdictSound, Zenon DEF Known
    <3>4. QED
      BY <2>1, <3>1, <3>3
  <2>2. CASE ~(s \in S /\ Known(s) /\ sup[s].enabled)
    <3>1. sup'[s] = sup[s]
      BY <2>2 DEF Applied
    <3>2. QED
      BY <1>1, <3>1
  <2>3. QED
    BY <2>1, <2>2
<1>3. sup' = [s \in Servers |-> sup'[s]]
  BY DEF Applied
<1>4. QED
  BY <1>2, <1>3, SupSet

-----------------------------------------------------------------------------
\* The actions.

\* No step connects a server that is not enabled.
Late == \A s \in Servers :
    sup[s].st # "connected" /\ sup'[s].st = "connected" => sup[s].enabled

\* A step that leaves the supervisor's map alone.
LEMMA SupFrame ==
    ASSUME SupOK, UNCHANGED sup
    PROVE  SupOK' /\ Late
BY DEF SupOK, Late

\* The map is emptied.
LEMMA SupEmptied ==
    ASSUME sup' = [s \in Servers |-> NoServer]
    PROVE  SupOK' /\ Late
<1>1. \A s \in Servers : Sound(sup'[s]) /\ sup'[s].st # "connected"
  BY NoServerSound DEF NoServer
<1>2. QED
  BY <1>1, SupSet DEF Late

\* The rows ensure_and_validate_mcps and save_repository_mcps write.
LEMMA MergedType ==
    ASSUME NEW old \in Rows, NEW detected
    PROVE  Merged(old, detected) \in Rows
BY DEF Merged, InitialFlag, Rows, RowStates, On

\* No rows, and the ids of new ones, are well formed.
LEMMA DrawnType ==
    ASSUME RestOK
    PROVE  NoRows \in Rows /\ \A S : Drawn(S) \in [Servers -> 0 .. 2]
BY DEF NoRows, Rows, RowStates, Drawn, RestOK

\* The statements of ensure_and_validate_mcps before it reaches the supervisor.
LEMMA EnsureRows ==
    ASSUME Inv, NEW c \in Calls, EnsureList(c) \/ EnsureReplace(c) \/ EnsureReload(c)
    PROVE  Inv' /\ Late
<1>1. call \in [Calls -> Call] /\ rows \in Rows /\ NoRows \in Rows
  BY DrawnType DEF Inv, RestOK
<1>2. SupOK' /\ Late
  BY SupFrame DEF Inv, EnsureList, EnsureReplace, EnsureReload
<1>3. CASE EnsureList(c) \/ EnsureReload(c)
  <2>1. PICK old \in Rows, pc \in {"merge", "init"} :
            call' = [call EXCEPT ![c].pc = pc, ![c].rows = old]
    BY <1>1, <1>3, Zenon DEF EnsureList, EnsureReload
  <2>2. call' \in [Calls -> Call]
    BY <1>1, <2>1 DEF Call, Steps
  <2>3. QED
    BY <1>2, <1>3, <2>2 DEF Inv, RestOK, EnsureList, EnsureReload
<1>4. CASE EnsureReplace(c)
  <2>1. call' \in [Calls -> Call]
    BY <1>4, CallSteps DEF Inv, EnsureReplace, Steps
  <2>2. call[c].rows \in Rows
    BY <1>1 DEF Call
  <2>3. \A d : Merged(call[c].rows, d) \in Rows
    BY <2>2, MergedType
  <2>4. rows' \in Rows /\ ids' \in [Servers -> 0 .. 2]
    BY <1>4, <2>3, DrawnType DEF EnsureReplace, Inv, RestOK
  <2>5. QED
    BY <1>2, <1>4, <2>1, <2>4 DEF Inv, RestOK, EnsureReplace
<1>5. QED
  BY <1>3, <1>4

\* init_repo_with_enabled.
LEMMA EnsureInitStep ==
    ASSUME Inv, NEW c \in Calls, EnsureInit(c)
    PROVE  Inv' /\ Late
<1> DEFINE saved == call[c].rows
<1>1. \A s \in Servers : Sound(sup[s])
  BY DEF Inv, SupOK
<1>2. sup' = Supervised(saved)
  BY DEF EnsureInit
<1> HIDE DEF saved
<1>3. ASSUME NEW s \in Servers
      PROVE  Sound(sup'[s]) /\ (sup'[s].st = "connected" => sup[s].st = "connected")
  <2>1. (saved[s] = "on") \in BOOLEAN
    OBVIOUS
  <2>2. CASE saved[s] = "none"
    BY <1>2, <2>2, NoServerSound DEF Supervised, NoServer
  <2>3. CASE saved[s] # "none" /\ Known(s)
    <3>1. \A b \in BOOLEAN : /\ Sound([sup[s] EXCEPT !.enabled = b])
                             /\ [sup[s] EXCEPT !.enabled = b].st = sup[s].st
      BY <1>1, <2>3, FlaggedSound DEF Known, Sound, Server
    <3>2. sup'[s] = [sup[s] EXCEPT !.enabled = saved[s] = "on"]
      BY <1>2, <2>3 DEF Supervised
    <3>3. QED
      BY <2>1, <3>1, <3>2, Zenon
  <2>4. CASE saved[s] # "none" /\ ~Known(s)
    <3>1. sup'[s] = Added(saved[s] = "on")
      BY <1>2, <2>4 DEF Supervised
    <3>2. QED
      BY <2>1, <3>1, AddedSound, Zenon
  <2>5. QED
    BY <2>2, <2>3, <2>4
<1>4. sup' = [s \in Servers |-> sup'[s]]
  BY <1>2 DEF Supervised
<1>5. SupOK' /\ Late
  BY <1>3, <1>4, SupSet DEF Late
<1>6. call' \in [Calls -> Call]
  BY CallSteps DEF Inv, EnsureInit, Steps
<1>7. QED
  BY <1>5, <1>6 DEF Inv, RestOK, EnsureInit

\* The check of validate_servers, from the read lock to the verdicts.
LEMMA ValidateSteps ==
    ASSUME Inv, NEW c \in Calls, ValidateRead(c) \/ ValidateApply(c)
    PROVE  Inv' /\ Late
<1>1. call \in [Calls -> Call]
  BY DEF Inv, RestOK
<1>2. CASE ValidateRead(c)
  <2>1. call' \in [Calls -> Call]
    BY <1>1, <1>2 DEF ValidateRead, Call, Steps
  <2>2. QED
    BY <1>2, <2>1, SupFrame DEF Inv, RestOK, ValidateRead
<1>3. CASE ValidateApply(c)
  <2>1. SupOK' /\ Late
    BY <1>3, AppliedOK DEF Inv, ValidateApply, Late
  <2>2. call' \in [Calls -> Call]
    BY <1>3, CallSteps DEF Inv, ValidateApply
  <2>3. QED
    BY <1>3, <2>1, <2>2 DEF Inv, RestOK, ValidateApply
<1>4. QED
  BY <1>2, <1>3

\* reconnect_server, from the read lock over the mark to the verdict.
LEMMA ReconnectSteps ==
    ASSUME Inv, NEW c \in Calls,
           (\E s \in Servers : ReconnectRead(c, s)) \/ ReconnectMark(c) \/ ReconnectApply(c)
    PROVE  Inv' /\ Late
<1>1. call \in [Calls -> Call] /\ \A q \in Servers : Sound(sup[q])
  BY DEF Inv, RestOK, SupOK
<1>2. CASE \E s \in Servers : ReconnectRead(c, s)
  <2>0. PICK s \in Servers : ReconnectRead(c, s)
    BY <1>2
  <2>1. call' \in [Calls -> Call]
    BY <1>1, <2>0 DEF ReconnectRead, Call, Steps
  <2>2. QED
    BY <1>2, <2>1, SupFrame DEF Inv, RestOK, ReconnectRead
<1>3. CASE ReconnectMark(c)
  <2>1. \A q \in Servers : Known(q) => Sound([sup[q] EXCEPT !.st = "pending"])
                                       /\ [sup[q] EXCEPT !.st = "pending"].st = "pending"
    BY <1>1 DEF Sound, Server, Known
  <2>2. \A q \in Servers :
            Sound(sup'[q]) /\ (sup'[q].st = "connected" => sup[q].st = "connected")
    BY <1>1, <1>3, <2>1 DEF ReconnectMark
  <2>3. SupOK' /\ Late
    BY <1>3, <2>2, SupSet DEF ReconnectMark, Late
  <2>4. call' \in [Calls -> Call]
    BY <1>3, CallSteps DEF Inv, ReconnectMark, Steps
  <2>5. QED
    BY <1>3, <2>3, <2>4 DEF Inv, RestOK, ReconnectMark
<1>4. CASE ReconnectApply(c)
  <2>1. SupOK' /\ Late
    BY <1>4, AppliedOK DEF Inv, ReconnectApply, Late
  <2>2. call' \in [Calls -> Call]
    BY <1>4, CallSteps DEF Inv, ReconnectApply
  <2>3. QED
    BY <1>4, <2>1, <2>2 DEF Inv, RestOK, ReconnectApply
<1>5. QED
  BY <1>2, <1>3, <1>4

\* set_mcp_server_enabled: the row, the list, the supervisor.
LEMMA SetSteps ==
    ASSUME Inv, NEW c \in Calls,
           \/ \E s \in Servers : \E on \in BOOLEAN : SetRow(c, s, on)
           \/ SetListed(c) \/ SetFails(c) \/ SetSupervised(c)
    PROVE  Inv' /\ Late
<1>1. call \in [Calls -> Call] /\ \A q \in Servers : Sound(sup[q])
  BY DEF Inv, RestOK, SupOK
<1>2. CASE \E s \in Servers : \E on \in BOOLEAN : SetRow(c, s, on)
  <2>1. PICK s \in Servers, on \in BOOLEAN : SetRow(c, s, on)
    BY <1>2
  <2> DEFINE r(b) == [call[c] EXCEPT !.pc = "list", !.check = {s}, !.enabled = b]
  <2>2. \A b \in BOOLEAN : r(b) \in Call
    BY <1>1 DEF Call, Steps
  <2>3. call' = [call EXCEPT ![c] = r(on)]
    BY <1>1, <2>1 DEF SetRow
  <2> HIDE DEF r
  <2>4. call' \in [Calls -> Call]
    BY <1>1, <2>2, <2>3
  <2>5. rows' \in Rows
    BY <2>1 DEF SetRow, Inv, RestOK, Rows, RowStates, On
  <2>6. QED
    BY <2>1, <2>4, <2>5, SupFrame DEF Inv, RestOK, SetRow
<1>3. CASE SetListed(c) \/ SetFails(c)
  <2>1. call' \in [Calls -> Call]
    BY <1>3, CallSteps DEF Inv, SetListed, SetFails, Steps
  <2>2. call[c].check \subseteq Servers
    BY <1>1 DEF Call
  <2>3. listed' \subseteq Servers
    BY <1>3, <2>2 DEF SetListed, SetFails, Inv, RestOK
  <2>4. SupOK' /\ Late
    BY <1>3, SupFrame DEF Inv, SetListed, SetFails
  <2>5. QED
    BY <1>3, <2>1, <2>3, <2>4 DEF Inv, RestOK, SetListed, SetFails
<1>4. CASE SetSupervised(c)
  <2>1. call[c].enabled \in BOOLEAN
    BY <1>1 DEF Call
  <2>2. \A q \in Servers : Known(q) =>
            /\ Sound(Switched(sup[q], call[c].enabled))
            /\ Switched(sup[q], call[c].enabled).st = "connected" => sup[q].st = "connected"
    BY <1>1, <2>1, SwitchedSound DEF Known
  <2>3. \A q \in Servers :
            Sound(sup'[q]) /\ (sup'[q].st = "connected" => sup[q].st = "connected")
    BY <1>1, <1>4, <2>2 DEF SetSupervised
  <2>4. SupOK' /\ Late
    BY <1>4, <2>3, SupSet DEF SetSupervised, Late
  <2>5. call' \in [Calls -> Call]
    BY <1>4, CallSteps DEF Inv, SetSupervised
  <2>6. QED
    BY <1>4, <2>4, <2>5 DEF Inv, RestOK, SetSupervised
<1>5. QED
  BY <1>2, <1>3, <1>4

\* The commands of one statement and the events from outside.
LEMMA OtherSteps ==
    ASSUME Inv,
           \/ \E s \in Servers : DeleteRow(s) \/ ReportToolFailure(s)
           \/ Save \/ RemoveRepo \/ EditConfig \/ AppRestart
    PROVE  Inv' /\ Late
<1>1. CASE \E s \in Servers : DeleteRow(s)
  BY <1>1, SupFrame DEF DeleteRow, Inv, RestOK, Rows, RowStates
<1>2. CASE \E s \in Servers : ReportToolFailure(s)
  <2>1. PICK s \in Servers : ReportToolFailure(s)
    BY <1>2
  <2>2. sup \in [Servers -> Server] /\ \A q \in Servers : Sound(sup[q])
    BY DEF Inv, SupOK
  <2>3. Sound(Verdict(sup[s], FALSE))
    BY <2>1, <2>2, VerdictSound DEF ReportToolFailure
  <2>4. \A q \in Servers : sup'[q] = IF q = s THEN Verdict(sup[s], FALSE) ELSE sup[q]
    BY <2>1, <2>2 DEF ReportToolFailure
  <2>5. \A q \in Servers : Sound(sup'[q])
    BY <2>2, <2>3, <2>4
  <2>6. sup' = [q \in Servers |-> sup'[q]]
    BY <2>1, <2>2 DEF ReportToolFailure
  <2>7. SupOK' /\ Late
    BY <2>1, <2>4, <2>5, <2>6, SupSet DEF Late, ReportToolFailure
  <2>8. QED
    BY <2>1, <2>7 DEF Inv, RestOK, ReportToolFailure
<1>3. CASE Save
  <2>1. \A d : Merged(NoRows, d) \in Rows
    BY MergedType, DrawnType DEF Inv
  <2>2. rows' \in Rows /\ ids' \in [Servers -> 0 .. 2]
    BY <1>3, <2>1, DrawnType DEF Save, Inv
  <2>3. QED
    BY <1>3, <2>2, SupFrame DEF Save, Inv, RestOK
<1>4. CASE RemoveRepo
  BY <1>4, SupEmptied DEF RemoveRepo, Inv, RestOK
<1>5. CASE EditConfig
  BY <1>5, SupFrame DEF EditConfig, Inv, RestOK
<1>6. CASE AppRestart
  <2>1. call' \in [Calls -> Call]
    BY <1>6, DrawnType DEF Inv, AppRestart, NoCall, Call, Steps
  <2>2. ids' \in [Servers -> 0 .. 2]
    BY <1>6 DEF AppRestart
  <2>3. QED
    BY <1>6, <2>1, <2>2, SupEmptied DEF AppRestart, Inv, RestOK
<1>7. QED
  BY <1>1, <1>2, <1>3, <1>4, <1>5, <1>6

-----------------------------------------------------------------------------
\* The theorems.

\* A repository no command has touched.
LEMMA InitOK ==
    ASSUME Init
    PROVE  Inv
<1>1. NoRows \in Rows
  BY DEF NoRows, Rows, RowStates
<1>2. NoCall \in Call
  BY <1>1 DEF NoCall, Call, Steps
<1>3. SupOK
  BY NoServerSound DEF Init, SupOK, Sound
<1>4. QED
  BY <1>1, <1>2, <1>3 DEF Init, Inv, RestOK

\* Every step keeps the invariant and connects only what is enabled.
LEMMA StepOK ==
    ASSUME Inv, [Next]_vars
    PROVE  Inv' /\ Late
<1>1. CASE Next
  <2>1. CASE \E c \in Calls : Ensure(c)
    BY <2>1, EnsureRows, EnsureInitStep, ValidateSteps DEF Ensure
  <2>2. CASE \E c \in Calls : \/ \E s \in Servers : ReconnectRead(c, s)
                              \/ ReconnectMark(c) \/ ReconnectApply(c)
    BY <2>2, ReconnectSteps
  <2>3. CASE \E c \in Calls : \/ \E s \in Servers : \E on \in BOOLEAN : SetRow(c, s, on)
                              \/ SetListed(c) \/ SetFails(c) \/ SetSupervised(c)
    BY <2>3, SetSteps
  <2>4. CASE \/ \E s \in Servers : DeleteRow(s) \/ ReportToolFailure(s)
             \/ Save \/ RemoveRepo \/ EditConfig \/ AppRestart
    BY <2>4, OtherSteps
  <2>5. QED
    BY <1>1, <2>1, <2>2, <2>3, <2>4 DEF Next
<1>2. CASE UNCHANGED vars
  BY <1>2, SupFrame DEF vars, Inv, RestOK
<1>3. QED
  BY <1>1, <1>2

\* The inductive invariant holds for any servers and any overlap of commands.
THEOREM Invariance == Spec => []Inv
<1>1. Init => Inv
  BY InitOK
<1>2. Inv /\ [Next]_vars => Inv'
  BY StepOK
<1>3. QED
  BY <1>1, <1>2, PTL DEF Spec

\* Every variable keeps its type and a dropped server leaves nothing behind.
THEOREM TypeCorrect == Spec => []TypeOK
<1>1. Inv => TypeOK
  BY DEF Inv, SupOK, Sound, RestOK, TypeOK, Known
<1>2. QED
  BY <1>1, Invariance, PTL

\* Status, failure count and error of every server agree, whatever overlaps.
THEOREM StatusAgrees == Spec => []ErrorsMatchState
<1>1. Inv => ErrorsMatchState
  BY Zenon DEF Inv, SupOK, Sound, ErrorsMatchState
<1>2. QED
  BY <1>1, Invariance, PTL

-----------------------------------------------------------------------------
\* Late checks and failure counts.

\* No step counts a failure against a server that is neither enabled nor connected.
Uncounted(s) ==
    ~sup[s].enabled /\ sup[s].st # "connected" => sup'[s].fails <= sup[s].fails

\* It is enough that the record, or its count, is the old one or reset.
LEMMA KeptUncounted ==
    ASSUME Inv, NEW s \in Servers,
           sup'[s].fails = 0 \/ sup'[s].fails = sup[s].fails
    PROVE  Uncounted(s)
BY DEF Uncounted, Inv, SupOK, Server

\* A verdict reaches no server that is not enabled.
LEMMA AppliedUncounted ==
    ASSUME Inv, NEW S, NEW good, sup' = Applied(S, good), NEW s \in Servers
    PROVE  Uncounted(s)
<1>1. sup[s].enabled \/ sup'[s] = sup[s]
  BY DEF Applied
<1>2. QED
  BY <1>1, KeptUncounted DEF Uncounted

\* Every step leaves the count of such a server, or resets it.
LEMMA StepUncounted ==
    ASSUME Inv, [Next]_vars, NEW s \in Servers
    PROVE  Uncounted(s)
<1>1. sup[s] \in Server
  BY DEF Inv, SupOK
<1>2. ASSUME NEW c \in Calls, EnsureInit(c)
      PROVE  Uncounted(s)
  <2>1. sup'[s].fails = 0 \/ sup'[s].fails = sup[s].fails
    BY <1>1, <1>2 DEF EnsureInit, Supervised, Server, NoServer, Added
  <2>2. QED
    BY <2>1, KeptUncounted
<1>3. ASSUME NEW c \in Calls, ReconnectMark(c)
      PROVE  Uncounted(s)
  <2>1. sup'[s].fails = sup[s].fails
    BY <1>1, <1>3 DEF ReconnectMark, Server
  <2>2. QED
    BY <2>1, KeptUncounted
<1>4. ASSUME NEW c \in Calls, SetSupervised(c)
      PROVE  Uncounted(s)
  <2>1. sup'[s].fails = 0 \/ sup'[s].fails = sup[s].fails
    BY <1>1, <1>4 DEF SetSupervised, Switched, Server
  <2>2. QED
    BY <2>1, KeptUncounted
<1>5. ASSUME NEW c \in Calls, ValidateApply(c) \/ ReconnectApply(c)
      PROVE  Uncounted(s)
  BY <1>5, AppliedUncounted DEF ValidateApply, ReconnectApply
<1>6. ASSUME NEW q \in Servers, ReportToolFailure(q)
      PROVE  Uncounted(s)
  <2>1. sup[q].st = "connected" /\ (q # s => sup'[s] = sup[s])
    BY <1>6 DEF ReportToolFailure, Inv, SupOK
  <2>2. QED
    BY <2>1, KeptUncounted DEF Uncounted
<1>7. ASSUME RemoveRepo \/ AppRestart
      PROVE  Uncounted(s)
  <2>1. sup'[s].fails = 0
    BY <1>7 DEF RemoveRepo, AppRestart, NoServer
  <2>2. QED
    BY <2>1, KeptUncounted
<1>8. CASE UNCHANGED sup
  BY <1>8, KeptUncounted
<1>9. CASE Next
  <2>1. CASE \E c \in Calls : Ensure(c)
    BY <2>1, <1>2, <1>5, <1>8 DEF Ensure, EnsureList, EnsureReplace, EnsureReload, ValidateRead
  <2>2. CASE \E c \in Calls : \/ \E q \in Servers : ReconnectRead(c, q)
                              \/ ReconnectMark(c) \/ ReconnectApply(c)
    BY <2>2, <1>3, <1>5, <1>8 DEF ReconnectRead
  <2>3. CASE \E c \in Calls : \/ \E q \in Servers : \E on \in BOOLEAN : SetRow(c, q, on)
                              \/ SetListed(c) \/ SetFails(c) \/ SetSupervised(c)
    BY <2>3, <1>4, <1>8 DEF SetRow, SetListed, SetFails
  <2>4. CASE \/ \E q \in Servers : DeleteRow(q) \/ ReportToolFailure(q)
             \/ Save \/ RemoveRepo \/ EditConfig \/ AppRestart
    BY <2>4, <1>6, <1>7, <1>8 DEF DeleteRow, Save, EditConfig
  <2>5. QED
    BY <1>9, <2>1, <2>2, <2>3, <2>4 DEF Next
<1>10. QED
  BY <1>8, <1>9 DEF vars

\* A check that ends late neither connects a server that has been disabled or
\* dropped nor counts a failure against it.
THEOREM LateChecksIgnored == Spec => NoLateVerdict
<1> DEFINE Ignored == \A s \in Servers :
        ~sup[s].enabled /\ sup[s].st # "connected"
            => sup'[s].st # "connected" /\ sup'[s].fails <= sup[s].fails
<1>1. Inv /\ [Next]_vars => [Ignored]_vars
  BY StepOK, StepUncounted DEF Late, Uncounted
<1>2. QED
  BY <1>1, Invariance, PTL DEF Spec, NoLateVerdict
=============================================================================

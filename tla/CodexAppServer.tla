---------------------------- MODULE CodexAppServer ----------------------------
(***************************************************************************)
(* One Codex app-server session (src/src/agent/codex_app_server.rs): the    *)
(* JSON-RPC calls that start, steer, interrupt and compact a turn, the       *)
(* readers of the server's stdout and stderr, the exit watcher, and the pump  *)
(* that each turn's caller reads until its turn is over.                      *)
(*                                                                           *)
(* Every call is an async function that stops at each await: an action below *)
(* is what it does between two of them. The server is external. Events that   *)
(* only carry content to the screen are left out, except the text buffer.     *)
(***************************************************************************)
EXTENDS Naturals, Sequences, FiniteSets

CONSTANTS
    N,         \* bound: calls on the session, in the order they are made
    Extras,    \* bound: pairs of agent messages, questions and automatic compactions
    Faults,    \* bound: process exits, unreadable lines, expired credentials
    None

ASSUME CodexAssumption ==
    /\ N \in Nat \ {0} /\ Extras \in Nat /\ Faults \in Nat
    /\ None \notin Nat \cup (Nat \X Nat)   \* neither a call nor an item

Calls == 1 .. N
Ops == {"turn", "compact", "steer", "interrupt"}
Stages == {"thread", "main"}

VARIABLES
    call,        \* the calls
    pending,     \* requests that wait for a response
    thread,      \* is thread_id set
    active,      \* active_turn_id
    manual,      \* manual_compaction_in_flight
    expired,     \* auth_expired
    buf,         \* turn_output: the text of one agent message
    approvals,   \* server requests that wait for the user
    reader,      \* stdout reader and exit watcher still at work
    toSrv, out,  \* stdin and stdout of the server
    srv,         \* the server
    left         \* faults still to come

client == <<call, pending, thread, active, manual, expired, buf, approvals, reader>>
vars == <<client, toSrv, out, srv, left>>

Answers == {"none", "ok", "err", "auth", "closed"}

(* over: the first terminal event in the call's receiver, the turn whose      *)
(* Result it is or Exit. stopped, late: history, the turn was stopped and the *)
(* request was registered after pending had been failed for good.             *)
Exit == 0   \* ProcessExited, in place of the turn of a Result

Call ==
    [op: Ops \cup {"none"},
     pc: {"new", "ready", "write", "wait", "pump", "kill",
          "done", "failed"},
     stage: Stages, ans: Answers, target: Calls \cup {None},
     sub: BOOLEAN, over: Calls \cup {None, Exit}, stopped: BOOLEAN, late: BOOLEAN]

NewCall ==
    [op |-> "none", pc |-> "new", stage |-> "thread", ans |-> "none",
     target |-> None, sub |-> FALSE, over |-> None, stopped |-> FALSE,
     late |-> FALSE]

Msg(k, c, x) == [k |-> k, c |-> c, x |-> x]
Dead == [alive |-> FALSE, auth |-> TRUE, turns |-> <<>>, ask |-> FALSE, extras |-> 0]
NoText == [item |-> None, text |-> {}]

Init ==
    /\ call = [c \in Calls |-> NewCall]
    /\ pending = {}
    /\ thread = FALSE /\ active = None /\ manual = FALSE /\ expired = FALSE
    /\ buf = NoText
    /\ approvals = {}
    /\ reader = [stdout |-> TRUE, exit |-> TRUE]
    /\ toSrv = <<>> /\ out = <<>>
    /\ srv = [Dead EXCEPT !.alive = TRUE]
    /\ left = Faults

-----------------------------------------------------------------------------
(* Helper operators. *)

At(c, pc) == call[c].pc = pc
Goto(c, pc) == call' = [call EXCEPT ![c].pc = pc]
IsTurn(c) == call[c].op \in {"turn", "compact"}
Over(c) == call[c].pc \in {"new", "done", "failed"}

Ended(c, pc) == [NewCall EXCEPT !.op = call[c].op, !.pc = pc, !.stopped = call[c].stopped]

(* fail_pending_requests *)
Closed(cs) ==
    [c \in Calls |-> IF \E s \in Stages : <<c, s>> \in pending
                     THEN [cs[c] EXCEPT !.ans = "closed"] ELSE cs[c]]

(* event_tx.send of a terminal event: a receiver keeps the first one. *)
Publish(cs, e) ==
    [c \in Calls |-> IF cs[c].sub /\ cs[c].over = None
                     THEN [cs[c] EXCEPT !.over = e] ELSE cs[c]]

UnchangedServer == UNCHANGED <<toSrv, out, srv, left>>

-----------------------------------------------------------------------------
(* The calls. *)

(* send_chat_message sends when no turn of the tab is active; Stop ends that *)
(* before the turn itself is over. A session whose turn failed is dropped.    *)
Sendable ==
    \A d \in Calls :
        IsTurn(d) => At(d, "done") \/ (call[d].stopped /\ At(d, "pump"))

(* is_auth_expired, then the receiver is made, before anything is asked;      *)
(* ensure_thread asks for a thread first if there is none.                    *)
BeginTurn(c, op) ==
    /\ op \in {"turn", "compact"} /\ Sendable
    /\ call' = [call EXCEPT ![c] =
                    IF expired THEN [NewCall EXCEPT !.op = op, !.pc = "failed"]
                    ELSE [NewCall EXCEPT !.op = op, !.pc = "ready", !.sub = TRUE,
                                       !.stage = IF thread THEN "main" ELSE "thread"]]

(* Steering and Stop act on the running turn; Stop first clears active_pid    *)
(* and denies what waits for the user.                                        *)
BeginOn(c, op, d) ==
    /\ op \in {"steer", "interrupt"}
    /\ IsTurn(d) /\ At(d, "pump") /\ ~call[d].stopped
    /\ call' = [call EXCEPT ![c] = [NewCall EXCEPT !.op = op, !.pc = "ready",
                                                    !.stage = "main"],
                            ![d].stopped = op = "interrupt"]

Begin(c) ==
    /\ At(c, "new") /\ \A d \in Calls : d < c => ~At(d, "new")
    /\ \/ /\ \/ \E op \in Ops : BeginTurn(c, op)
             \/ \E d \in Calls : BeginOn(c, "steer", d)
          /\ UNCHANGED <<approvals, toSrv>>
       \/ /\ \E d \in Calls : BeginOn(c, "interrupt", d)
          /\ approvals' = {}
          /\ toSrv' = IF approvals # {} /\ srv.alive
                      THEN Append(toSrv, Msg("reply", None, None)) ELSE toSrv
    /\ UNCHANGED <<pending, thread, active, manual, expired, buf, reader, out, srv, left>>

(* Up to the registration of the waiter in send_request, which comes before   *)
(* the line is written. Steer and interrupt need the active turn; a Stop that *)
(* has none kills the process instead.                                        *)
Register(c) ==
    /\ At(c, "ready")
    /\ IF IsTurn(c) \/ active # None
       THEN /\ pending' = pending \cup {<<c, call[c].stage>>}
            /\ call' = [call EXCEPT ![c].pc = "write", ![c].ans = "none",
                                    ![c].target = IF IsTurn(c) THEN None ELSE active,
                                    ![c].late = expired]
       ELSE /\ call' = [call EXCEPT ![c] =
                          Ended(c, IF call[c].op = "steer" THEN "failed" ELSE "kill")]
            /\ UNCHANGED pending
    /\ manual' = (manual \/ (call[c].op = "compact" /\ call[c].stage = "main"))
    /\ UNCHANGED <<thread, active, expired, buf, approvals, reader>>
    /\ UnchangedServer

Request(c) ==
    IF call[c].stage = "thread" THEN Msg("thread", c, None)
    ELSE Msg(call[c].op, c, call[c].target)

GivesUp(c) ==
    /\ call' = [call EXCEPT ![c] =
                    Ended(c, IF call[c].op = "interrupt" THEN "kill" ELSE "failed")]
    /\ manual' = IF call[c].op = "compact" /\ call[c].stage = "main" THEN FALSE ELSE manual

(* Mutant: a failed write leaves its waiter registered. *)
WriteLeaks(c) ==
    /\ At(c, "write")
    /\ \/ /\ srv.alive
          /\ toSrv' = Append(toSrv, Request(c))
          /\ Goto(c, "wait")
          /\ UNCHANGED <<pending, manual>>
       \/ /\ ~srv.alive
          /\ GivesUp(c)
          /\ UNCHANGED <<pending, toSrv>>
    /\ UNCHANGED <<thread, active, expired, buf, approvals, reader, out, srv, left>>

Write(c) ==
    /\ At(c, "write")
    /\ \/ /\ srv.alive
          /\ toSrv' = Append(toSrv, Request(c))
          /\ Goto(c, "wait")
          /\ UNCHANGED <<pending, manual>>
       \/ /\ ~srv.alive
          /\ pending' = pending \ {<<c, call[c].stage>>}
          /\ GivesUp(c)
          /\ UNCHANGED toSrv
    /\ UNCHANGED <<thread, active, expired, buf, approvals, reader, out, srv, left>>

(* The response: what follows it in the call, up to the next await. *)
Answered(c) ==
    /\ At(c, "wait") /\ call[c].ans = "ok"
    /\ \/ /\ call[c].stage = "thread"
          /\ thread' = TRUE /\ UNCHANGED active
          /\ call' = [call EXCEPT ![c].pc = "ready", ![c].stage = "main"]
       \/ /\ call[c].stage = "main" /\ call[c].op = "turn"
          /\ active' = c /\ Goto(c, "pump") /\ UNCHANGED thread
       \/ /\ call[c].stage = "main" /\ call[c].op = "compact"
          /\ Goto(c, "pump") /\ UNCHANGED <<thread, active>>
       \/ /\ call[c].stage = "main" /\ call[c].op = "steer"
          /\ call' = [call EXCEPT ![c] = Ended(c, "done")] /\ UNCHANGED <<thread, active>>
       \/ /\ call[c].stage = "main" /\ call[c].op = "interrupt"
          /\ active' = None
          /\ call' = [call EXCEPT ![c] = Ended(c, "done")] /\ UNCHANGED thread
    /\ UNCHANGED <<pending, manual, expired, buf, approvals, reader>>
    /\ UnchangedServer

Refused(c) ==
    /\ At(c, "wait") /\ call[c].ans \in {"err", "auth", "closed"}
    /\ expired' = (expired \/ call[c].ans = "auth")
    /\ GivesUp(c)
    /\ UNCHANGED <<pending, thread, active, buf, approvals, reader>>
    /\ UnchangedServer

(* stop_agent falls back to a kill. *)
KillProcess(c) ==
    /\ At(c, "kill")
    /\ call' = [call EXCEPT ![c] = Ended(c, "done")]
    /\ srv' = Dead /\ toSrv' = <<>>
    /\ UNCHANGED <<pending, thread, active, manual, expired, buf, approvals, reader,
                   out, left>>

(* The pump hands the terminal event on and stops; after ProcessExited        *)
(* send_chat_message drops the session.                                       *)
PumpEnds(c) ==
    /\ At(c, "pump") /\ call[c].over # None
    /\ call' = [call EXCEPT ![c] =
                    Ended(c, IF call[c].over = Exit THEN "failed" ELSE "done")]
    /\ UNCHANGED <<pending, thread, active, manual, expired, buf, approvals, reader>>
    /\ UnchangedServer

(* send_control_response *)
AnswerRequest(t) ==
    /\ t \in approvals /\ srv.alive
    /\ approvals' = approvals \ {t}
    /\ toSrv' = Append(toSrv, Msg("reply", None, None))
    /\ UNCHANGED <<call, pending, thread, active, manual, expired, buf, reader, out,
                   srv, left>>

-----------------------------------------------------------------------------
(* The stdout reader: route_app_server_message on the next line. *)

(* Mutant: a response takes every waiter out of the table. *)
RouteTakesAll(m) ==
    /\ m.k = "rsp"
    /\ pending' = {}
    /\ call' = IF <<m.c, m.x[1]>> \in pending
               THEN [call EXCEPT ![m.c].ans = m.x[2]] ELSE call
    /\ UNCHANGED <<active, manual, buf, approvals, toSrv>>

RouteResponse(m) ==
    /\ m.k = "rsp"
    /\ LET waiting == <<m.c, m.x[1]>> \in pending
       IN /\ pending' = pending \ {<<m.c, m.x[1]>>}
          /\ call' = IF waiting THEN [call EXCEPT ![m.c].ans = m.x[2]] ELSE call
    /\ UNCHANGED <<active, manual, buf, approvals, toSrv>>

(* update_turn_output_buffer: another item's delta flushes what there is, and *)
(* so does the item/completed of the buffered item.                           *)
RouteDelta(m) ==
    /\ m.k = "delta"
    /\ buf' = [item |-> m.x,
               text |-> {m.x} \cup IF buf.item \notin {None, m.x} THEN {} ELSE buf.text]
    /\ UNCHANGED <<call, pending, active, manual, approvals, toSrv>>

RouteItemCompleted(m) ==
    /\ m.k = "item"
    /\ buf' = IF buf.item = m.x THEN NoText ELSE buf
    /\ UNCHANGED <<call, pending, active, manual, approvals, toSrv>>

(* Mutant: the end of a turn does not drain the buffer. *)
RouteTurnEndKeepsText(m) ==
    /\ m.k = "done"
    /\ active' = None /\ manual' = FALSE
    /\ call' = Publish(call, m.c)
    /\ UNCHANGED <<pending, buf, approvals, toSrv>>

(* turn/completed and turn/failed, whichever turn they are about. *)
RouteTurnEnd(m) ==
    /\ m.k = "done"
    /\ active' = None /\ manual' = FALSE /\ buf' = NoText
    /\ call' = Publish(call, m.c)
    /\ UNCHANGED <<pending, approvals, toSrv>>

(* Mutants: every compaction is a Result; every compaction ends the turn. *)
RouteCompactedResult(m) ==
    /\ m.k = "compacted"
    /\ manual' = FALSE
    /\ call' = Publish(call, m.c)
    /\ UNCHANGED <<pending, active, buf, approvals, toSrv>>

RouteCompactedClears(m) ==
    /\ m.k = "compacted"
    /\ manual' = FALSE /\ active' = None
    /\ call' = IF manual THEN Publish(call, m.c) ELSE call
    /\ UNCHANGED <<pending, buf, approvals, toSrv>>

(* A contextCompaction item is a Result only for an explicit compaction. *)
RouteCompacted(m) ==
    /\ m.k = "compacted"
    /\ manual' = FALSE
    /\ call' = IF manual THEN Publish(call, m.c) ELSE call
    /\ UNCHANGED <<pending, active, buf, approvals, toSrv>>

(* A request of the server goes to the user if a pump is there to show it;   *)
(* one the client does not know is answered with an error.                    *)
RouteRequest(m) ==
    /\ m.k \in {"ask", "odd"}
    /\ approvals' = IF m.k = "ask" /\ \E c \in Calls : call[c].sub /\ call[c].over = None
                    THEN approvals \cup {m.c} ELSE approvals
    /\ toSrv' = IF m.k = "odd" /\ srv.alive
                THEN Append(toSrv, Msg("reply", None, None)) ELSE toSrv
    /\ UNCHANGED <<call, pending, active, manual, buf>>

Route ==
    /\ reader.stdout /\ out # <<>>
    /\ out' = Tail(out)
    /\ LET m == Head(out)
       IN \/ RouteResponse(m) \/ RouteDelta(m) \/ RouteItemCompleted(m)
          \/ RouteTurnEnd(m) \/ RouteCompacted(m) \/ RouteRequest(m)
    /\ UNCHANGED <<thread, expired, reader, srv, left>>

(* End of file, or a line that cannot be read: the loop ends for good. *)
ReaderStops ==
    /\ reader.stdout
    /\ \/ ~srv.alive /\ out = <<>> /\ UNCHANGED left
       \/ left > 0 /\ left' = left - 1
    /\ reader' = [reader EXCEPT !.stdout = FALSE]
    /\ out' = <<>>
    /\ pending' = {} /\ call' = Closed(call)
    /\ UNCHANGED <<thread, active, manual, expired, buf, approvals, toSrv, srv>>

(* Mutant: the flag is set and the requests in flight are left to wait. *)
StderrFlagOnly ==
    /\ ~srv.auth /\ ~expired
    /\ expired' = TRUE
    /\ UNCHANGED <<call, pending, thread, active, manual, buf, approvals, reader>>
    /\ UnchangedServer

(* The stderr reader: the first line that tells of dead credentials. *)
StderrAuth ==
    /\ ~srv.auth /\ ~expired
    /\ expired' = TRUE
    /\ pending' = {} /\ call' = Closed(call)
    /\ UNCHANGED <<thread, active, manual, buf, approvals, reader>>
    /\ UnchangedServer

(* spawn_exit_watcher *)
ExitWatcher ==
    /\ ~srv.alive /\ reader.exit
    /\ reader' = [reader EXCEPT !.exit = FALSE]
    /\ pending' = {}
    /\ call' = Publish(Closed(call), Exit)
    /\ UNCHANGED <<thread, active, manual, expired, buf, approvals>>
    /\ UnchangedServer

-----------------------------------------------------------------------------
(* The server. It runs its turns one after another. *)

Running == IF srv.turns = <<>> THEN None ELSE Head(srv.turns)
Say(ms) == out' = IF reader.stdout THEN out \o ms ELSE out
Response(m, a) == Msg("rsp", m.c, <<IF m.k = "thread" THEN "thread" ELSE "main", a>>)
EndTurn == [srv EXCEPT !.turns = Tail(@), !.ask = FALSE]

ServerReads ==
    /\ srv.alive /\ toSrv # <<>>
    /\ toSrv' = Tail(toSrv)
    /\ LET m == Head(toSrv)
       IN \/ m.k = "thread" /\ Say(<<Response(m, "ok")>>) /\ UNCHANGED srv
          \/ /\ m.k \in {"turn", "compact"} /\ srv.auth
             /\ Say(<<Response(m, "ok")>>)
             /\ srv' = [srv EXCEPT !.turns = Append(@, m.c)]
          \/ /\ m.k \in {"turn", "compact"} /\ ~srv.auth
             /\ (Say(<<Response(m, "auth")>>) \/ UNCHANGED out)
             /\ UNCHANGED srv
          \/ /\ m.k \in {"steer", "interrupt"} /\ m.x # Running
             /\ Say(<<Response(m, "err")>>) /\ UNCHANGED srv
          \/ m.k = "steer" /\ m.x = Running /\ Say(<<Response(m, "ok")>>) /\ UNCHANGED srv
          \/ /\ m.k = "interrupt" /\ m.x = Running
             /\ Say(<<Response(m, "ok"), Msg("done", m.x, None)>>)
             /\ srv' = EndTurn
          \/ m.k = "reply" /\ srv' = [srv EXCEPT !.ask = FALSE] /\ UNCHANGED out
    /\ UNCHANGED <<client, left>>

Working == srv.alive /\ srv.auth /\ Running # None /\ ~srv.ask

(* Text, a question, or an automatic compaction in a turn. *)
ServerTalks ==
    /\ Working /\ call[Running].op = "turn"
    /\ srv.extras < Extras
    /\ \/ /\ LET i == <<Running, 2 * srv.extras + 1>>  j == <<Running, 2 * srv.extras + 2>>
             IN \/ Say(<<Msg("delta", Running, i), Msg("item", Running, i)>>)
                \/ Say(<<Msg("delta", Running, i), Msg("delta", Running, j)>>)
          /\ srv' = [srv EXCEPT !.extras = @ + 1]
       \/ \E k \in {"ask", "odd", "compacted"} :
             /\ Say(<<Msg(k, Running, None)>>)
             /\ srv' = [srv EXCEPT !.extras = @ + 1, !.ask = k # "compacted"]
    /\ UNCHANGED <<client, toSrv, left>>

ServerFinishes ==
    /\ Working
    /\ Say(IF call[Running].op = "turn" THEN <<Msg("done", Running, None)>>
           ELSE <<Msg("compacted", Running, None), Msg("done", Running, None)>>)
    /\ srv' = EndTurn
    /\ UNCHANGED <<client, toSrv, left>>

Fault ==
    /\ left > 0 /\ left' = left - 1
    /\ \/ srv.alive /\ srv' = Dead /\ toSrv' = <<>>
       \/ srv.alive /\ srv.auth /\ srv' = [srv EXCEPT !.auth = FALSE] /\ UNCHANGED toSrv
    /\ UNCHANGED <<client, out>>

-----------------------------------------------------------------------------
ClientStep(c) ==
    \/ Register(c) \/ Write(c) \/ Answered(c)
    \/ Refused(c) \/ KillProcess(c) \/ PumpEnds(c)

Next ==
    \/ \E c \in Calls : Begin(c) \/ ClientStep(c) \/ AnswerRequest(c)
    \/ Route \/ ReaderStops \/ StderrAuth \/ ExitWatcher
    \/ ServerReads \/ ServerTalks \/ ServerFinishes \/ Fault

Spec == Init /\ [][Next]_vars

(* Tasks of the runtime and the server make progress; nobody is bound to make *)
(* a call, to answer a question or to fail.                                   *)
FairSpec ==
    /\ Spec
    /\ \A c \in Calls : WF_vars(ClientStep(c))
    /\ WF_vars(Route) /\ WF_vars(ReaderStops /\ left' = left)
    /\ WF_vars(StderrAuth) /\ WF_vars(ExitWatcher)
    /\ WF_vars(ServerReads) /\ WF_vars(ServerFinishes)

-----------------------------------------------------------------------------
(* The shape of the state; a registered request is one whose call has sent or *)
(* is about to send it.                                                       *)
TypeOK ==
    /\ call \in [Calls -> Call]
    /\ pending \subseteq Calls \X Stages
    /\ \A p \in pending : call[p[1]].pc \in {"write", "wait"} /\ call[p[1]].stage = p[2]
    /\ {thread, manual, expired} \subseteq BOOLEAN
    /\ active \in Calls \cup {None}
    /\ approvals \subseteq Calls
    /\ buf.text \subseteq Calls \X (1 .. 2 * Extras)

(* send_request, route_app_server_message, fail_pending_requests: a call that *)
(* waits can be woken, it has its answer or its request is still registered.  *)
WaiterIsRegistered ==
    \A c \in Calls :
        At(c, "wait") /\ call[c].ans = "none" => <<c, call[c].stage>> \in pending

(* A turn of the session was stopped, or was a compaction, by call c. *)
Disturbed(c) == \E d \in 1 .. c : call[d].stopped \/ call[d].op = "compact"

(* In a session that was neither compacted nor stopped, no pump is ended by   *)
(* another turn's Result.                                                     *)
ResultsAreNotStray ==
    \A c \in Calls : call[c].over \in Calls \ {c} => Disturbed(c)

(* update_turn_output_buffer, drain_turn_output_buffer: the texts of two        *)
(* messages never run together in the buffer, and when the Result of a turn is   *)
(* out, so is its text (with the turn gone and its end routed, nothing of it is   *)
(* left).                                                                        *)
TextIsWhole ==
    /\ Cardinality(buf.text) <= 1
    /\ srv.alive /\ reader.stdout => \A p \in buf.text :
        \/ \E i \in DOMAIN srv.turns : srv.turns[i] = p[1]
        \/ \E i \in DOMAIN out : out[i].k = "done" /\ out[i].c = p[1]

(* In such a session Stop and steering find the turn that is running. *)
StopFindsTurn ==
    \A c \in Calls :
        /\ At(c, "pump") /\ call[c].over = None /\ Running = c
        /\ ~Disturbed(N)
        => active = c

(* Every call is over in the end, unless the user owes an answer, or did not  *)
(* see the question in a disturbed session; the request was registered after  *)
(* the credentials were found dead; they died under a running turn; or the    *)
(* reader gave up while the process lives.                                    *)
Settles ==
    \A c \in Calls :
        call[c].op # "none" ~>
            \/ Over(c)
            \/ approvals # {}
            \/ srv.ask /\ Disturbed(N)
            \/ call[c].late
            \/ ~reader.stdout /\ srv.alive
            \/ ~srv.auth /\ At(c, "pump")
=============================================================================

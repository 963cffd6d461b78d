------------------------- MODULE CodexAppServerProofs -------------------------
(***************************************************************************)
(* Proofs about CodexAppServer, for every number of calls, of things the     *)
(* server says and of faults: a call that waits can be woken, the texts of   *)
(* two messages never run together, and in a session that is neither stopped *)
(* nor compacted a turn gets its own Result and Stop finds it.                *)
(***************************************************************************)
EXTENDS CodexAppServer, TLAPS, FiniteSetTheorems

(***************************************************************************)
(* The inductive invariant.                                                 *)
(***************************************************************************)

Items == Calls \X (1 .. 2 * Extras)

(* The lines on the server's stdin: requests of the calls, which name a turn  *)
(* when they steer or interrupt one, and answers to the server's questions.   *)
Inbound ==
    {m \in [k: Ops \cup {"thread", "reply"}, c: Calls \cup {None}, x: Calls \cup {None}] :
        /\ m.k # "reply" => m.c \in Calls
        /\ m.k \in {"steer", "interrupt"} => m.x \in Calls}

(* The lines on its stdout: responses, text, and the other notifications.     *)
Responses == [k: {"rsp"}, c: Calls, x: Stages \X {"ok", "err", "auth"}]
Texts == {m \in [k: {"delta", "item"}, c: Calls, x: Items] : m.x[1] = m.c}
Notices == [k: {"done", "compacted", "ask", "odd"}, c: Calls, x: {None}]
Outbound == Responses \cup Texts \cup Notices

Server == [alive: BOOLEAN, auth: BOOLEAN, turns: Seq(Calls), ask: BOOLEAN,
           extras: 0 .. Extras]

Buffer == [item: Items \cup {None}, text: SUBSET Items]

Types ==
    /\ call \in [Calls -> Call]
    /\ pending \subseteq Calls \X Stages
    /\ thread \in BOOLEAN /\ manual \in BOOLEAN /\ expired \in BOOLEAN
    /\ active \in Calls \cup {None}
    /\ approvals \subseteq Calls
    /\ buf \in Buffer
    /\ reader \in [stdout: BOOLEAN, exit: BOOLEAN]
    /\ toSrv \in Seq(Inbound)
    /\ out \in Seq(Outbound)
    /\ srv \in Server
    /\ left \in 0 .. Faults

(* How the fields of a call hang together. *)
CallShape(c) ==
    /\ At(c, "new") <=> call[c].op = "none"
    /\ call[c].stopped => IsTurn(c)
    /\ call[c].sub => IsTurn(c) /\ call[c].pc \in {"ready", "write", "wait", "pump"}
    /\ At(c, "pump") => call[c].sub
    /\ At(c, "kill") => ~IsTurn(c)
    /\ call[c].over # None => call[c].sub
    /\ call[c].pc \in {"ready", "write", "wait"} /\ ~IsTurn(c) => call[c].stage = "main"
    /\ call[c].pc \in {"ready", "write", "wait"} /\ IsTurn(c) => call[c].sub
    /\ call[c].pc \in {"write", "wait"} /\ ~IsTurn(c) => call[c].target \in Calls

(* A waiter is in the table exactly while its call waits without an answer.   *)
Registered ==
    /\ \A p \in pending : /\ call[p[1]].pc \in {"write", "wait"}
                          /\ call[p[1]].stage = p[2]
                          /\ call[p[1]].ans = "none"
    /\ \A c \in Calls : call[c].pc \in {"write", "wait"} /\ call[c].ans = "none"
                            => <<c, call[c].stage>> \in pending

Shape == \A c \in Calls : CallShape(c)

(* Calls begin in order, and a turn begins after every other is over.         *)
InOrder ==
    \A c, d \in Calls : d < c =>
        /\ At(d, "new") => At(c, "new")
        /\ IsTurn(c) /\ IsTurn(d) => At(d, "done") \/ call[d].stopped

(* A disturbance leaves its trace in a call. *)
Traces ==
    /\ manual => \E d \in Calls : call[d].op = "compact"
    /\ \A c \in Calls : call[c].op = "interrupt" => \E d \in Calls : call[d].stopped

(* Where the end of a turn still is: in a request that was not read, in the    *)
(* server, or in a line that was not routed.                                  *)
Asks(i, d) == toSrv[i].k \in {"turn", "compact"} /\ toSrv[i].c = d
Ends(i, d) == out[i].k = "done" /\ out[i].c = d

Asked(d) == \E i \in DOMAIN toSrv : Asks(i, d)
Runs(d) == \E i \in DOMAIN srv.turns : srv.turns[i] = d
EndSaid(d) == \E i \in DOMAIN out : Ends(i, d)
Owed(d) == Asked(d) \/ Runs(d) \/ EndSaid(d)

(* It is in one place only. *)
AskedOnce(d) == \A i, j \in DOMAIN toSrv : Asks(i, d) /\ Asks(j, d) => i = j
RunsOnce(d) == \A i, j \in DOMAIN srv.turns : srv.turns[i] = d /\ srv.turns[j] = d => i = j
SaidOnce(d) == \A i, j \in DOMAIN out : Ends(i, d) /\ Ends(j, d) => i = j

OneEnd(d) ==
    /\ AskedOnce(d) /\ RunsOnce(d) /\ SaidOnce(d)
    /\ ~ (Asked(d) /\ Runs(d)) /\ ~ (Asked(d) /\ EndSaid(d)) /\ ~ (Runs(d) /\ EndSaid(d))

(* The request of the turn is written. *)
Sent(d) ==
    /\ IsTurn(d) /\ call[d].pc \in {"wait", "pump", "failed"}
    /\ At(d, "wait") => call[d].stage = "main"

Undisturbed == ~Disturbed(N)

(* A turn whose end is to come was asked for and does not have it yet; a pump  *)
(* gets the end of its own turn only.                                         *)
Waits(d) == Sent(d) /\ call[d].over \notin Calls

Quiet ==
    Undisturbed =>
        \A d \in Calls :
            /\ OneEnd(d)
            /\ Owed(d) => Waits(d)
            /\ call[d].over \in Calls => call[d].over = d /\ Sent(d)
            /\ At(d, "pump") /\ call[d].over = None => active = d

(* Text in the buffer, or on its way there, is of a turn whose end is to come. *)
EndAfter(i, d) == \E j \in DOMAIN out : j > i /\ Ends(j, d)

OneMessage == buf.text \subseteq {buf.item} \ {None}

TextHasEnd ==
    srv.alive /\ reader.stdout =>
        /\ \A p \in buf.text : Runs(p[1]) \/ EndSaid(p[1])
        /\ \A i \in DOMAIN out :
            out[i].k = "delta" => Runs(out[i].c) \/ EndAfter(i, out[i].c)

Inv == Types /\ Shape /\ Registered /\ InOrder /\ Traces /\ Quiet /\ OneMessage /\ TextHasEnd

-----------------------------------------------------------------------------
(* Lemmas about sequences. *)

(* Where the elements of the tail of a sequence come from. *)
LEMMA TailFacts ==
    ASSUME NEW S, NEW s \in Seq(S), s # <<>>
    PROVE  /\ Tail(s) \in Seq(S) /\ Head(s) \in S /\ Head(s) = s[1]
           /\ 1 \in DOMAIN s
           /\ \A i \in DOMAIN Tail(s) : i \in Nat /\ i + 1 \in DOMAIN s /\ Tail(s)[i] = s[i + 1]
           /\ \A i \in DOMAIN s : i # 1 => i \in Nat /\ i - 1 \in DOMAIN Tail(s)
                                             /\ Tail(s)[i - 1] = s[i]
BY SMT

(* And those of a sequence with one element more. *)
LEMMA AppendFacts ==
    ASSUME NEW S, NEW s \in Seq(S), NEW e \in S
    PROVE  /\ Append(s, e) \in Seq(S)
           /\ Len(s) + 1 \in DOMAIN Append(s, e) /\ Append(s, e)[Len(s) + 1] = e
           /\ \A i \in DOMAIN s : /\ i \in Nat /\ i < Len(s) + 1
                                  /\ i \in DOMAIN Append(s, e) /\ Append(s, e)[i] = s[i]
           /\ \A i \in DOMAIN Append(s, e) : i \in Nat /\ (i \in DOMAIN s \/ i = Len(s) + 1)
           /\ Len(s) \in Nat
           /\ Len(s) + 1 \notin DOMAIN s
BY SMT

LEMMA ConcatOne ==
    ASSUME NEW S, NEW s \in Seq(S), NEW e \in S
    PROVE  s \o <<e>> = Append(s, e)
BY SMT

LEMMA ConcatTwo ==
    ASSUME NEW S, NEW s \in Seq(S), NEW e \in S, NEW f \in S
    PROVE  s \o <<e, f>> = Append(Append(s, e), f)
BY SMT

-----------------------------------------------------------------------------
(* The lines are what the types say they are. *)

LEMMA NoneIsNoCall == None \notin Calls /\ Exit \notin Calls /\ None # Exit
                      /\ (\A c \in Calls : c \in Nat) /\ N \in Calls /\ Extras \in Nat
BY CodexAssumption DEF Calls, Exit

LEMMA RequestIn ==
    ASSUME Types, Shape, NEW c \in Calls, At(c, "write")
    PROVE  Request(c) \in Inbound
<1>1. call[c] \in Call BY DEF Types
<1>2. call[c].op \in Ops BY <1>1 DEF Shape, CallShape, At, Call
<1>3. CASE call[c].stage = "thread"
    BY <1>2, <1>3, NoneIsNoCall DEF Request, Msg, Inbound, Ops
<1>4. CASE call[c].stage # "thread"
    <2>1. call[c].target \in Calls \cup {None} BY <1>1 DEF Call
    <2>2. call[c].op \in {"steer", "interrupt"} => call[c].target \in Calls
        BY DEF Shape, CallShape, At, IsTurn
    <2>3. QED BY <1>2, <1>4, <2>1, <2>2 DEF Request, Msg, Inbound, Ops
<1>5. QED BY <1>3, <1>4

LEMMA ReplyIn == Msg("reply", None, None) \in Inbound
BY DEF Msg, Inbound

LEMMA ResponseOut ==
    ASSUME NEW m \in Inbound, m.k # "reply", NEW a \in {"ok", "err", "auth"}
    PROVE  Response(m, a) \in Outbound /\ Response(m, a).k = "rsp"
<1>1. m.c \in Calls BY DEF Inbound
<1>2. QED BY <1>1 DEF Response, Msg, Outbound, Responses, Stages

LEMMA NoticeOut ==
    ASSUME NEW c \in Calls, NEW k \in {"done", "compacted", "ask", "odd"}
    PROVE  Msg(k, c, None) \in Outbound
BY DEF Msg, Outbound, Notices

LEMMA TextOut ==
    ASSUME NEW c \in Calls, NEW n \in 1 .. 2 * Extras, NEW k \in {"delta", "item"}
    PROVE  Msg(k, c, <<c, n>>) \in Outbound
<1>1. <<c, n>> \in Items /\ <<c, n>>[1] = c BY DEF Items
<1>2. QED BY <1>1 DEF Msg, Outbound, Texts

LEMMA LineKinds ==
    ASSUME NEW m \in Outbound
    PROVE  /\ m.k \in {"rsp", "delta", "item", "done", "compacted", "ask", "odd"}
           /\ m.c \in Calls
           /\ m.k = "rsp" => m.x[1] \in Stages /\ m.x[2] \in {"ok", "err", "auth"}
           /\ m.k \in {"delta", "item"} => m.x \in Items /\ m.x[1] = m.c
BY DEF Outbound, Responses, Texts, Notices

(* What the server says reaches the reader if there is one. *)
LEMMA SaysOne ==
    ASSUME Types, NEW e \in Outbound, Say(<<e>>)
    PROVE  /\ out' \in Seq(Outbound)
           /\ reader.stdout => out' = Append(out, e)
           /\ ~reader.stdout => out' = out
BY ConcatOne, AppendFacts DEF Say, Types

LEMMA SaysTwo ==
    ASSUME Types, NEW e \in Outbound, NEW f \in Outbound, Say(<<e, f>>)
    PROVE  /\ out' \in Seq(Outbound)
           /\ reader.stdout => out' = Append(Append(out, e), f)
           /\ ~reader.stdout => out' = out
BY ConcatTwo, AppendFacts DEF Say, Types

LEMMA RunningIs ==
    ASSUME Types
    PROVE  /\ Running \in Calls \cup {None}
           /\ Running # None => /\ srv.turns # <<>> /\ Running = srv.turns[1] /\ Running \in Calls
                                /\ srv.turns \in Seq(Calls)
BY TailFacts, NoneIsNoCall DEF Types, Server, Running

(* Records of a call. *)
LEMMA Records ==
    ASSUME Types, NEW c \in Calls, NEW pc \in {"kill", "done", "failed"}
    PROVE  /\ NewCall \in Call /\ Ended(c, pc) \in Call
           /\ Ended(c, pc).op = call[c].op /\ Ended(c, pc).pc = pc
           /\ Ended(c, pc).stopped = call[c].stopped /\ ~Ended(c, pc).sub
           /\ Ended(c, pc).over = None /\ Ended(c, pc).ans = "none"
<1>1. NewCall \in Call BY DEF NewCall, Call, Stages, Answers, Ops
<1>2. call[c] \in Call BY DEF Types
<1>3. call[c].op \in Ops \cup {"none"} /\ call[c].stopped \in BOOLEAN BY <1>2 DEF Call
<1>4. QED BY <1>1, <1>3 DEF Ended, NewCall, Call, Stages, Answers, Ops

(* failing the waiters and publishing an event change one field only. *)
LEMMA ClosedIs ==
    ASSUME NEW cs \in [Calls -> Call]
    PROVE  /\ Closed(cs) \in [Calls -> Call]
           /\ \A c \in Calls :
                /\ Closed(cs)[c].op = cs[c].op /\ Closed(cs)[c].pc = cs[c].pc
                /\ Closed(cs)[c].stage = cs[c].stage /\ Closed(cs)[c].target = cs[c].target
                /\ Closed(cs)[c].sub = cs[c].sub /\ Closed(cs)[c].over = cs[c].over
                /\ Closed(cs)[c].stopped = cs[c].stopped
                /\ Closed(cs)[c].ans = IF \E s \in Stages : <<c, s>> \in pending
                                       THEN "closed" ELSE cs[c].ans
<1>1. \A c \in Calls : [cs[c] EXCEPT !.ans = "closed"] \in Call
    BY DEF Call, Answers
<1>2. \A c \in Calls : LET r == [cs[c] EXCEPT !.ans = "closed"] IN
        /\ r.op = cs[c].op /\ r.pc = cs[c].pc /\ r.stage = cs[c].stage
        /\ r.target = cs[c].target /\ r.sub = cs[c].sub /\ r.over = cs[c].over
        /\ r.stopped = cs[c].stopped /\ r.ans = "closed"
    BY DEF Call
<1>3. \A c \in Calls : Closed(cs)[c] = IF \E s \in Stages : <<c, s>> \in pending
                                       THEN [cs[c] EXCEPT !.ans = "closed"] ELSE cs[c]
    BY Zenon DEF Closed
<1>4. Closed(cs) \in [Calls -> Call]
    <2>1. Closed(cs) = [c \in Calls |-> Closed(cs)[c]] BY Zenon DEF Closed
    <2>2. \A c \in Calls : Closed(cs)[c] \in Call BY Zenon, <1>1, <1>3
    <2>3. QED BY Zenon, <2>1, <2>2
<1>5. ASSUME NEW c \in Calls, \E s \in Stages : <<c, s>> \in pending
      PROVE  Closed(cs)[c] = [cs[c] EXCEPT !.ans = "closed"]
    BY Zenon, <1>3, <1>5
<1>6. ASSUME NEW c \in Calls, ~ \E s \in Stages : <<c, s>> \in pending
      PROVE  Closed(cs)[c] = cs[c]
    BY Zenon, <1>3, <1>6
<1>7. QED BY <1>2, <1>4, <1>5, <1>6

LEMMA PublishIs ==
    ASSUME NEW cs \in [Calls -> Call], NEW e \in Calls \cup {Exit}
    PROVE  /\ Publish(cs, e) \in [Calls -> Call]
           /\ \A c \in Calls :
                /\ Publish(cs, e)[c].op = cs[c].op /\ Publish(cs, e)[c].pc = cs[c].pc
                /\ Publish(cs, e)[c].stage = cs[c].stage /\ Publish(cs, e)[c].target = cs[c].target
                /\ Publish(cs, e)[c].sub = cs[c].sub /\ Publish(cs, e)[c].ans = cs[c].ans
                /\ Publish(cs, e)[c].stopped = cs[c].stopped
                /\ Publish(cs, e)[c].over = IF cs[c].sub /\ cs[c].over = None THEN e
                                            ELSE cs[c].over
BY DEF Publish, Call

-----------------------------------------------------------------------------
(* What a step does to the ends that are to come, one place at a time. *)

(* Nothing new is asked for. *)
LEMMA AskedKeeps ==
    ASSUME Types,
           \/ toSrv' = toSrv \/ toSrv' = <<>> \/ (toSrv # <<>> /\ toSrv' = Tail(toSrv))
           \/ \E e \in Inbound : e.k \notin {"turn", "compact"} /\ toSrv' = Append(toSrv, e)
    PROVE  \A d \in Calls : (Asked(d)' => Asked(d)) /\ (AskedOnce(d) => AskedOnce(d)')
<1>0. toSrv \in Seq(Inbound) BY DEF Types
<1>1. CASE toSrv' = toSrv BY <1>1 DEF Asked, AskedOnce, Asks
<1>2. CASE toSrv' = <<>> BY <1>2 DEF Asked, AskedOnce, Asks
<1>3. CASE toSrv # <<>> /\ toSrv' = Tail(toSrv)
    <2>1. \A i \in DOMAIN toSrv' : i \in Nat /\ i + 1 \in DOMAIN toSrv /\ toSrv'[i] = toSrv[i + 1]
        BY <1>0, <1>3, TailFacts
    <2>2. QED BY <2>1 DEF Asked, AskedOnce, Asks
<1>4. ASSUME NEW e \in Inbound, e.k \notin {"turn", "compact"}, toSrv' = Append(toSrv, e)
      PROVE  \A d \in Calls : (Asked(d)' => Asked(d)) /\ (AskedOnce(d) => AskedOnce(d)')
    <2>1. /\ \A i \in DOMAIN toSrv : toSrv'[i] = toSrv[i]
          /\ \A i \in DOMAIN toSrv' : i \in DOMAIN toSrv \/ toSrv'[i] = e
        BY <1>0, <1>4, AppendFacts
    <2>2. QED BY <1>4, <2>1 DEF Asked, AskedOnce, Asks
<1>5. QED BY <1>1, <1>2, <1>3, <1>4

(* No turn is begun. *)
LEMMA RunsKeeps ==
    ASSUME Types,
           \/ srv'.turns = srv.turns \/ srv'.turns = <<>>
           \/ (srv.turns # <<>> /\ srv'.turns = Tail(srv.turns))
    PROVE  \A d \in Calls : (Runs(d)' => Runs(d)) /\ (RunsOnce(d) => RunsOnce(d)')
<1>0. srv.turns \in Seq(Calls) BY DEF Types, Server
<1>1. CASE srv'.turns = srv.turns BY <1>1 DEF Runs, RunsOnce
<1>2. CASE srv'.turns = <<>> BY <1>2 DEF Runs, RunsOnce
<1>3. CASE srv.turns # <<>> /\ srv'.turns = Tail(srv.turns)
    <2>1. \A i \in DOMAIN srv'.turns : i \in Nat /\ i + 1 \in DOMAIN srv.turns
                                        /\ srv'.turns[i] = srv.turns[i + 1]
        BY <1>0, <1>3, TailFacts
    <2>2. QED BY <2>1 DEF Runs, RunsOnce
<1>4. QED BY <1>1, <1>2, <1>3

(* No end is said. *)
LEMMA SaidKeeps ==
    ASSUME Types,
           \/ out' = out \/ out' = <<>> \/ (out # <<>> /\ out' = Tail(out))
           \/ \E e \in Outbound : e.k # "done" /\ out' = Append(out, e)
           \/ \E e, f \in Outbound : e.k # "done" /\ f.k # "done"
                                     /\ out' = Append(Append(out, e), f)
    PROVE  \A d \in Calls : (EndSaid(d)' => EndSaid(d)) /\ (SaidOnce(d) => SaidOnce(d)')
<1>0. out \in Seq(Outbound) BY DEF Types
<1>1. CASE out' = out BY <1>1 DEF EndSaid, SaidOnce, Ends
<1>2. CASE out' = <<>> BY <1>2 DEF EndSaid, SaidOnce, Ends
<1>3. CASE out # <<>> /\ out' = Tail(out)
    <2>1. \A i \in DOMAIN out' : i \in Nat /\ i + 1 \in DOMAIN out /\ out'[i] = out[i + 1]
        BY <1>0, <1>3, TailFacts
    <2>2. QED BY <2>1 DEF EndSaid, SaidOnce, Ends
<1>4. ASSUME NEW e \in Outbound, e.k # "done", out' = Append(out, e)
      PROVE  \A d \in Calls : (EndSaid(d)' => EndSaid(d)) /\ (SaidOnce(d) => SaidOnce(d)')
    <2>1. /\ \A i \in DOMAIN out : out'[i] = out[i]
          /\ \A i \in DOMAIN out' : i \in DOMAIN out \/ out'[i] = e
        BY <1>0, <1>4, AppendFacts
    <2>2. QED BY <1>4, <2>1 DEF EndSaid, SaidOnce, Ends
<1>5. ASSUME NEW e \in Outbound, NEW f \in Outbound, e.k # "done", f.k # "done",
             out' = Append(Append(out, e), f)
      PROVE  \A d \in Calls : (EndSaid(d)' => EndSaid(d)) /\ (SaidOnce(d) => SaidOnce(d)')
    <2>1. /\ Append(out, e) \in Seq(Outbound)
          /\ \A i \in DOMAIN out : i \in DOMAIN Append(out, e) /\ Append(out, e)[i] = out[i]
          /\ \A i \in DOMAIN Append(out, e) : i \in DOMAIN out \/ Append(out, e)[i] = e
        BY <1>0, AppendFacts
    <2>2. /\ \A i \in DOMAIN Append(out, e) : out'[i] = Append(out, e)[i]
          /\ \A i \in DOMAIN out' : i \in DOMAIN Append(out, e) \/ out'[i] = f
        BY <2>1, <1>5, AppendFacts
    <2>3. /\ \A i \in DOMAIN out : out'[i] = out[i]
          /\ \A i \in DOMAIN out' : i \in DOMAIN out \/ out'[i] = e \/ out'[i] = f
        BY <2>1, <2>2
    <2>4. QED BY <1>5, <2>3 DEF EndSaid, SaidOnce, Ends
<1>6. QED BY <1>1, <1>2, <1>3, <1>4, <1>5

(* The end of turn c moves: it is asked for, *)
LEMMA AskedMoves ==
    ASSUME Types, NEW e \in Inbound, e.k \in {"turn", "compact"}, toSrv' = Append(toSrv, e)
    PROVE  \A d \in Calls : /\ Asked(d)' => Asked(d) \/ d = e.c
                            /\ AskedOnce(d) /\ (d = e.c => ~Asked(d)) => AskedOnce(d)'
<1>0. toSrv \in Seq(Inbound) BY DEF Types
<1>1. /\ \A i \in DOMAIN toSrv : toSrv'[i] = toSrv[i]
      /\ \A i \in DOMAIN toSrv' : i \in DOMAIN toSrv \/ (i = Len(toSrv) + 1 /\ toSrv'[i] = e)
    BY <1>0, AppendFacts
<1>2. QED BY <1>1 DEF Asked, AskedOnce, Asks

(* the request is read, *)
LEMMA AskedLeaves ==
    ASSUME Types, NEW c \in Calls, toSrv # <<>>, toSrv' = Tail(toSrv),
           Head(toSrv).k \in {"turn", "compact"}, Head(toSrv).c = c, AskedOnce(c)
    PROVE  Asked(c) /\ ~Asked(c)'
<1>0. toSrv \in Seq(Inbound) BY DEF Types
<1>1. /\ \A i \in DOMAIN toSrv' : i \in Nat /\ i + 1 \in DOMAIN toSrv /\ toSrv'[i] = toSrv[i + 1]
      /\ 1 \in DOMAIN toSrv /\ Head(toSrv) = toSrv[1]
      /\ \A i \in DOMAIN toSrv' : i # 0
    BY <1>0, TailFacts, SMT
<1>2. Asks(1, c) BY <1>1 DEF Asks
<1>3. QED BY <1>1, <1>2 DEF Asked, AskedOnce, Asks

LEMMA RunsMoves ==
    ASSUME Types, NEW c \in Calls, srv'.turns = Append(srv.turns, c)
    PROVE  \A d \in Calls : /\ Runs(d)' <=> Runs(d) \/ d = c
                            /\ RunsOnce(d) /\ (d = c => ~Runs(d)) => RunsOnce(d)'
<1>0. srv.turns \in Seq(Calls) BY DEF Types, Server
<1>1. /\ \A i \in DOMAIN srv.turns : i \in DOMAIN srv'.turns /\ srv'.turns[i] = srv.turns[i]
      /\ \A i \in DOMAIN srv'.turns : \/ i \in DOMAIN srv.turns
                                      \/ i = Len(srv.turns) + 1 /\ srv'.turns[i] = c
      /\ Len(srv.turns) + 1 \in DOMAIN srv'.turns /\ srv'.turns[Len(srv.turns) + 1] = c
    BY <1>0, AppendFacts
<1>2. QED BY <1>1 DEF Runs, RunsOnce

(* the turn ends, *)
LEMMA RunsLeaves ==
    ASSUME Types, NEW c, srv.turns # <<>>, c = srv.turns[1], srv'.turns = Tail(srv.turns)
    PROVE  /\ c \in Calls /\ Runs(c)
           /\ RunsOnce(c) => ~Runs(c)'
           /\ \A d \in Calls : Runs(d) /\ d # c => Runs(d)'
<1>0. srv.turns \in Seq(Calls) BY DEF Types, Server
<1>1. /\ \A i \in DOMAIN srv'.turns : /\ i \in Nat /\ i + 1 \in DOMAIN srv.turns
                                      /\ srv'.turns[i] = srv.turns[i + 1]
      /\ \A i \in DOMAIN srv.turns : i # 1 => /\ i - 1 \in DOMAIN srv'.turns
                                              /\ srv'.turns[i - 1] = srv.turns[i]
      /\ 1 \in DOMAIN srv.turns /\ srv.turns[1] \in Calls
      /\ \A i \in DOMAIN srv'.turns : i # 0
    BY <1>0, TailFacts, SMT
<1>2. Runs(c) BY <1>1 DEF Runs
<1>3. RunsOnce(c) => ~Runs(c)'
    <2>1. SUFFICES ASSUME RunsOnce(c), NEW i \in DOMAIN srv'.turns, srv'.turns[i] = c
                   PROVE  FALSE
        BY DEF Runs
    <2>2. i + 1 \in DOMAIN srv.turns /\ srv.turns[i + 1] = c /\ i + 1 # 1 BY <1>1, <2>1
    <2>3. QED BY <1>1, <2>1, <2>2 DEF RunsOnce
<1>4. ASSUME NEW d \in Calls, Runs(d), d # c PROVE Runs(d)'
    BY <1>1, <1>4 DEF Runs
<1>5. QED BY <1>1, <1>2, <1>3, <1>4

(* and its end is routed. *)
LEMMA SaidLeaves ==
    ASSUME Types, NEW c \in Calls, out # <<>>, out' = Tail(out),
           Head(out).k = "done", Head(out).c = c, SaidOnce(c)
    PROVE  EndSaid(c) /\ ~EndSaid(c)'
<1>0. out \in Seq(Outbound) BY DEF Types
<1>1. /\ \A i \in DOMAIN out' : i \in Nat /\ i + 1 \in DOMAIN out /\ out'[i] = out[i + 1]
      /\ 1 \in DOMAIN out /\ Head(out) = out[1]
      /\ \A i \in DOMAIN out' : i # 0
    BY <1>0, TailFacts, SMT
<1>2. Ends(1, c) BY <1>1 DEF Ends
<1>3. QED BY <1>1, <1>2 DEF EndSaid, SaidOnce, Ends

(* The end of turn c is said, after whatever was said before it. *)
LEMMA SaidMoves ==
    ASSUME Types, NEW c \in Calls, NEW s \in Seq(Outbound), NEW e \in Outbound,
           s = out \/ s = Append(out, e), e.k # "done",
           out' = Append(s, Msg("done", c, None))
    PROVE  /\ \A d \in Calls : /\ EndSaid(d)' <=> EndSaid(d) \/ d = c
                               /\ SaidOnce(d) /\ (d = c => ~EndSaid(d)) => SaidOnce(d)'
           /\ \A i \in DOMAIN out : /\ i \in DOMAIN out' /\ out'[i] = out[i]
                                    /\ EndAfter(i, c)'
                                    /\ \A d \in Calls : EndAfter(i, d) => EndAfter(i, d)'
           /\ \A i \in DOMAIN out' : i \in DOMAIN out \/ out'[i] \in {e, Msg("done", c, None)}
<1>0. out \in Seq(Outbound) BY DEF Types
<1> DEFINE m == Msg("done", c, None)
<1>1. m \in Outbound /\ m.k = "done" /\ m.c = c BY NoticeOut DEF Msg
<1> HIDE DEF m
<1>2. /\ \A i \in DOMAIN out : i \in DOMAIN s /\ s[i] = out[i]
      /\ \A i \in DOMAIN s : i \in DOMAIN out \/ s[i] = e
    BY <1>0, AppendFacts
<1>3. /\ \A i \in DOMAIN s : i \in Nat /\ i < Len(s) + 1 /\ i \in DOMAIN out' /\ out'[i] = s[i]
      /\ \A i \in DOMAIN out' : i \in DOMAIN s \/ i = Len(s) + 1
      /\ Len(s) + 1 \in DOMAIN out' /\ out'[Len(s) + 1] = m
    BY <1>1, AppendFacts DEF m
<1>4. /\ \A i \in DOMAIN out : /\ i \in Nat /\ i < Len(s) + 1 /\ i \in DOMAIN out'
                               /\ out'[i] = out[i]
      /\ \A i \in DOMAIN out' : i \in DOMAIN out \/ out'[i] = e \/ i = Len(s) + 1
    BY <1>2, <1>3
<1>5. Ends(Len(s) + 1, c)' BY <1>1, <1>3 DEF Ends
<1>6. \A i \in DOMAIN out' : \A d \in Calls :
        Ends(i, d)' => (i \in DOMAIN out /\ Ends(i, d)) \/ (i = Len(s) + 1 /\ d = c)
    BY <1>1, <1>3, <1>4 DEF Ends
<1>7. \A i \in DOMAIN out : \A d \in Calls : Ends(i, d) => Ends(i, d)'
    BY <1>4 DEF Ends
<1>8. \A d \in Calls : /\ EndSaid(d)' <=> EndSaid(d) \/ d = c
                       /\ SaidOnce(d) /\ (d = c => ~EndSaid(d)) => SaidOnce(d)'
    BY <1>3, <1>4, <1>5, <1>6, <1>7 DEF EndSaid, SaidOnce
<1>9. \A i \in DOMAIN out : /\ EndAfter(i, c)'
                            /\ \A d \in Calls : EndAfter(i, d) => EndAfter(i, d)'
    BY <1>3, <1>4, <1>5, <1>7 DEF EndAfter
<1>10. \A i \in DOMAIN out' : i \in DOMAIN out \/ out'[i] \in {e, m}
    BY <1>3, <1>4
<1>11. QED BY <1>4, <1>8, <1>9, <1>10 DEF m

-----------------------------------------------------------------------------
(* Frames: what an action has to show for each part of the invariant. *)

LEMMA EndsFrame ==
    ASSUME NEW d \in Calls, Asked(d)' => Asked(d), Runs(d)' => Runs(d), EndSaid(d)' => EndSaid(d),
           AskedOnce(d) => AskedOnce(d)', RunsOnce(d) => RunsOnce(d)', SaidOnce(d) => SaidOnce(d)'
    PROVE  (Owed(d)' => Owed(d)) /\ (OneEnd(d) => OneEnd(d)')
BY DEF Owed, OneEnd

(* No end appears, and none moves. *)
LEMMA EndsKeep ==
    ASSUME Types,
           \/ toSrv' = toSrv \/ toSrv' = <<>> \/ (toSrv # <<>> /\ toSrv' = Tail(toSrv))
           \/ \E e \in Inbound : e.k \notin {"turn", "compact"} /\ toSrv' = Append(toSrv, e),
           \/ srv'.turns = srv.turns \/ srv'.turns = <<>>
           \/ (srv.turns # <<>> /\ srv'.turns = Tail(srv.turns)),
           \/ out' = out \/ out' = <<>> \/ (out # <<>> /\ out' = Tail(out))
           \/ \E e \in Outbound : e.k # "done" /\ out' = Append(out, e)
           \/ \E e, f \in Outbound : e.k # "done" /\ f.k # "done"
                                     /\ out' = Append(Append(out, e), f)
    PROVE  \A d \in Calls : (Owed(d)' => Owed(d)) /\ (OneEnd(d) => OneEnd(d)')
BY AskedKeeps, RunsKeeps, SaidKeeps, EndsFrame

(* The calls in flight keep what they are. *)
Sticks ==
    \A d \in Calls : /\ call[d].op # "none" => call'[d].op = call[d].op
                     /\ call[d].stopped => call'[d].stopped

LEMMA DisturbedStays ==
    ASSUME Sticks, Undisturbed'
    PROVE  /\ Undisturbed
           /\ \A d \in Calls : /\ call[d].op # "compact" /\ ~call[d].stopped
                               /\ call'[d].op # "compact" /\ ~call'[d].stopped
BY DEF Sticks, Undisturbed, Disturbed, Calls

LEMMA TextFrame ==
    ASSUME TextHasEnd, buf' = buf, out' = out, srv'.turns = srv.turns,
           srv'.alive => srv.alive, reader.stdout' => reader.stdout
    PROVE  TextHasEnd'
BY DEF TextHasEnd, Runs, EndSaid, EndAfter, Ends

LEMMA QuietFrame ==
    ASSUME Quiet, Sticks,
           \A d \in Calls : (Owed(d)' => Owed(d)) /\ (OneEnd(d) => OneEnd(d)'),
           Undisturbed /\ Undisturbed' =>
                \A d \in Calls : /\ Waits(d) => Waits(d)'
                                 /\ call'[d].over \in Calls => call'[d].over = d /\ Sent(d)'
                                 /\ call'[d].pc = "pump" /\ call'[d].over = None => active' = d
    PROVE  Quiet'
<1>1. SUFFICES ASSUME Undisturbed', NEW d \in Calls
               PROVE  /\ OneEnd(d)' /\ (Owed(d)' => Waits(d)')
                      /\ call'[d].over \in Calls => call'[d].over = d /\ Sent(d)'
                      /\ call'[d].pc = "pump" /\ call'[d].over = None => active' = d
    BY DEF Quiet, At
<1>2. Undisturbed BY <1>1, DisturbedStays
<1>3. OneEnd(d) /\ (Owed(d) => Waits(d)) BY <1>2 DEF Quiet
<1>4. QED BY <1>1, <1>2, <1>3

-----------------------------------------------------------------------------
(* The calls. *)

(* A call that is under way ends. A turn that ends well has got its Result.    *)
LEMMA CallEnds ==
    ASSUME Inv, NEW c \in Calls, NEW pc \in {"kill", "done", "failed"},
           call[c].pc \in {"ready", "write", "wait", "kill", "pump"},
           call' = [call EXCEPT ![c] = Ended(c, pc)],
           pending' = pending \ {<<c, call[c].stage>>},
           IsTurn(c) => pc = "failed" \/ (pc = "done" /\ call[c].over \in Calls),
           manual' \in BOOLEAN, manual' => manual, expired' \in BOOLEAN,
           active' = active \/ (active' = None /\ call[c].op = "interrupt"),
           toSrv' \in {toSrv, <<>>}, srv' \in {srv, Dead},
           UNCHANGED <<thread, buf, approvals, reader, out, left>>
    PROVE  Inv'
<1>0. /\ Types /\ Shape /\ Registered /\ InOrder /\ Traces /\ Quiet /\ OneMessage
      /\ TextHasEnd /\ call[c] \in Call
    BY DEF Inv, Types
<1>1. /\ call' \in [Calls -> Call]
      /\ \A d \in Calls : d # c => call'[d] = call[d]
      /\ call'[c].pc = pc /\ call'[c].op = call[c].op
      /\ call'[c].sub = FALSE /\ call'[c].over = None
      /\ call'[c].stopped = call[c].stopped
    BY <1>0, Records DEF Types
<1>2. Dead \in Server /\ Dead.turns = <<>> /\ ~Dead.alive
    BY CodexAssumption DEF Dead, Server
<1>3. Types'
    <2>1. srv' \in Server BY <1>0, <1>2 DEF Types
    <2>5. toSrv' \in Seq(Inbound)
        <3>1. <<>> \in Seq(Inbound) /\ toSrv \in Seq(Inbound) BY <1>0 DEF Types
        <3>2. QED BY <3>1
    <2>2. manual' \in BOOLEAN /\ expired' \in BOOLEAN /\ active' \in Calls \cup {None}
        BY <1>0 DEF Types
    <2>3. pending' \subseteq Calls \X Stages BY <1>0 DEF Types
    <2>4. QED BY <1>0, <1>1, <2>1, <2>2, <2>3, <2>5 DEF Types
<1>4. Shape' BY <1>0, <1>1 DEF Shape, CallShape, At, IsTurn
<1>5. Registered' BY <1>0, <1>1 DEF Registered, Types
<1>6. InOrder' BY <1>0, <1>1 DEF InOrder, At, IsTurn
<1>7. Traces' BY <1>0, <1>1 DEF Traces
<1>8. Quiet'
    <2>1. Sticks BY <1>1 DEF Sticks
    <2>2. \A d \in Calls : (Owed(d)' => Owed(d)) /\ (OneEnd(d) => OneEnd(d)')
        BY <1>0, <1>2, EndsKeep
    <2>3. \A d \in Calls : (Waits(d) => Waits(d)') /\ (d # c /\ Sent(d) => Sent(d)')
        BY <1>1, NoneIsNoCall DEF Waits, Sent, At, IsTurn
    <2>4. Undisturbed => active' = active
        BY <1>0 DEF Traces, Undisturbed, Disturbed, Calls
    <2>5. QED BY <1>0, <1>1, <2>1, <2>2, <2>3, <2>4, QuietFrame, NoneIsNoCall DEF Quiet, At
<1>9. TextHasEnd' BY <1>0, <1>2, TextFrame DEF TextHasEnd
<1>10. QED BY <1>0, <1>3, <1>4, <1>5, <1>6, <1>7, <1>8, <1>9 DEF Inv, OneMessage

LEMMA RegisterStep ==
    ASSUME Inv, NEW c \in Calls, Register(c)
    PROVE  Inv'
<1>0. /\ Types /\ Shape /\ Registered /\ InOrder /\ Traces /\ Quiet /\ OneMessage
      /\ TextHasEnd /\ call[c] \in Call
    BY DEF Inv, Types
<1>1. At(c, "ready") /\ active \in Calls \cup {None} /\ expired \in BOOLEAN
    BY <1>0 DEF Register, Types
<1>2. CASE IsTurn(c) \/ active # None
    <2>1. call' = [call EXCEPT ![c].pc = "write", ![c].ans = "none",
                               ![c].target = IF IsTurn(c) THEN None ELSE active,
                               ![c].late = expired]
        BY <1>2 DEF Register
    <2>2. /\ call' \in [Calls -> Call]
          /\ \A d \in Calls : d # c => call'[d] = call[d]
          /\ call'[c].pc = "write" /\ call'[c].ans = "none" /\ call'[c].op = call[c].op
          /\ call'[c].stage = call[c].stage /\ call'[c].sub = call[c].sub
          /\ call'[c].over = call[c].over /\ call'[c].stopped = call[c].stopped
          /\ call'[c].target = IF IsTurn(c) THEN None ELSE active
        BY <1>0, <1>1, <2>1 DEF Types, Call, Answers
    <2>3. pending' = pending \cup {<<c, call[c].stage>>} /\ call[c].stage \in Stages
        BY <1>0, <1>2 DEF Register, Call
    <2>4. Types'
        BY <1>0, <1>1, <2>2, <2>3 DEF Types, Register, UnchangedServer
    <2>5. Shape' BY <1>0, <1>1, <1>2, <2>2 DEF Shape, CallShape, At, IsTurn
    <2>6. Registered' BY <1>0, <1>1, <2>2, <2>3 DEF Registered, At, Types
    <2>7. InOrder' BY <1>0, <1>1, <2>2 DEF InOrder, At, IsTurn
    <2>8. Traces' BY <1>0, <1>1, <2>2 DEF Traces, Register
    <2>9. Quiet'
        <3>1. Sticks BY <2>2 DEF Sticks
        <3>2. \A d \in Calls : (Owed(d)' => Owed(d)) /\ (OneEnd(d) => OneEnd(d)')
            BY <1>0, EndsKeep DEF Register, UnchangedServer
        <3>3. \A d \in Calls : (Sent(d) => Sent(d)') /\ (Waits(d) => Waits(d)')
            BY <1>1, <2>2 DEF Waits, Sent, At, IsTurn
        <3>4. QED BY <1>0, <1>1, <2>2, <3>1, <3>2, <3>3, QuietFrame DEF Quiet, At, Register
    <2>10. QED
        BY <1>0, <2>4, <2>5, <2>6, <2>7, <2>8, <2>9, TextFrame
        DEF Inv, Register, UnchangedServer, OneMessage
<1>3. CASE ~ (IsTurn(c) \/ active # None)
    <2>1. PICK pc \in {"failed", "kill"} : call' = [call EXCEPT ![c] = Ended(c, pc)]
        BY <1>3 DEF Register
    <2>2. <<c, call[c].stage>> \notin pending BY <1>0, <1>1 DEF Registered, At
    <2>3. pending' = pending \ {<<c, call[c].stage>>} BY <1>3, <2>2 DEF Register
    <2>4. manual' \in BOOLEAN /\ (manual' => manual) /\ expired' \in BOOLEAN
        BY <1>0, <1>3 DEF Register, IsTurn, Types
    <2>5. QED
        BY <1>1, <1>3, <2>1, <2>3, <2>4, CallEnds DEF Register, UnchangedServer, At
<1>4. QED BY <1>2, <1>3

(* The request is on its way: from here on the turn owes its end. *)
LEMMA WriteStep ==
    ASSUME Inv, NEW c \in Calls, Write(c)
    PROVE  Inv'
<1>0. /\ Types /\ Shape /\ Registered /\ InOrder /\ Traces /\ Quiet /\ OneMessage
      /\ TextHasEnd /\ call[c] \in Call /\ At(c, "write")
    BY DEF Inv, Types, Write
<1>1. CASE srv.alive
    <2>1. /\ toSrv' = Append(toSrv, Request(c)) /\ call' = [call EXCEPT ![c].pc = "wait"]
          /\ UNCHANGED <<pending, manual>>
        BY <1>1 DEF Write, Goto
    <2>2. /\ call' \in [Calls -> Call]
          /\ \A d \in Calls : d # c => call'[d] = call[d]
          /\ call'[c].pc = "wait" /\ call'[c].ans = call[c].ans /\ call'[c].op = call[c].op
          /\ call'[c].stage = call[c].stage /\ call'[c].sub = call[c].sub
          /\ call'[c].over = call[c].over /\ call'[c].stopped = call[c].stopped
          /\ call'[c].target = call[c].target
        BY <1>0, <2>1 DEF Types, Call
    <2>3. Request(c) \in Inbound BY <1>0, RequestIn
    <2>4. toSrv' \in Seq(Inbound) BY <1>0, <2>1, <2>3, AppendFacts DEF Types
    <2>5. Types' BY <1>0, <2>1, <2>2, <2>4 DEF Types, Write
    <2>6. Shape' BY <1>0, <2>2 DEF Shape, CallShape, At, IsTurn
    <2>7. Registered' BY <1>0, <2>1, <2>2 DEF Registered, At
    <2>8. InOrder' BY <1>0, <2>2 DEF InOrder, At, IsTurn
    <2>9. Traces' BY <1>0, <2>1, <2>2 DEF Traces
    <2>10. Sticks BY <2>2 DEF Sticks
    <2>11. \A d \in Calls : (Sent(d) => Sent(d)') /\ (Waits(d) => Waits(d)')
        BY <1>0, <2>2 DEF Waits, Sent, At, IsTurn
    <2>12. out' = out /\ srv' = srv /\ active' = active BY DEF Write
    <2>13. ASSUME ~ (IsTurn(c) /\ call[c].stage = "main") PROVE Quiet'
        <3>1. Request(c).k \notin {"turn", "compact"}
            BY <1>0, <2>13 DEF Request, Msg, IsTurn, Call, Stages
        <3>2. \A d \in Calls : (Owed(d)' => Owed(d)) /\ (OneEnd(d) => OneEnd(d)')
            BY <1>0, <2>1, <2>3, <2>12, <3>1, EndsKeep
        <3>3. QED
            BY <1>0, <2>2, <2>10, <2>11, <2>12, <3>2, QuietFrame DEF Quiet, At
    <2>14. ASSUME IsTurn(c) /\ call[c].stage = "main" PROVE Quiet'
        <3>1. Request(c).k \in {"turn", "compact"} /\ Request(c).c = c
            BY <1>0, <2>14 DEF Request, Msg, IsTurn
        <3>2. \A d \in Calls : /\ Asked(d)' => Asked(d) \/ d = c
                               /\ AskedOnce(d) /\ (d = c => ~Asked(d)) => AskedOnce(d)'
            BY <1>0, <2>1, <2>3, <3>1, AskedMoves
        <3>3. \A d \in Calls : /\ (Runs(d)' <=> Runs(d)) /\ (EndSaid(d)' <=> EndSaid(d))
                               /\ (RunsOnce(d)' <=> RunsOnce(d)) /\ (SaidOnce(d)' <=> SaidOnce(d))
            BY <2>12 DEF Runs, EndSaid, RunsOnce, SaidOnce, Ends
        <3>4. SUFFICES ASSUME Undisturbed', NEW d \in Calls
                       PROVE  /\ OneEnd(d)' /\ (Owed(d)' => Waits(d)')
                              /\ call'[d].over \in Calls => call'[d].over = d /\ Sent(d)'
                              /\ call'[d].pc = "pump" /\ call'[d].over = None => active' = d
            BY DEF Quiet, At
        <3>5. Undisturbed BY <2>10, <3>4, DisturbedStays
        <3>6. ~Sent(c) /\ ~Owed(c) /\ call[c].over \notin Calls
            BY <1>0, <3>5 DEF Quiet, Waits, Sent, At
        <3>7. Waits(c)' BY <1>0, <2>2, <2>14, <3>6 DEF Waits, Sent, At, IsTurn
        <3>8. OneEnd(d) /\ (Owed(d) => Waits(d)) BY <1>0, <3>5 DEF Quiet
        <3>9. OneEnd(d)' BY <3>2, <3>3, <3>6, <3>8 DEF OneEnd, Owed
        <3>10. Owed(d)' => Owed(d) \/ d = c BY <3>2, <3>3 DEF Owed
        <3>11. QED
            BY <1>0, <2>2, <2>11, <2>12, <3>5, <3>6, <3>7, <3>8, <3>9, <3>10 DEF Quiet, At
    <2>15. Quiet' BY <2>13, <2>14
    <2>16. TextHasEnd' BY <1>0, TextFrame DEF Write
    <2>17. QED
        BY <1>0, <2>5, <2>6, <2>7, <2>8, <2>9, <2>15, <2>16 DEF Inv, OneMessage, Write
<1>2. CASE ~srv.alive
    <2>1. PICK pc \in {"kill", "failed"} :
            /\ call' = [call EXCEPT ![c] = Ended(c, pc)]
            /\ call[c].op # "interrupt" => pc = "failed"
        BY <1>2 DEF Write, GivesUp
    <2>2. manual' \in BOOLEAN /\ (manual' => manual) /\ expired' \in BOOLEAN
        BY <1>0, <1>2 DEF Write, GivesUp, Types
    <2>3. QED BY <1>0, <1>2, <2>1, <2>2, CallEnds DEF Write, IsTurn, At
<1>3. QED BY <1>0, <1>1, <1>2 DEF Types, Server

LEMMA RefusedStep ==
    ASSUME Inv, NEW c \in Calls, Refused(c)
    PROVE  Inv'
<1>1. /\ Types /\ Registered /\ At(c, "wait") /\ call[c].ans # "none"
    BY DEF Inv, Refused
<1>2. PICK pc \in {"kill", "failed"} :
        /\ call' = [call EXCEPT ![c] = Ended(c, pc)]
        /\ call[c].op # "interrupt" => pc = "failed"
    BY DEF Refused, GivesUp
<1>3. manual' \in BOOLEAN /\ (manual' => manual) /\ expired' \in BOOLEAN
    BY <1>1 DEF Refused, GivesUp, Types
<1>4. pending' = pending \ {<<c, call[c].stage>>}
    BY <1>1 DEF Refused, Registered
<1>5. QED BY <1>1, <1>2, <1>3, <1>4, CallEnds DEF Refused, UnchangedServer, IsTurn, At

LEMMA KillProcessStep ==
    ASSUME Inv, NEW c \in Calls, KillProcess(c)
    PROVE  Inv'
<1>1. /\ Types /\ Registered /\ Shape /\ At(c, "kill")
    BY DEF Inv, KillProcess
<1>2. ~IsTurn(c) BY <1>1 DEF Shape, CallShape
<1>3. pending' = pending \ {<<c, call[c].stage>>}
    BY <1>1 DEF KillProcess, Registered, At
<1>4. manual' \in BOOLEAN /\ (manual' => manual) /\ expired' \in BOOLEAN
    BY <1>1 DEF KillProcess, Types
<1>5. QED BY <1>1, <1>2, <1>3, <1>4, CallEnds DEF KillProcess, At

(* A pump ends by the Result of its turn, or fails. *)
LEMMA PumpEndsStep ==
    ASSUME Inv, NEW c \in Calls, PumpEnds(c)
    PROVE  Inv'
<1>1. /\ Types /\ Registered /\ At(c, "pump") /\ call[c].over # None /\ call[c] \in Call
    BY DEF Inv, PumpEnds, Types
<1>2. PICK pc \in {"done", "failed"} :
        /\ call' = [call EXCEPT ![c] = Ended(c, pc)]
        /\ pc = "failed" \/ call[c].over # Exit
    BY DEF PumpEnds
<1>3. pc = "failed" \/ call[c].over \in Calls BY <1>1, <1>2 DEF Call
<1>4. pending' = pending \ {<<c, call[c].stage>>}
    BY <1>1 DEF PumpEnds, Registered, At
<1>5. manual' \in BOOLEAN /\ (manual' => manual) /\ expired' \in BOOLEAN
    BY <1>1 DEF PumpEnds, Types
<1>6. QED BY <1>1, <1>2, <1>3, <1>4, <1>5, CallEnds DEF PumpEnds, UnchangedServer, At

(* Two turns that are both under way: the session was stopped. *)
LEMMA OneTurn ==
    ASSUME Types, InOrder, Shape, Undisturbed, NEW c \in Calls, NEW d \in Calls,
           IsTurn(c), ~At(c, "done"), IsTurn(d), ~At(d, "done")
    PROVE  c = d
<1>1. ~call[c].stopped /\ ~call[d].stopped BY DEF Undisturbed, Disturbed, Calls
<1>2. ~ (c < d) /\ ~ (d < c) BY <1>1 DEF InOrder
<1>3. QED BY <1>2, NoneIsNoCall

LEMMA AnsweredStep ==
    ASSUME Inv, NEW c \in Calls, Answered(c)
    PROVE  Inv'
<1>0. /\ Types /\ Shape /\ Registered /\ InOrder /\ Traces /\ Quiet /\ OneMessage
      /\ TextHasEnd /\ call[c] \in Call /\ At(c, "wait") /\ call[c].ans = "ok"
    BY DEF Inv, Types, Answered
<1>1. CASE call[c].stage = "main" /\ call[c].op \in {"steer", "interrupt"}
    <2>1. /\ call' = [call EXCEPT ![c] = Ended(c, "done")] /\ thread' = thread
          /\ active' = active \/ (active' = None /\ call[c].op = "interrupt")
        BY <1>1 DEF Answered
    <2>2. pending' = pending \ {<<c, call[c].stage>>}
        BY <1>0 DEF Answered, Registered
    <2>3. manual' \in BOOLEAN /\ (manual' => manual) /\ expired' \in BOOLEAN
        BY <1>0 DEF Answered, Types
    <2>4. QED
        BY <1>0, <1>1, <2>1, <2>2, <2>3, CallEnds DEF Answered, UnchangedServer, At, IsTurn
<1>2. CASE ~ (call[c].stage = "main" /\ call[c].op \in {"steer", "interrupt"})
    <2>1. IsTurn(c) BY <1>0, <1>2 DEF Shape, CallShape, At, IsTurn, Call, Ops, Stages
    <2>2. /\ call' \in [Calls -> Call]
          /\ \A d \in Calls : d # c => call'[d] = call[d]
          /\ call'[c].ans = call[c].ans /\ call'[c].op = call[c].op
          /\ call'[c].stage = "main" /\ call'[c].sub = call[c].sub
          /\ call'[c].over = call[c].over /\ call'[c].stopped = call[c].stopped
          /\ call'[c].target = call[c].target
          /\ \/ call'[c].pc = "ready" /\ call[c].stage = "thread"
             \/ call'[c].pc = "pump" /\ call[c].stage = "main"
        <3>1. \/ /\ call[c].stage = "thread"
                 /\ call' = [call EXCEPT ![c].pc = "ready", ![c].stage = "main"]
              \/ call[c].stage = "main" /\ call' = [call EXCEPT ![c].pc = "pump"]
            BY <1>0, <1>2, <2>1 DEF Answered, Goto, IsTurn
        <3>2. QED BY <1>0, <3>1 DEF Types, Call, Stages
    <2>3. /\ thread' \in BOOLEAN
          /\ active' = active \/ (active' = c /\ call'[c].pc = "pump")
          /\ call'[c].pc = "pump" => active' = c \/ call[c].op = "compact"
        BY <1>0, <1>2, <2>2 DEF Answered, Types
    <2>4. Types' BY <1>0, <2>2, <2>3 DEF Types, Answered, UnchangedServer
    <2>5. Shape' BY <1>0, <2>1, <2>2 DEF Shape, CallShape, At, IsTurn
    <2>6. Registered' BY <1>0, <2>2 DEF Registered, At, Answered, Types
    <2>7. InOrder' BY <1>0, <2>2 DEF InOrder, At, IsTurn
    <2>8. Traces' BY <1>0, <2>2 DEF Traces, Answered
    <2>9. Quiet'
        <3>1. Sticks BY <2>2 DEF Sticks
        <3>2. \A d \in Calls : (Owed(d)' => Owed(d)) /\ (OneEnd(d) => OneEnd(d)')
            BY <1>0, EndsKeep DEF Answered, UnchangedServer
        <3>3. \A d \in Calls : (Sent(d) => Sent(d)') /\ (Waits(d) => Waits(d)')
            BY <1>0, <2>1, <2>2 DEF Waits, Sent, At, IsTurn
        <3>4. ASSUME Undisturbed, Undisturbed', NEW d \in Calls, call'[d].pc = "pump",
                     call'[d].over = None
              PROVE  active' = d
            <4>1. call[c].op # "compact" BY <3>4 DEF Undisturbed, Disturbed, Calls
            <4>2. CASE d = c BY <2>2, <2>3, <3>4, <4>1, <4>2
            <4>3. CASE d # c
                <5>1. call[d].pc = "pump" /\ IsTurn(d)
                    BY <1>0, <2>2, <3>4, <4>3 DEF Shape, CallShape, At
                <5>2. QED BY <1>0, <2>1, <3>4, <4>3, <5>1, OneTurn DEF At
            <4>4. QED BY <4>2, <4>3
        <3>5. QED BY <1>0, <2>2, <3>1, <3>2, <3>3, <3>4, QuietFrame DEF Quiet, At
    <2>10. QED
        BY <1>0, <2>4, <2>5, <2>6, <2>7, <2>8, <2>9, TextFrame
        DEF Inv, Answered, UnchangedServer, OneMessage
<1>3. QED BY <1>1, <1>2

LEMMA AnswerRequestStep ==
    ASSUME Inv, NEW t \in Calls, AnswerRequest(t)
    PROVE  Inv'
<1>0. /\ Types /\ Shape /\ Registered /\ InOrder /\ Traces /\ Quiet /\ OneMessage
      /\ TextHasEnd
    BY DEF Inv
<1>1. toSrv' \in Seq(Inbound)
    BY <1>0, ReplyIn, AppendFacts DEF AnswerRequest, Types
<1>2. Types' BY <1>0, <1>1 DEF Types, AnswerRequest
<1>3. \A d \in Calls : (Owed(d)' => Owed(d)) /\ (OneEnd(d) => OneEnd(d)')
    <2>1. Msg("reply", None, None).k \notin {"turn", "compact"} BY DEF Msg
    <2>2. QED BY <1>0, <2>1, ReplyIn, EndsKeep DEF AnswerRequest
<1>4. Shape' /\ Registered' /\ InOrder' /\ Traces' /\ Sticks
    BY <1>0 DEF Shape, CallShape, Registered, InOrder, Traces, Sticks, At, IsTurn, AnswerRequest
<1>5. \A d \in Calls : (Sent(d) => Sent(d)') /\ (Waits(d) => Waits(d)')
    BY DEF Waits, Sent, At, IsTurn, AnswerRequest
<1>6. Quiet' BY <1>0, <1>3, <1>4, <1>5, QuietFrame DEF Quiet, At, AnswerRequest
<1>7. QED BY <1>0, <1>2, <1>4, <1>6, TextFrame DEF Inv, OneMessage, AnswerRequest

(* A call begins; whatever comes after it has not begun. *)
LEMMA BeginStep ==
    ASSUME Inv, NEW c \in Calls, Begin(c)
    PROVE  Inv'
<1>0. /\ Types /\ Shape /\ Registered /\ InOrder /\ Traces /\ Quiet /\ OneMessage
      /\ TextHasEnd /\ call[c] \in Call /\ At(c, "new")
      /\ \A d \in Calls : d < c => ~At(d, "new")
      /\ UNCHANGED <<pending, thread, active, manual, expired, buf, reader, out, srv, left>>
    BY DEF Inv, Types, Begin
<1>1. /\ call[c].op = "none" /\ ~call[c].sub /\ ~call[c].stopped
      /\ \A d \in Calls : c < d => call[d].op = "none"
    BY <1>0 DEF Shape, CallShape, At, IsTurn, InOrder
<1>2. /\ toSrv' = toSrv
         \/ \E e \in Inbound : e.k \notin {"turn", "compact"} /\ toSrv' = Append(toSrv, e)
      /\ approvals' \subseteq Calls
    <2>1. Msg("reply", None, None).k \notin {"turn", "compact"} BY DEF Msg
    <2>2. QED BY <1>0, <2>1, ReplyIn DEF Begin, Types
<1>3. toSrv' \in Seq(Inbound) BY <1>0, <1>2, AppendFacts DEF Types
<1>4. \A d \in Calls : (Owed(d)' => Owed(d)) /\ (OneEnd(d) => OneEnd(d)')
    BY <1>0, <1>2, EndsKeep
<1>5. TextHasEnd' BY <1>0, TextFrame
<1>6. ASSUME NEW op \in Ops, BeginTurn(c, op)
      PROVE  Inv'
    <2>1. PICK r \in Call :
            /\ call' = [call EXCEPT ![c] = r]
            /\ r.op = op /\ r.stopped = FALSE /\ r.over = None
            /\ \/ r.pc = "failed" /\ r.sub = FALSE
               \/ r.pc = "ready" /\ r.sub = TRUE
        <3>1. NewCall \in Call BY <1>0, Records
        <3>2. [NewCall EXCEPT !.op = op, !.pc = "failed"] \in Call
            BY <3>1 DEF NewCall, Call
        <3>3. [NewCall EXCEPT !.op = op, !.pc = "ready", !.sub = TRUE,
                              !.stage = IF thread THEN "main" ELSE "thread"] \in Call
            BY <3>1 DEF NewCall, Call, Stages
        <3>4. CASE expired
            <4>1. call' = [call EXCEPT ![c] = [NewCall EXCEPT !.op = op, !.pc = "failed"]]
                BY <1>6, <3>4 DEF BeginTurn
            <4> DEFINE q == [NewCall EXCEPT !.op = op, !.pc = "failed"]
            <4>2. q.op = op /\ q.stopped = FALSE /\ q.over = None /\ q.pc = "failed" /\ q.sub = FALSE
                BY DEF NewCall
            <4>3. q \in Call /\ call' = [call EXCEPT ![c] = q] BY <3>2, <4>1
            <4> HIDE DEF q
            <4>4. QED BY <4>2, <4>3
        <3>5. CASE ~expired
            <4>1. call' = [call EXCEPT ![c] =
                    [NewCall EXCEPT !.op = op, !.pc = "ready", !.sub = TRUE,
                                    !.stage = IF thread THEN "main" ELSE "thread"]]
                BY <1>6, <3>5 DEF BeginTurn
            <4> DEFINE q == [NewCall EXCEPT !.op = op, !.pc = "ready", !.sub = TRUE,
                                            !.stage = IF thread THEN "main" ELSE "thread"]
            <4>2. q.op = op /\ q.stopped = FALSE /\ q.over = None /\ q.pc = "ready" /\ q.sub = TRUE
                BY DEF NewCall
            <4>3. q \in Call /\ call' = [call EXCEPT ![c] = q] BY <3>3, <4>1
            <4> HIDE DEF q
            <4>4. QED BY <4>2, <4>3
        <3>6. QED BY <3>4, <3>5
    <2>2. op \in {"turn", "compact"} /\ Sendable BY <1>6 DEF BeginTurn
    <2>3. /\ call' \in [Calls -> Call] /\ call'[c] = r
          /\ \A d \in Calls : d # c => call'[d] = call[d]
        BY <1>0, <2>1 DEF Types
    <2>4. Types' BY <1>0, <1>2, <1>3, <2>3 DEF Types
    <2>5. Shape' BY <1>0, <2>1, <2>2, <2>3 DEF Shape, CallShape, At, IsTurn
    <2>6. Registered' BY <1>0, <2>1, <2>3 DEF Registered, At, Types
    <2>7. InOrder'
        <3>1. \A d \in Calls : d < c /\ IsTurn(d) => At(d, "done") \/ call[d].stopped
            BY <2>2 DEF Sendable
        <3>2. QED BY <1>0, <1>1, <2>1, <2>3, <3>1, NoneIsNoCall DEF InOrder, At, IsTurn
    <2>8. Traces' BY <1>0, <1>1, <2>1, <2>2, <2>3 DEF Traces
    <2>9. Sticks BY <1>1, <2>3 DEF Sticks
    <2>10. \A d \in Calls : (Sent(d) => Sent(d)') /\ (Waits(d) => Waits(d)')
        BY <1>0, <1>1, <2>3 DEF Waits, Sent, At, IsTurn
    <2>11. Quiet'
        BY <1>0, <1>4, <2>1, <2>3, <2>9, <2>10, QuietFrame, NoneIsNoCall DEF Quiet, At
    <2>12. QED
        BY <1>0, <1>5, <2>4, <2>5, <2>6, <2>7, <2>8, <2>11 DEF Inv, OneMessage
<1>7. ASSUME NEW op \in {"steer", "interrupt"}, NEW d \in Calls, BeginOn(c, op, d)
      PROVE  Inv'
    <2> DEFINE r == [NewCall EXCEPT !.op = op, !.pc = "ready", !.stage = "main"]
    <2>1. /\ r \in Call
          /\ r.op = op /\ r.pc = "ready" /\ r.stage = "main" /\ r.stopped = FALSE
          /\ r.sub = FALSE /\ r.over = None
        BY DEF NewCall, Call, Stages, Ops, Answers
    <2>2. /\ IsTurn(d) /\ At(d, "pump") /\ ~call[d].stopped /\ c # d /\ call[d] \in Call
          /\ call' = [call EXCEPT ![c] = r, ![d].stopped = op = "interrupt"]
        BY <1>0, <1>7 DEF BeginOn, At, Types
    <2> HIDE DEF r
    <2>3. /\ call' \in [Calls -> Call] /\ call'[c] = r
          /\ \A e \in Calls : e # c /\ e # d => call'[e] = call[e]
          /\ call'[d].op = call[d].op /\ call'[d].pc = call[d].pc
          /\ call'[d].stage = call[d].stage /\ call'[d].ans = call[d].ans
          /\ call'[d].target = call[d].target /\ call'[d].sub = call[d].sub
          /\ call'[d].over = call[d].over
          /\ call'[d].stopped = IF op = "interrupt" THEN TRUE ELSE FALSE
        <3>1. call' = [call EXCEPT ![c] = r,
                                   ![d].stopped = IF op = "interrupt" THEN TRUE ELSE FALSE]
            BY <2>2
        <3>2. call' = [[call EXCEPT ![c] = r] EXCEPT
                            ![d] = [call[d] EXCEPT
                                        !.stopped = IF op = "interrupt" THEN TRUE ELSE FALSE]]
            BY <2>2, <3>1
        <3>3. [call[d] EXCEPT !.stopped = IF op = "interrupt" THEN TRUE ELSE FALSE] \in Call
            BY <2>2 DEF Call
        <3> DEFINE t == [call[d] EXCEPT !.stopped = IF op = "interrupt" THEN TRUE ELSE FALSE]
        <3>4. /\ t \in Call /\ t.op = call[d].op /\ t.pc = call[d].pc /\ t.stage = call[d].stage
              /\ t.ans = call[d].ans /\ t.target = call[d].target /\ t.sub = call[d].sub
              /\ t.over = call[d].over
              /\ t.stopped = IF op = "interrupt" THEN TRUE ELSE FALSE
            BY <2>2, <3>3 DEF Call
        <3>5. call' = [[call EXCEPT ![c] = r] EXCEPT ![d] = t] BY <3>2
        <3> HIDE DEF t
        <3>6. call' \in [Calls -> Call] /\ call'[d] = t /\ call'[c] = r
              /\ \A e \in Calls : e # c /\ e # d => call'[e] = call[e]
            BY <1>0, <2>1, <2>2, <3>4, <3>5 DEF Types
        <3>7. QED BY <3>4, <3>6
    <2>4. Types' BY <1>0, <1>2, <1>3, <2>3 DEF Types
    <2>5. Shape' BY <1>0, <2>1, <2>2, <2>3 DEF Shape, CallShape, At, IsTurn
    <2>6. Registered' BY <1>0, <2>1, <2>2, <2>3 DEF Registered, At, Types
    <2>7. InOrder'
        BY <1>0, <1>1, <2>1, <2>2, <2>3, NoneIsNoCall DEF InOrder, At, IsTurn
    <2>8. Traces'
        <3>1. \A e \in Calls : call[e].stopped => call'[e].stopped = call[e].stopped
            BY <1>1, <2>2, <2>3
        <3>2. \A e \in Calls : e # c => call'[e].op = call[e].op BY <2>3
        <3>3. op = "interrupt" => call'[d].stopped BY <2>3
        <3>4. QED BY <1>0, <1>1, <2>1, <2>3, <3>1, <3>2, <3>3 DEF Traces
    <2>9. Sticks BY <1>1, <2>2, <2>3 DEF Sticks
    <2>10. \A e \in Calls : (Sent(e) => Sent(e)') /\ (Waits(e) => Waits(e)')
        BY <1>0, <1>1, <2>2, <2>3 DEF Waits, Sent, At, IsTurn
    <2>11. Quiet'
        BY <1>0, <1>4, <2>1, <2>2, <2>3, <2>9, <2>10, QuietFrame, NoneIsNoCall DEF Quiet, At
    <2>12. QED
        BY <1>0, <1>5, <2>4, <2>5, <2>6, <2>7, <2>8, <2>11 DEF Inv, OneMessage
<1>8. QED BY <1>6, <1>7 DEF Begin

-----------------------------------------------------------------------------
(* The readers. *)

(* Every waiter is failed, and perhaps every receiver is told of the exit. *)
LEMMA ClosesStep ==
    ASSUME Inv, pending' = {}, call' = Closed(call) \/ call' = Publish(Closed(call), Exit),
           UNCHANGED <<thread, active, manual, buf, approvals, toSrv, srv>>,
           expired' \in BOOLEAN, reader' \in [stdout: BOOLEAN, exit: BOOLEAN],
           reader'.stdout => reader.stdout, left' \in 0 .. Faults,
           out' = out \/ (out' = <<>> /\ ~reader'.stdout)
    PROVE  Inv'
<1>0. /\ Types /\ Shape /\ Registered /\ InOrder /\ Traces /\ Quiet /\ OneMessage
      /\ TextHasEnd /\ call \in [Calls -> Call]
    BY DEF Inv, Types
<1>1. /\ Closed(call) \in [Calls -> Call]
      /\ \A c \in Calls :
            /\ Closed(call)[c].op = call[c].op /\ Closed(call)[c].pc = call[c].pc
            /\ Closed(call)[c].stage = call[c].stage /\ Closed(call)[c].target = call[c].target
            /\ Closed(call)[c].sub = call[c].sub /\ Closed(call)[c].over = call[c].over
            /\ Closed(call)[c].stopped = call[c].stopped
            /\ Closed(call)[c].ans = IF \E s \in Stages : <<c, s>> \in pending
                                     THEN "closed" ELSE call[c].ans
    BY <1>0, ClosedIs
<1>2. /\ call' \in [Calls -> Call]
      /\ \A c \in Calls :
            /\ call'[c].op = call[c].op /\ call'[c].pc = call[c].pc
            /\ call'[c].stage = call[c].stage /\ call'[c].target = call[c].target
            /\ call'[c].sub = call[c].sub /\ call'[c].stopped = call[c].stopped
            /\ call'[c].ans = Closed(call)[c].ans
            /\ \/ call'[c].over = call[c].over
               \/ call'[c].over = Exit /\ call[c].over = None /\ call[c].sub
    BY <1>1, PublishIs
<1>3. Types'
    <2>1. <<>> \in Seq(Outbound) /\ out \in Seq(Outbound) BY <1>0 DEF Types
    <2>2. out' \in Seq(Outbound) BY <2>1
    <2>3. QED BY <1>0, <1>2, <2>2 DEF Types
<1>4. Shape' BY <1>0, <1>2 DEF Shape, CallShape, At, IsTurn
<1>5. Registered'
    <2>1. SUFFICES ASSUME NEW c \in Calls, call'[c].pc \in {"write", "wait"}, call'[c].ans = "none"
                   PROVE  FALSE
        BY DEF Registered
    <2>2. ~ (\E s \in Stages : <<c, s>> \in pending) /\ call[c].ans = "none"
        BY <1>1, <1>2, <2>1
    <2>3. call[c].stage \in Stages BY <1>0 DEF Call
    <2>4. QED BY <1>0, <1>2, <2>1, <2>2, <2>3 DEF Registered
<1>6. InOrder' BY <1>0, <1>2 DEF InOrder, At, IsTurn
<1>7. Traces' BY <1>0, <1>2 DEF Traces
<1>8. Quiet'
    <2>1. Sticks BY <1>2 DEF Sticks
    <2>2. \A d \in Calls : (Owed(d)' => Owed(d)) /\ (OneEnd(d) => OneEnd(d)')
        BY <1>0, EndsKeep
    <2>3. \A d \in Calls : (Sent(d) => Sent(d)') /\ (Waits(d) => Waits(d)')
        BY <1>2, NoneIsNoCall DEF Waits, Sent, At, IsTurn
    <2>4. QED BY <1>0, <1>2, <2>1, <2>2, <2>3, QuietFrame, NoneIsNoCall DEF Quiet, At
<1>9. TextHasEnd'
    <2>1. CASE out' = out BY <1>0, <2>1, TextFrame
    <2>2. CASE out' = <<>> /\ ~reader'.stdout BY <2>2 DEF TextHasEnd
    <2>3. QED BY <2>1, <2>2
<1>10. QED BY <1>0, <1>3, <1>4, <1>5, <1>6, <1>7, <1>8, <1>9 DEF Inv, OneMessage

LEMMA ReadersStop ==
    ASSUME Inv, ReaderStops \/ StderrAuth \/ ExitWatcher
    PROVE  Inv'
<1>0. /\ reader \in [stdout: BOOLEAN, exit: BOOLEAN] /\ expired \in BOOLEAN
      /\ left \in 0 .. Faults
    BY DEF Inv, Types
<1>1. CASE ReaderStops
    <2>1. reader' \in [stdout: BOOLEAN, exit: BOOLEAN] /\ ~reader'.stdout
        BY <1>0, <1>1 DEF ReaderStops
    <2>2. left' \in 0 .. Faults BY <1>0, <1>1, CodexAssumption DEF ReaderStops
    <2>3. QED BY <1>0, <1>1, <2>1, <2>2, ClosesStep DEF ReaderStops
<1>2. CASE StderrAuth
    BY <1>0, <1>2, ClosesStep DEF StderrAuth, UnchangedServer
<1>3. CASE ExitWatcher
    <2>1. reader' \in [stdout: BOOLEAN, exit: BOOLEAN] /\ reader'.stdout = reader.stdout
        BY <1>0, <1>3 DEF ExitWatcher
    <2>2. QED BY <1>0, <1>3, <2>1, ClosesStep DEF ExitWatcher, UnchangedServer
<1>4. QED BY <1>1, <1>2, <1>3

(* A line is routed: text keeps the end that follows it. *)
LEMMA RouteText ==
    ASSUME Types, TextHasEnd, out # <<>>, out' = Tail(out), srv' = srv, reader' = reader,
           Head(out).k # "done" \/ buf'.text = {},
           buf'.text \subseteq buf.text
              \/ (Head(out).k = "delta" /\ buf'.text \subseteq buf.text \cup {Head(out).x})
    PROVE  TextHasEnd'
<1>0. out \in Seq(Outbound) BY DEF Types
<1>1. SUFFICES ASSUME srv.alive, reader.stdout
               PROVE  /\ \A p \in buf'.text : Runs(p[1])' \/ EndSaid(p[1])'
                      /\ \A i \in DOMAIN out' :
                            out'[i].k = "delta" => Runs(out[i].c)' \/ EndAfter(i, out[i].c)'
    BY DEF TextHasEnd, Runs, EndSaid, EndAfter, Ends
<1>2. /\ \A i \in DOMAIN out' : i \in Nat /\ i + 1 \in DOMAIN out /\ out'[i] = out[i + 1]
      /\ \A i \in DOMAIN out : i # 1 => i \in Nat /\ i - 1 \in DOMAIN out' /\ out'[i - 1] = out[i]
      /\ 1 \in DOMAIN out /\ Head(out) = out[1] /\ Head(out) \in Outbound
    BY <1>0, TailFacts
<1>3. \A d : Runs(d) => Runs(d)' BY DEF Runs
<1>4. ASSUME NEW d, NEW i \in DOMAIN out', EndAfter(i + 1, d)
      PROVE  EndAfter(i, d)'
    <2>1. PICK j \in DOMAIN out : j > i + 1 /\ Ends(j, d) BY <1>4 DEF EndAfter
    <2>2. i \in Nat BY <1>2
    <2>3. j \in Nat /\ j # 1 BY <1>0, <2>1, <2>2
    <2>4. j - 1 \in DOMAIN out' /\ out'[j - 1] = out[j] BY <1>2, <2>3
    <2>5. j - 1 > i BY <2>1, <2>2, <2>3
    <2>6. Ends(j - 1, d)' BY <2>1, <2>4 DEF Ends
    <2>7. QED BY <2>4, <2>5, <2>6 DEF EndAfter
<1>5. ASSUME NEW d, EndAfter(1, d)
      PROVE  EndSaid(d)'
    <2>1. PICK j \in DOMAIN out : j > 1 /\ Ends(j, d) BY <1>5 DEF EndAfter
    <2>2. j # 1 BY <2>1, <1>0
    <2>3. j - 1 \in DOMAIN out' /\ out'[j - 1] = out[j] BY <1>2, <2>2
    <2>4. QED BY <2>1, <2>3 DEF EndSaid, Ends
<1>6. ASSUME NEW d, Head(out).k # "done", EndSaid(d)
      PROVE  EndSaid(d)'
    BY <1>2, <1>6 DEF EndSaid, Ends
<1>7. ASSUME NEW i \in DOMAIN out', NEW c, c = out'[i].c, out'[i].k = "delta"
      PROVE  Runs(c)' \/ EndAfter(i, c)'
    <2>1. i + 1 \in DOMAIN out /\ out[i + 1].k = "delta" /\ out[i + 1].c = c BY <1>2, <1>7
    <2>2. Runs(c) \/ EndAfter(i + 1, c) BY <1>1, <2>1 DEF TextHasEnd
    <2>3. QED BY <1>3, <1>4, <1>7, <2>2
<1>8. ASSUME NEW p \in buf'.text, NEW c, c = p[1]
      PROVE  Runs(c)' \/ EndSaid(c)'
    <2>1. Head(out).k # "done" BY <1>8
    <2>2. CASE p \in buf.text
        BY <1>1, <1>3, <1>6, <1>8, <2>1, <2>2 DEF TextHasEnd
    <2>3. CASE p \notin buf.text
        <3>1. Head(out).k = "delta" /\ p = Head(out).x BY <1>8, <2>3
        <3>2. p[1] = Head(out).c BY <1>2, <3>1, LineKinds
        <3>3. Runs(c) \/ EndAfter(1, c) BY <1>1, <1>2, <1>8, <3>1, <3>2 DEF TextHasEnd
        <3>4. QED BY <1>3, <1>5, <3>3
    <2>4. QED BY <2>2, <2>3
<1>9. QED BY <1>7, <1>8

(* The lines that leave the calls alone, and a response. *)
LEMMA RouteOther ==
    ASSUME Inv, NEW m, out # <<>>, out' = Tail(out), m = Head(out),
           UNCHANGED <<thread, active, expired, reader, srv, left>>,
           \/ RouteResponse(m) \/ RouteDelta(m) \/ RouteItemCompleted(m) \/ RouteRequest(m)
           \/ RouteCompacted(m)
    PROVE  Types' /\ Shape' /\ Registered' /\ InOrder' /\ Traces' /\ Quiet'
<1>0. /\ Types /\ Shape /\ Registered /\ InOrder /\ Traces /\ Quiet
      /\ call \in [Calls -> Call]
    BY DEF Inv, Types
<1>1. out' \in Seq(Outbound) /\ m \in Outbound BY <1>0, TailFacts DEF Types
<1>2. /\ call' \in [Calls -> Call]
      /\ \A c \in Calls :
            /\ call'[c].op = call[c].op /\ call'[c].pc = call[c].pc
            /\ call'[c].stage = call[c].stage /\ call'[c].target = call[c].target
            /\ call'[c].sub = call[c].sub /\ call'[c].stopped = call[c].stopped
      /\ \/ pending' = pending /\ \A c \in Calls : call'[c].ans = call[c].ans
         \/ /\ pending' = pending \ {<<m.c, m.x[1]>>}
            /\ IF <<m.c, m.x[1]>> \in pending
               THEN call'[m.c].ans # "none" /\ \A c \in Calls \ {m.c} : call'[c] = call[c]
               ELSE call' = call
      /\ Undisturbed => \A c \in Calls : call'[c].over = call[c].over
      /\ \A c \in Calls : call'[c].over # None => call'[c].sub
      /\ manual' \in BOOLEAN /\ (manual' => manual)
    <2>0. manual \in BOOLEAN /\ m.c \in Calls /\ \A c \in Calls : call[c].over # None => call[c].sub
        BY <1>0, <1>1, LineKinds DEF Types, Shape, CallShape
    <2>1. CASE RouteDelta(m) \/ RouteItemCompleted(m) \/ RouteRequest(m)
        BY <1>0, <2>0, <2>1 DEF RouteDelta, RouteItemCompleted, RouteRequest
    <2>2. CASE RouteResponse(m)
        <3>1. m.x[2] \in {"ok", "err", "auth"} BY <1>1, <2>2, LineKinds DEF RouteResponse
        <3>2. /\ pending' = pending \ {<<m.c, m.x[1]>>} /\ manual' = manual
              /\ call' = IF <<m.c, m.x[1]>> \in pending
                         THEN [call EXCEPT ![m.c].ans = m.x[2]] ELSE call
            BY <2>2 DEF RouteResponse
        <3>3. CASE <<m.c, m.x[1]>> \in pending
            <4>1. call' = [call EXCEPT ![m.c].ans = m.x[2]] BY <3>2, <3>3
            <4> DEFINE r == [call[m.c] EXCEPT !.ans = m.x[2]]
            <4>2. call[m.c] \in Call /\ m.x[2] \in Answers BY <1>0, <2>0, <3>1 DEF Answers
            <4>3. /\ r \in Call /\ r.ans = m.x[2] /\ r.op = call[m.c].op /\ r.pc = call[m.c].pc
                  /\ r.stage = call[m.c].stage /\ r.target = call[m.c].target
                  /\ r.sub = call[m.c].sub /\ r.stopped = call[m.c].stopped
                  /\ r.over = call[m.c].over
                BY <4>2 DEF Call
            <4>4. call' = [call EXCEPT ![m.c] = r] BY <4>1
            <4> HIDE DEF r
            <4>5. /\ call' \in [Calls -> Call] /\ call'[m.c] = r
                  /\ \A c \in Calls \ {m.c} : call'[c] = call[c]
                BY <1>0, <2>0, <4>3, <4>4
            <4>6. call'[m.c].ans # "none" BY <3>1, <4>3, <4>5
            <4>7. \A c \in Calls : 
                    /\ call'[c].op = call[c].op /\ call'[c].pc = call[c].pc
                    /\ call'[c].stage = call[c].stage /\ call'[c].target = call[c].target
                    /\ call'[c].sub = call[c].sub /\ call'[c].stopped = call[c].stopped
                    /\ call'[c].over = call[c].over
                BY <4>3, <4>5
            <4>8. QED BY <2>0, <3>2, <3>3, <4>5, <4>6, <4>7
        <3>4. CASE <<m.c, m.x[1]>> \notin pending
            BY <1>0, <2>0, <3>2, <3>4
        <3>5. QED BY <3>3, <3>4
    <2>3. CASE RouteCompacted(m)
        <3>1. /\ pending' = pending /\ manual' = FALSE
              /\ call' = IF manual THEN Publish(call, m.c) ELSE call
            BY <2>3 DEF RouteCompacted
        <3>2. Undisturbed => ~manual BY <1>0 DEF Traces, Undisturbed, Disturbed, Calls
        <3>3. CASE manual
            <4>1. call' = Publish(call, m.c) BY <3>1, <3>3
            <4>2. /\ call' \in [Calls -> Call]
                  /\ \A c \in Calls :
                        /\ call'[c].op = call[c].op /\ call'[c].pc = call[c].pc
                        /\ call'[c].stage = call[c].stage /\ call'[c].target = call[c].target
                        /\ call'[c].sub = call[c].sub /\ call'[c].ans = call[c].ans
                        /\ call'[c].stopped = call[c].stopped
                        /\ call'[c].over = IF call[c].sub /\ call[c].over = None THEN m.c
                                           ELSE call[c].over
                BY <1>0, <2>0, <4>1, PublishIs
            <4>3. \A c \in Calls : call'[c].over # None => call'[c].sub BY <2>0, <4>2
            <4>4. QED BY <3>1, <3>2, <3>3, <4>2, <4>3
        <3>4. CASE ~manual
            <4>1. call' = call BY <3>1, <3>4
            <4>2. QED BY <1>0, <2>0, <3>1, <4>1
        <3>5. QED BY <3>3, <3>4
    <2>4. QED BY <2>1, <2>2, <2>3
<1>3. Types'
    <2>1. approvals' \subseteq Calls
        BY <1>0, <1>1, LineKinds DEF Types, RouteResponse, RouteDelta, RouteItemCompleted,
           RouteRequest, RouteCompacted
    <2>2. toSrv' \in Seq(Inbound)
        <3>1. toSrv' = toSrv \/ toSrv' = Append(toSrv, Msg("reply", None, None))
            BY DEF RouteResponse, RouteDelta, RouteItemCompleted, RouteRequest, RouteCompacted
        <3>2. toSrv \in Seq(Inbound) BY <1>0 DEF Types
        <3>3. Append(toSrv, Msg("reply", None, None)) \in Seq(Inbound)
            BY <3>2, ReplyIn, AppendFacts
        <3>4. QED BY <3>1, <3>2, <3>3
    <2>3. buf' \in Buffer
        <3>1. CASE RouteDelta(m)
            <4>1. m.x \in Items BY <1>1, <3>1, LineKinds DEF RouteDelta
            <4>2. QED BY <1>0, <3>1, <4>1 DEF RouteDelta, Types, Buffer
        <3>2. CASE ~RouteDelta(m)
            BY <1>0, <3>2 DEF Types, Buffer, NoText, RouteResponse, RouteItemCompleted,
               RouteRequest, RouteCompacted
        <3>3. QED BY <3>1, <3>2
    <2>4. pending' \subseteq Calls \X Stages BY <1>0, <1>2 DEF Types
    <2>5. QED BY <1>0, <1>1, <1>2, <2>1, <2>2, <2>3, <2>4 DEF Types
<1>4. Shape' BY <1>0, <1>2 DEF Shape, CallShape, At, IsTurn
<1>5. Registered'
    <2>1. CASE pending' = pending /\ \A c \in Calls : call'[c].ans = call[c].ans
        <3>1. \A p \in pending : p[1] \in Calls BY <1>0 DEF Types
        <3>2. QED BY <1>0, <1>2, <2>1, <3>1 DEF Registered
    <2>2. CASE /\ pending' = pending \ {<<m.c, m.x[1]>>}
               /\ IF <<m.c, m.x[1]>> \in pending
                  THEN call'[m.c].ans # "none" /\ \A c \in Calls \ {m.c} : call'[c] = call[c]
                  ELSE call' = call
        BY <1>0, <1>2, <2>2 DEF Registered, Types
    <2>3. QED BY <1>2, <2>1, <2>2
<1>6. InOrder' BY <1>0, <1>2 DEF InOrder, At, IsTurn
<1>7. Traces' BY <1>0, <1>2 DEF Traces
<1>8. Quiet'
    <2>1. Sticks BY <1>2 DEF Sticks
    <2>2. /\ toSrv' = toSrv
             \/ \E e \in Inbound : e.k \notin {"turn", "compact"} /\ toSrv' = Append(toSrv, e)
        <3>1. Msg("reply", None, None).k \notin {"turn", "compact"} BY DEF Msg
        <3>2. QED
            BY <3>1, ReplyIn DEF RouteResponse, RouteDelta, RouteItemCompleted,
               RouteRequest, RouteCompacted
    <2>3. \A d \in Calls : (Owed(d)' => Owed(d)) /\ (OneEnd(d) => OneEnd(d)')
        BY <1>0, <2>2, EndsKeep
    <2>4. Undisturbed => \A d \in Calls : (Sent(d) => Sent(d)') /\ (Waits(d) => Waits(d)')
        BY <1>2 DEF Waits, Sent, At, IsTurn
    <2>5. QED BY <1>0, <1>2, <2>1, <2>3, <2>4, QuietFrame DEF Quiet, At
<1>9. QED BY <1>3, <1>4, <1>5, <1>6, <1>7, <1>8

(* The end of a turn: in an undisturbed session it is the end of the turn whose *)
(* pump waits.                                                                 *)
LEMMA RouteEnd ==
    ASSUME Inv, NEW m, out # <<>>, out' = Tail(out), m = Head(out),
           UNCHANGED <<thread, expired, reader, srv, left>>, RouteTurnEnd(m)
    PROVE  Types' /\ Shape' /\ Registered' /\ InOrder' /\ Traces' /\ Quiet'
<1>0. /\ Types /\ Shape /\ Registered /\ InOrder /\ Traces /\ Quiet
      /\ call \in [Calls -> Call]
    BY DEF Inv, Types
<1>1. /\ out' \in Seq(Outbound) /\ m \in Outbound /\ m.c \in Calls /\ m.k = "done"
      /\ active' = None /\ manual' = FALSE /\ buf' = NoText
      /\ UNCHANGED <<pending, approvals, toSrv>>
    BY <1>0, TailFacts, LineKinds DEF Types, RouteTurnEnd
<1>2. /\ call' \in [Calls -> Call]
      /\ \A c \in Calls :
            /\ call'[c].op = call[c].op /\ call'[c].pc = call[c].pc
            /\ call'[c].stage = call[c].stage /\ call'[c].target = call[c].target
            /\ call'[c].sub = call[c].sub /\ call'[c].stopped = call[c].stopped
            /\ call'[c].ans = call[c].ans
            /\ call'[c].over = IF call[c].sub /\ call[c].over = None THEN m.c ELSE call[c].over
    BY <1>0, <1>1, PublishIs DEF RouteTurnEnd
<1>3. Types'
    <2>1. buf' \in Buffer BY <1>1 DEF NoText, Buffer
    <2>2. QED BY <1>0, <1>1, <1>2, <2>1 DEF Types
<1>4. Shape' BY <1>0, <1>2 DEF Shape, CallShape, At, IsTurn
<1>5. Registered'
    <2>1. \A p \in pending : p[1] \in Calls BY <1>0 DEF Types
    <2>2. QED BY <1>0, <1>1, <1>2, <2>1 DEF Registered
<1>6. InOrder' BY <1>0, <1>2 DEF InOrder, At, IsTurn
<1>7. Traces' BY <1>0, <1>1, <1>2 DEF Traces
<1>8. Quiet'
    <2>1. Sticks BY <1>2 DEF Sticks
    <2>2. \A d \in Calls : (Owed(d)' => Owed(d)) /\ (OneEnd(d) => OneEnd(d)')
        BY <1>0, <1>1, EndsKeep
    <2>3. SUFFICES ASSUME Undisturbed', NEW d \in Calls
                   PROVE  /\ OneEnd(d)' /\ (Owed(d)' => Waits(d)')
                          /\ call'[d].over \in Calls => call'[d].over = d /\ Sent(d)'
                          /\ call'[d].pc = "pump" /\ call'[d].over = None => active' = d
        BY DEF Quiet, At
    <2>4. Undisturbed BY <2>1, <2>3, DisturbedStays
    <2>5. OneEnd(d) /\ OneEnd(m.c) /\ (Owed(d) => Waits(d)) /\ (Owed(m.c) => Waits(m.c))
        BY <1>0, <1>1, <2>4 DEF Quiet
    <2>6. EndSaid(m.c) /\ Owed(m.c) /\ Waits(m.c)
        <3>1. Ends(1, m.c) /\ 1 \in DOMAIN out BY <1>0, <1>1, TailFacts DEF Types, Ends
        <3>2. QED BY <2>5, <3>1 DEF EndSaid, Owed
    <2>7. ASSUME NEW c, c = m.c PROVE ~Owed(c)'
        <3>1. EndSaid(c) /\ ~EndSaid(c)'
            BY <1>0, <1>1, <2>5, <2>7, SaidLeaves DEF OneEnd
        <3>2. ~Asked(c)' /\ ~Runs(c)'
            BY <1>0, <1>1, <2>5, <2>7, <3>1, AskedKeeps, RunsKeeps DEF OneEnd
        <3>3. QED BY <3>1, <3>2 DEF Owed
    <2>8. ASSUME IsTurn(d), ~At(d, "done") PROVE d = m.c
        BY <1>0, <1>1, <2>4, <2>6, <2>8, OneTurn DEF Waits, Sent, At
    <2>9. Owed(d)' => Waits(d)'
        <3>1. SUFFICES ASSUME Owed(d)' PROVE FALSE OBVIOUS
        <3>2. Waits(d) BY <2>2, <2>5, <3>1
        <3>3. d = m.c BY <2>8, <3>2 DEF Waits, Sent, At
        <3>4. QED BY <2>7, <3>1, <3>3
    <2>10. ASSUME call'[d].over \in Calls PROVE call'[d].over = d /\ Sent(d)'
        <3>1. CASE call[d].sub /\ call[d].over = None
            <4>1. IsTurn(d) /\ ~At(d, "done") BY <1>0, <3>1 DEF Shape, CallShape, At
            <4>2. d = m.c BY <2>8, <4>1
            <4>3. QED BY <1>2, <2>6, <3>1, <4>2 DEF Waits, Sent, At, IsTurn
        <3>2. CASE ~ (call[d].sub /\ call[d].over = None)
            BY <1>0, <1>2, <2>4, <2>10, <3>2 DEF Quiet, Sent, At, IsTurn
        <3>3. QED BY <3>1, <3>2
    <2>11. call'[d].pc = "pump" => call'[d].over # None
        BY <1>0, <1>1, <1>2, NoneIsNoCall DEF Shape, CallShape, At
    <2>12. QED BY <2>2, <2>5, <2>9, <2>10, <2>11
<1>9. QED BY <1>3, <1>4, <1>5, <1>6, <1>7, <1>8

LEMMA RouteStep ==
    ASSUME Inv, Route
    PROVE  Inv'
<1> DEFINE m == Head(out)
<1>0. /\ Types /\ TextHasEnd /\ OneMessage /\ out # <<>> /\ out' = Tail(out)
      /\ UNCHANGED <<thread, expired, reader, srv, left>>
    BY DEF Inv, Route
<1>1. m = Head(out) /\ m \in Outbound BY <1>0, TailFacts DEF Types
<1>2. \/ RouteResponse(m) \/ RouteDelta(m) \/ RouteItemCompleted(m) \/ RouteRequest(m)
      \/ RouteCompacted(m) \/ RouteTurnEnd(m)
    BY DEF Route
<1> HIDE DEF m
<1>3. Types' /\ Shape' /\ Registered' /\ InOrder' /\ Traces' /\ Quiet'
    <2>1. CASE RouteTurnEnd(m) BY <1>0, <1>1, <2>1, RouteEnd
    <2>2. CASE ~RouteTurnEnd(m)
        <3>1. active' = active
            BY <1>2, <2>2 DEF RouteResponse, RouteDelta, RouteItemCompleted, RouteRequest,
               RouteCompacted
        <3>2. QED BY <1>0, <1>1, <1>2, <2>2, <3>1, RouteOther
    <2>3. QED BY <2>1, <2>2
<1>4. /\ OneMessage'
      /\ m.k # "done" \/ buf'.text = {}
      /\ buf'.text \subseteq buf.text
            \/ (m.k = "delta" /\ buf'.text \subseteq buf.text \cup {m.x})
    <2>1. CASE RouteDelta(m)
        <3>1. m.k = "delta" /\ m.x \in Items BY <1>1, <2>1, LineKinds DEF RouteDelta
        <3>2. m.x # None BY <3>1, CodexAssumption DEF Items, Calls
        <3>3. /\ buf'.item = m.x
              /\ buf'.text = {m.x} \cup IF buf.item \notin {None, m.x} THEN {} ELSE buf.text
            BY <2>1 DEF RouteDelta
        <3>4. QED BY <1>0, <3>1, <3>2, <3>3 DEF OneMessage
    <2>2. CASE RouteTurnEnd(m)
        BY <2>2 DEF RouteTurnEnd, NoText, OneMessage
    <2>3. CASE ~RouteDelta(m) /\ ~RouteTurnEnd(m)
        BY <1>0, <1>2, <2>3 DEF RouteResponse, RouteItemCompleted, RouteRequest, RouteCompacted,
           NoText, OneMessage
    <2>4. QED BY <2>1, <2>2, <2>3
<1>5. TextHasEnd' BY <1>0, <1>1, <1>4, RouteText
<1>6. QED BY <1>3, <1>4, <1>5 DEF Inv

-----------------------------------------------------------------------------
(* The server. *)

LEMMA ServerFrame ==
    ASSUME Inv, UNCHANGED client, Types', TextHasEnd',
           \A d \in Calls : \/ OneEnd(d)' /\ (Owed(d)' => Owed(d))
                            \/ ~OneEnd(d) \/ ~Undisturbed
    PROVE  Inv'
<1>1. /\ Shape' /\ Registered' /\ InOrder' /\ Traces' /\ OneMessage' /\ Sticks
      /\ (Undisturbed' <=> Undisturbed)
    BY DEF Inv, client, Shape, CallShape, Registered, InOrder, Traces, OneMessage, Sticks,
       At, IsTurn, Undisturbed, Disturbed
<1>2. \A d \in Calls : (Sent(d)' <=> Sent(d)) /\ (Waits(d)' <=> Waits(d))
    BY DEF client, Sent, Waits, At, IsTurn
<1>3. Quiet' BY <1>1, <1>2 DEF Inv, Quiet, client, At
<1>4. QED BY <1>1, <1>3 DEF Inv

(* What is said adds no text without a turn that runs. *)
LEMMA SaysText ==
    ASSUME Types, TextHasEnd, buf' = buf, reader' = reader, srv'.alive => srv.alive,
           \A d : Runs(d) => Runs(d)',
           NEW e \in Outbound, NEW f \in Outbound,
           e.k # "delta" \/ Runs(e.c), f.k # "delta" \/ Runs(f.c),
           out' = out \/ out' = Append(out, e) \/ out' = Append(Append(out, e), f)
    PROVE  TextHasEnd'
<1>0. out \in Seq(Outbound) BY DEF Types
<1>1. /\ Append(out, e) \in Seq(Outbound)
      /\ \A i \in DOMAIN out : i \in DOMAIN Append(out, e) /\ Append(out, e)[i] = out[i]
      /\ \A i \in DOMAIN Append(out, e) : i \in DOMAIN out \/ Append(out, e)[i] = e
    BY <1>0, AppendFacts
<1>2. /\ \A i \in DOMAIN out : i \in DOMAIN out' /\ out'[i] = out[i]
      /\ \A i \in DOMAIN out' : i \in DOMAIN out \/ out'[i] = e \/ out'[i] = f
    <2>1. CASE out' = out BY <2>1
    <2>2. CASE out' = Append(out, e) BY <1>1, <2>2
    <2>3. CASE out' = Append(Append(out, e), f)
        <3>1. /\ \A i \in DOMAIN Append(out, e) : i \in DOMAIN out' /\ out'[i] = Append(out, e)[i]
              /\ \A i \in DOMAIN out' : i \in DOMAIN Append(out, e) \/ out'[i] = f
            BY <1>1, <2>3, AppendFacts
        <3>2. QED BY <1>1, <3>1
    <2>4. QED BY <2>1, <2>2, <2>3
<1>3. \A i \in DOMAIN out : \A d : Ends(i, d) => i \in DOMAIN out' /\ Ends(i, d)'
    BY <1>2 DEF Ends
<1>4. \A d : EndSaid(d) => EndSaid(d)' BY <1>3 DEF EndSaid
<1>5. \A i \in DOMAIN out : \A d : EndAfter(i, d) => EndAfter(i, d)' BY <1>3 DEF EndAfter
<1>6. SUFFICES ASSUME srv.alive, reader.stdout
               PROVE  /\ \A p \in buf.text : Runs(p[1])' \/ EndSaid(p[1])'
                      /\ \A i \in DOMAIN out' :
                            out'[i].k = "delta" => Runs(out[i].c)' \/ EndAfter(i, out[i].c)'
    BY DEF TextHasEnd, Runs, EndSaid, EndAfter, Ends
<1>7. \A p \in buf.text : Runs(p[1])' \/ EndSaid(p[1])'
    <2>1. SUFFICES ASSUME NEW p \in buf.text, NEW c, c = p[1]
                   PROVE  Runs(c)' \/ EndSaid(c)'
        OBVIOUS
    <2>2. QED BY <1>4, <1>6, <2>1 DEF TextHasEnd
<1>8. ASSUME NEW i \in DOMAIN out', NEW c, c = out'[i].c, out'[i].k = "delta"
      PROVE  Runs(c)' \/ EndAfter(i, c)'
    <2>1. CASE i \in DOMAIN out
        <3>1. out[i].k = "delta" /\ out[i].c = c BY <1>2, <1>8, <2>1
        <3>2. Runs(c) \/ EndAfter(i, c) BY <1>6, <2>1, <3>1 DEF TextHasEnd
        <3>3. QED BY <1>5, <2>1, <3>2
    <2>2. CASE i \notin DOMAIN out BY <1>2, <1>8, <2>2
    <2>3. QED BY <2>1, <2>2
<1>9. QED BY <1>7, <1>8

(* The turn that runs ends, and its end is the last thing said. *)
LEMMA TurnEnds ==
    ASSUME Inv, NEW e \in Outbound, e.k \notin {"done", "delta"},
           NEW c \in Calls, c = Running, srv' = EndTurn,
           toSrv' = toSrv \/ (toSrv # <<>> /\ toSrv' = Tail(toSrv)),
           \/ Say(<<Msg("done", c, None)>>) \/ Say(<<e, Msg("done", c, None)>>),
           UNCHANGED <<client, left>>
    PROVE  Inv'
<1>0. Types /\ TextHasEnd /\ reader \in [stdout: BOOLEAN, exit: BOOLEAN] BY DEF Inv, Types
<1>1. /\ srv.turns # <<>> /\ c = srv.turns[1] /\ c \in Calls /\ srv.turns \in Seq(Calls)
    BY <1>0, RunningIs, NoneIsNoCall
<1>2. /\ srv'.turns = Tail(srv.turns) /\ srv' \in Server /\ srv'.alive = srv.alive
    BY <1>0, <1>1, TailFacts DEF EndTurn, Types, Server
<1>3. toSrv' \in Seq(Inbound)
    <2>1. toSrv \in Seq(Inbound) BY <1>0 DEF Types
    <2>2. QED BY <2>1, TailFacts
<1>4. /\ \/ Say(<<Msg("done", c, None)>>) \/ Say(<<e, Msg("done", c, None)>>)
      /\ Msg("done", c, None) \in Outbound
    BY <1>1, NoticeOut
<1>5. /\ out' \in Seq(Outbound)
      /\ reader.stdout => \/ out' = Append(out, Msg("done", c, None))
                          \/ out' = Append(Append(out, e), Msg("done", c, None))
      /\ ~reader.stdout => out' = out
    BY <1>0, <1>4, SaysOne, SaysTwo
<1>6. Types' BY <1>0, <1>2, <1>3, <1>5 DEF Types, client
<1>7. CASE ~reader.stdout
    <2>1. \A d \in Calls : (Owed(d)' => Owed(d)) /\ (OneEnd(d) => OneEnd(d)')
        BY <1>0, <1>1, <1>2, <1>5, <1>7, EndsKeep
    <2>2. TextHasEnd' BY <1>7 DEF TextHasEnd, client
    <2>3. QED BY <1>6, <2>1, <2>2, ServerFrame
<1>8. CASE reader.stdout
    <2>1. /\ \A d \in Calls : /\ EndSaid(d)' <=> EndSaid(d) \/ d = c
                              /\ SaidOnce(d) /\ (d = c => ~EndSaid(d)) => SaidOnce(d)'
          /\ \A i \in DOMAIN out : /\ i \in DOMAIN out' /\ out'[i] = out[i]
                                   /\ EndAfter(i, c)'
                                   /\ \A d \in Calls : EndAfter(i, d) => EndAfter(i, d)'
          /\ \A i \in DOMAIN out' : i \in DOMAIN out \/ out'[i] \in {e, Msg("done", c, None)}
        <3>1. PICK s \in Seq(Outbound) :
                (s = out \/ s = Append(out, e)) /\ out' = Append(s, Msg("done", c, None))
            <4>1. out \in Seq(Outbound) /\ Append(out, e) \in Seq(Outbound)
                BY <1>0, AppendFacts DEF Types
            <4>2. QED BY <1>5, <1>8, <4>1
        <3>2. QED BY <1>0, <1>1, <3>1, SaidMoves
    <2>2. Runs(c) /\ (RunsOnce(c) => ~Runs(c)') /\ \A d \in Calls : Runs(d) /\ d # c => Runs(d)'
        BY <1>0, <1>1, <1>2, RunsLeaves
    <2>3. \A d \in Calls : /\ (Asked(d)' => Asked(d)) /\ (AskedOnce(d) => AskedOnce(d)')
                           /\ (Runs(d)' => Runs(d)) /\ (RunsOnce(d) => RunsOnce(d)')
        BY <1>0, <1>1, <1>2, AskedKeeps, RunsKeeps
    <2>4. ASSUME NEW d \in Calls PROVE (OneEnd(d) => OneEnd(d)') /\ (Owed(d)' => Owed(d))
        <3>1. CASE d = c
            BY <1>1, <2>1, <2>2, <2>3, <3>1 DEF OneEnd, Owed
        <3>2. CASE d # c
            BY <2>1, <2>3, <3>2 DEF OneEnd, Owed
        <3>3. QED BY <3>1, <3>2
    <2>5. TextHasEnd'
        <3>1. SUFFICES ASSUME srv.alive
                       PROVE  /\ \A p \in buf.text : Runs(p[1])' \/ EndSaid(p[1])'
                              /\ \A i \in DOMAIN out' :
                                    out'[i].k = "delta" => Runs(out[i].c)' \/ EndAfter(i, out[i].c)'
            BY <1>2, <1>8 DEF TextHasEnd, Runs, EndSaid, EndAfter, Ends, client
        <3>2. ASSUME NEW p \in buf.text, NEW d, d = p[1]
              PROVE  Runs(d)' \/ EndSaid(d)'
            <4>1. d \in Calls BY <1>0, <3>2 DEF Types, Buffer, Items
            <4>2. Runs(d) \/ EndSaid(d) BY <1>0, <1>8, <3>1, <3>2 DEF TextHasEnd
            <4>3. QED BY <2>1, <2>2, <4>1, <4>2
        <3>3. ASSUME NEW i \in DOMAIN out', NEW d, d = out'[i].c, out'[i].k = "delta"
              PROVE  Runs(d)' \/ EndAfter(i, d)'
            <4>1. i \in DOMAIN out
                <5>1. Msg("done", c, None).k # "delta" BY DEF Msg
                <5>2. QED BY <2>1, <3>3, <5>1
            <4>2. out[i].k = "delta" /\ out[i].c = d /\ out[i] \in Outbound
                BY <1>0, <2>1, <3>3, <4>1 DEF Types
            <4>3. d \in Calls BY <4>2, LineKinds
            <4>4. Runs(d) \/ EndAfter(i, d) BY <1>0, <1>8, <3>1, <4>1, <4>2 DEF TextHasEnd
            <4>5. QED BY <2>1, <2>2, <4>1, <4>3, <4>4
        <3>4. QED BY <3>2, <3>3
    <2>6. QED BY <1>6, <2>4, <2>5, ServerFrame
<1>9. QED BY <1>7, <1>8

(* A step of the server in which no end moves. *)
LEMMA ServerSays ==
    ASSUME Inv, NEW e \in Outbound, NEW f \in Outbound, e.k # "done", f.k # "done",
           e.k # "delta" \/ Runs(e.c), f.k # "delta" \/ Runs(f.c),
           out' = out \/ Say(<<e>>) \/ Say(<<e, f>>),
           toSrv' = toSrv \/ (toSrv # <<>> /\ toSrv' = Tail(toSrv)),
           srv' \in Server, srv'.turns = srv.turns, srv'.alive = srv.alive,
           UNCHANGED <<client, left>>
    PROVE  Inv'
<1>0. Types /\ TextHasEnd BY DEF Inv
<1>1. out' \in Seq(Outbound)
      /\ (out' = out \/ out' = Append(out, e) \/ out' = Append(Append(out, e), f))
    <2>1. out \in Seq(Outbound) /\ reader \in [stdout: BOOLEAN, exit: BOOLEAN] BY <1>0 DEF Types
    <2>2. QED BY <1>0, <2>1, SaysOne, SaysTwo
<1>2. toSrv' \in Seq(Inbound)
    <2>1. toSrv \in Seq(Inbound) BY <1>0 DEF Types
    <2>2. QED BY <2>1, TailFacts
<1>3. Types' BY <1>0, <1>1, <1>2 DEF Types, client
<1>4. \A d : Runs(d) => Runs(d)' BY DEF Runs
<1>5. TextHasEnd' BY <1>0, <1>1, <1>4, SaysText DEF client
<1>6. \A d \in Calls : (Owed(d)' => Owed(d)) /\ (OneEnd(d) => OneEnd(d)')
    BY <1>0, <1>1, EndsKeep
<1>7. QED BY <1>3, <1>5, <1>6, ServerFrame

(* A turn is begun: its end is no more in its request, but in the server. *)
LEMMA TurnBegins ==
    ASSUME Inv, NEW m \in Inbound, NEW c \in Calls, toSrv # <<>>, m = Head(toSrv), c = m.c,
           toSrv' = Tail(toSrv), m.k \in {"turn", "compact"},
           Say(<<Response(m, "ok")>>), srv' = [srv EXCEPT !.turns = Append(@, c)],
           UNCHANGED <<client, left>>
    PROVE  Inv'
<1>0. Types /\ TextHasEnd /\ srv \in Server /\ srv.turns \in Seq(Calls)
    BY DEF Inv, Types, Server
<1> DEFINE e == Response(m, "ok")
<1>1. e \in Outbound /\ e.k = "rsp" /\ Say(<<e>>)
    BY ResponseOut
<1> HIDE DEF e
<1>2. out' \in Seq(Outbound) /\ (out' = out \/ out' = Append(out, e))
    <2>1. reader \in [stdout: BOOLEAN, exit: BOOLEAN] BY <1>0 DEF Types
    <2>2. QED BY <1>0, <1>1, <2>1, SaysOne
<1>3. srv'.turns = Append(srv.turns, c) /\ srv'.alive = srv.alive /\ srv' \in Server
    BY <1>0, AppendFacts DEF Server
<1>4. toSrv' \in Seq(Inbound)
    <2>1. toSrv \in Seq(Inbound) BY <1>0 DEF Types
    <2>2. QED BY <2>1, TailFacts
<1>5. Types' BY <1>0, <1>2, <1>3, <1>4 DEF Types, client
<1>6. \A d \in Calls : /\ Runs(d)' <=> Runs(d) \/ d = c
                       /\ RunsOnce(d) /\ (d = c => ~Runs(d)) => RunsOnce(d)'
    BY <1>0, <1>3, RunsMoves
<1>7. \A d \in Calls : /\ (Asked(d)' => Asked(d)) /\ (AskedOnce(d) => AskedOnce(d)')
                       /\ (EndSaid(d)' => EndSaid(d)) /\ (SaidOnce(d) => SaidOnce(d)')
    BY <1>0, <1>1, <1>2, AskedKeeps, SaidKeeps
<1>8. AskedOnce(c) => Asked(c) /\ ~Asked(c)' BY <1>0, AskedLeaves
<1>9. Asked(c)
    <2>1. 1 \in DOMAIN toSrv /\ toSrv[1] = m
        BY <1>0, TailFacts DEF Types
    <2>2. QED BY <2>1 DEF Asked, Asks
<1>10. ASSUME NEW d \in Calls PROVE (OneEnd(d) => OneEnd(d)') /\ (Owed(d)' => Owed(d))
    <2>1. CASE d = c BY <1>6, <1>7, <1>8, <1>9, <2>1 DEF OneEnd, Owed
    <2>2. CASE d # c BY <1>6, <1>7, <2>2 DEF OneEnd, Owed
    <2>3. QED BY <2>1, <2>2
<1>11. \A d : Runs(d) => Runs(d)'
    <2>1. \A i \in DOMAIN srv.turns : i \in DOMAIN srv'.turns /\ srv'.turns[i] = srv.turns[i]
        BY <1>0, <1>3, AppendFacts
    <2>2. QED BY <2>1 DEF Runs
<1>12. TextHasEnd'
    BY <1>0, <1>1, <1>2, <1>3, <1>11, SaysText DEF client
<1>13. QED BY <1>5, <1>10, <1>12, ServerFrame

LEMMA ServerReadsStep ==
    ASSUME Inv, ServerReads
    PROVE  Inv'
<1>0. Types /\ srv \in Server /\ toSrv \in Seq(Inbound) BY DEF Inv, Types
<1> DEFINE m == Head(toSrv)
<1>1. /\ toSrv # <<>> /\ toSrv' = Tail(toSrv) /\ m \in Inbound /\ m = Head(toSrv)
      /\ UNCHANGED <<client, left>>
    BY <1>0, TailFacts DEF ServerReads
<1>2. \/ m.k = "thread" /\ Say(<<Response(m, "ok")>>) /\ UNCHANGED srv
      \/ /\ m.k \in {"turn", "compact"} /\ srv.auth
         /\ Say(<<Response(m, "ok")>>)
         /\ srv' = [srv EXCEPT !.turns = Append(@, m.c)]
      \/ /\ m.k \in {"turn", "compact"} /\ ~srv.auth
         /\ (Say(<<Response(m, "auth")>>) \/ UNCHANGED out)
         /\ UNCHANGED srv
      \/ /\ m.k \in {"steer", "interrupt"} /\ m.x # Running
         /\ Say(<<Response(m, "err")>>) /\ UNCHANGED srv
      \/ m.k = "steer" /\ m.x = Running /\ Say(<<Response(m, "ok")>>) /\ UNCHANGED srv
      \/ /\ m.k = "interrupt" /\ m.x = Running
         /\ Say(<<Response(m, "ok"), Msg("done", m.x, None)>>)
         /\ srv' = EndTurn
      \/ m.k = "reply" /\ srv' = [srv EXCEPT !.ask = FALSE] /\ UNCHANGED out
    BY DEF ServerReads
<1> HIDE DEF m
<1>3. CASE m.k = "reply" /\ srv' = [srv EXCEPT !.ask = FALSE] /\ UNCHANGED out
    <2>1. srv' \in Server /\ srv'.turns = srv.turns /\ srv'.alive = srv.alive
        BY <1>0, <1>3 DEF Server
    <2>2. PICK e \in Outbound : e.k = "ask"
        <3>1. Msg("ask", N, None) \in Outbound BY NoticeOut, NoneIsNoCall
        <3>2. QED BY <3>1 DEF Msg
    <2>3. QED BY <1>1, <1>3, <2>1, <2>2, ServerSays
<1>4. ASSUME NEW a \in {"ok", "err", "auth"}, m.k # "reply",
             UNCHANGED out \/ Say(<<Response(m, a)>>), UNCHANGED srv
      PROVE  Inv'
    <2>1. Response(m, a) \in Outbound /\ Response(m, a).k = "rsp"
        BY <1>1, <1>4, ResponseOut
    <2>2. QED BY <1>0, <1>1, <1>4, <2>1, ServerSays
<1>5. CASE /\ m.k \in {"turn", "compact"}
           /\ Say(<<Response(m, "ok")>>)
           /\ srv' = [srv EXCEPT !.turns = Append(@, m.c)]
    <2>1. m.c \in Calls BY <1>1, <1>5 DEF Inbound
    <2>2. QED BY <1>1, <1>5, <2>1, TurnBegins
<1>6. CASE /\ m.k = "interrupt" /\ m.x = Running
           /\ Say(<<Response(m, "ok"), Msg("done", m.x, None)>>)
           /\ srv' = EndTurn
    <2>1. m.x \in Calls BY <1>1, <1>6 DEF Inbound
    <2>2. Response(m, "ok") \in Outbound /\ Response(m, "ok").k = "rsp"
        BY <1>1, <1>6, ResponseOut
    <2>3. QED BY <1>1, <1>6, <2>1, <2>2, TurnEnds
<1>7. QED BY <1>2, <1>3, <1>4, <1>5, <1>6

LEMMA ServerTalksStep ==
    ASSUME Inv, ServerTalks
    PROVE  Inv'
<1>0. /\ Types /\ srv \in Server /\ srv.extras < Extras /\ srv.extras \in Nat
      /\ Running # None /\ UNCHANGED <<client, toSrv, left>>
    BY NoneIsNoCall DEF Inv, Types, Server, ServerTalks, Working
<1> DEFINE c == Running
           n == 2 * srv.extras + 1
<1>1. /\ c \in Calls /\ Runs(c)
    <2>1. /\ srv.turns # <<>> /\ c = srv.turns[1] /\ c \in Calls /\ srv.turns \in Seq(Calls)
        BY <1>0, RunningIs
    <2>2. 1 \in DOMAIN srv.turns BY <2>1, TailFacts
    <2>3. QED BY <2>1, <2>2 DEF Runs
<1>2. n \in 1 .. 2 * Extras /\ n + 1 \in 1 .. 2 * Extras
    BY <1>0, NoneIsNoCall
<1>3. \/ Say(<<Msg("delta", c, <<c, n>>), Msg("item", c, <<c, n>>)>>)
      \/ Say(<<Msg("delta", c, <<c, n>>), Msg("delta", c, <<c, n + 1>>)>>)
      \/ \E k \in {"ask", "odd", "compacted"} : Say(<<Msg(k, c, None)>>)
    <2>1. 2 * srv.extras + 2 = n + 1 BY <1>0
    <2>2. QED BY <2>1 DEF ServerTalks
<1>4. srv' \in Server /\ srv'.turns = srv.turns /\ srv'.alive = srv.alive
    <2>1. srv.extras + 1 \in 0 .. Extras BY <1>0, NoneIsNoCall
    <2>2. PICK b \in BOOLEAN : srv' = [srv EXCEPT !.extras = @ + 1, !.ask = b]
                               \/ srv' = [srv EXCEPT !.extras = @ + 1]
        BY DEF ServerTalks
    <2>3. QED BY <1>0, <2>1, <2>2 DEF Server
<1> HIDE DEF c, n
<1>5. CASE \E k \in {"ask", "odd", "compacted"} : Say(<<Msg(k, c, None)>>)
    <2>1. PICK k \in {"ask", "odd", "compacted"} : Say(<<Msg(k, c, None)>>) BY <1>5
    <2>2. Msg(k, c, None) \in Outbound /\ Msg(k, c, None).k = k BY <1>1, NoticeOut DEF Msg
    <2>3. QED BY <1>0, <1>4, <2>1, <2>2, ServerSays
<1>6. ASSUME NEW k \in {"delta", "item"}, NEW i \in 1 .. 2 * Extras,
             Say(<<Msg("delta", c, <<c, n>>), Msg(k, c, <<c, i>>)>>)
      PROVE  Inv'
    <2>1. /\ Msg("delta", c, <<c, n>>) \in Outbound /\ Msg(k, c, <<c, i>>) \in Outbound
        BY <1>1, <1>2, TextOut
    <2>2. /\ Msg("delta", c, <<c, n>>).k = "delta" /\ Msg("delta", c, <<c, n>>).c = c
          /\ Msg(k, c, <<c, i>>).k = k /\ Msg(k, c, <<c, i>>).c = c
        BY DEF Msg
    <2>3. QED BY <1>0, <1>1, <1>4, <1>6, <2>1, <2>2, ServerSays
<1>7. QED BY <1>2, <1>3, <1>5, <1>6

LEMMA ServerFinishesStep ==
    ASSUME Inv, ServerFinishes
    PROVE  Inv'
<1>0. Types /\ Running # None BY DEF Inv, ServerFinishes, Working
<1>1. PICK c \in Calls : c = Running BY <1>0, RunningIs
<1>2. Msg("compacted", c, None) \in Outbound /\ Msg("compacted", c, None).k = "compacted"
    BY NoticeOut DEF Msg
<1>3. \/ Say(<<Msg("done", c, None)>>)
      \/ Say(<<Msg("compacted", c, None), Msg("done", c, None)>>)
    BY <1>1 DEF ServerFinishes
<1>4. QED BY <1>1, <1>2, <1>3, TurnEnds DEF ServerFinishes

LEMMA FaultStep ==
    ASSUME Inv, Fault
    PROVE  Inv'
<1>0. /\ Types /\ TextHasEnd /\ srv \in Server /\ toSrv \in Seq(Inbound) /\ left' \in 0 .. Faults
      /\ UNCHANGED <<client, out>>
    BY CodexAssumption DEF Inv, Types, Fault
<1>1. Dead \in Server /\ Dead.turns = <<>> /\ ~Dead.alive
    BY CodexAssumption DEF Dead, Server
<1>2. \/ srv.alive /\ srv' = Dead /\ toSrv' = <<>>
      \/ srv' = [srv EXCEPT !.auth = FALSE] /\ toSrv' = toSrv
    BY DEF Fault
<1>3. /\ srv' \in Server
      /\ \/ srv'.turns = <<>> /\ ~srv'.alive
         \/ srv'.turns = srv.turns /\ srv'.alive = srv.alive
    BY <1>0, <1>1, <1>2 DEF Server
<1>4. toSrv' \in Seq(Inbound)
    <2>1. <<>> \in Seq(Inbound) OBVIOUS
    <2>2. QED BY <1>0, <1>2, <2>1
<1>5. Types' BY <1>0, <1>3, <1>4 DEF Types, client
<1>6. TextHasEnd'
    <2>1. CASE ~srv'.alive BY <2>1 DEF TextHasEnd
    <2>2. CASE srv'.turns = srv.turns /\ srv'.alive = srv.alive
        BY <1>0, <2>2, TextFrame DEF client
    <2>3. QED BY <1>3, <2>1, <2>2
<1>7. \A d \in Calls : (Owed(d)' => Owed(d)) /\ (OneEnd(d) => OneEnd(d)')
    BY <1>0, <1>2, <1>3, EndsKeep
<1>8. QED BY <1>0, <1>5, <1>6, <1>7, ServerFrame

-----------------------------------------------------------------------------
(* The invariant of every behaviour, and what follows from it. *)

LEMMA Start ==
    ASSUME Init
    PROVE  Inv
<1>1. Types
    <2>1. NewCall \in Call BY DEF NewCall, Call, Stages, Answers, Ops
    <2>2. Dead \in [alive: BOOLEAN, auth: BOOLEAN, turns: Seq(Calls), ask: BOOLEAN,
                    extras: 0 .. Extras]
        BY CodexAssumption DEF Dead
    <2>3. srv \in Server BY <2>2 DEF Init, Server
    <2>4. NoText \in Buffer BY DEF NoText, Buffer
    <2>5. toSrv = <<>> /\ out = <<>> BY DEF Init
    <2>6. toSrv \in Seq(Inbound) /\ out \in Seq(Outbound) BY <2>5
    <2>7. left \in 0 .. Faults BY CodexAssumption DEF Init
    <2>8. call \in [Calls -> Call] BY <2>1 DEF Init
    <2>9. QED BY <2>3, <2>4, <2>6, <2>7, <2>8 DEF Init, Types
<1>2. \A c \in Calls : /\ call[c].pc = "new" /\ call[c].op = "none" /\ ~call[c].sub
                       /\ ~call[c].stopped /\ call[c].over = None
    BY DEF Init, NewCall
<1>3. Shape /\ Registered /\ InOrder /\ Traces
    BY <1>2 DEF Init, Shape, CallShape, Registered, InOrder, Traces, At, IsTurn
<1>4. Quiet
    <2>1. /\ \A i \in DOMAIN toSrv : FALSE
          /\ \A i \in DOMAIN out : FALSE
          /\ \A i \in DOMAIN srv.turns : FALSE
        <3>1. toSrv = <<>> /\ out = <<>> /\ srv.turns = <<>> BY DEF Init, Dead
        <3>2. QED BY <3>1
    <2>2. \A d \in Calls : OneEnd(d) /\ ~Owed(d)
        BY <2>1 DEF OneEnd, Owed, AskedOnce, RunsOnce, SaidOnce, Asked, Runs, EndSaid
    <2>3. QED BY <1>2, <2>2, NoneIsNoCall DEF Quiet, At
<1>5. OneMessage /\ TextHasEnd
    <2>1. buf.text = {} /\ out = <<>> BY DEF Init, NoText
    <2>2. \A i \in DOMAIN out : FALSE BY <2>1
    <2>3. QED BY <2>1, <2>2 DEF OneMessage, TextHasEnd
<1>6. QED BY <1>1, <1>3, <1>4, <1>5 DEF Inv

LEMMA Step ==
    ASSUME Inv, [Next]_vars
    PROVE  Inv'
<1>1. CASE UNCHANGED vars
    BY <1>1 DEF Inv, vars, client, Types, Shape, CallShape, Registered, InOrder, Traces, Quiet,
       OneMessage, TextHasEnd, Undisturbed, Disturbed, OneEnd, Owed, Waits, Sent, AskedOnce,
       RunsOnce, SaidOnce, Asked, Runs, EndSaid, EndAfter, Asks, Ends, At, IsTurn
<1>2. ASSUME NEW c \in Calls, Begin(c) \/ ClientStep(c) \/ AnswerRequest(c)
      PROVE  Inv'
    BY <1>2, BeginStep, RegisterStep, WriteStep, AnsweredStep, RefusedStep, KillProcessStep,
       PumpEndsStep, AnswerRequestStep DEF ClientStep
<1>3. QED
    BY <1>1, <1>2, RouteStep, ReadersStop, ServerReadsStep, ServerTalksStep, ServerFinishesStep,
       FaultStep DEF Next

LEMMA InvariantHolds == Spec => []Inv
<1>1. Init => Inv BY Start
<1>2. Inv /\ [Next]_vars => Inv' BY Step
<1>3. QED BY <1>1, <1>2, PTL DEF Spec

(* The state of a session has its types: for every number of calls, a         *)
(* registered request belongs to a call that is writing it or waits for it.    *)
THEOREM Typed == Spec => []TypeOK
<1>1. ASSUME Inv PROVE TypeOK
    <2>1. Types /\ Registered BY <1>1 DEF Inv
    <2>2. {thread, manual, expired} \subseteq BOOLEAN BY <2>1 DEF Types
    <2>3. buf.text \subseteq Calls \X (1 .. 2 * Extras) BY <2>1 DEF Types, Buffer, Items
    <2>4. QED BY <2>1, <2>2, <2>3 DEF Types, Registered, TypeOK
<1>2. QED BY <1>1, InvariantHolds, PTL

(* send_request, route_app_server_message, fail_pending_requests: no call waits *)
(* for an answer that nobody can bring, whoever fails the table and whenever.   *)
THEOREM NobodyIsForgotten == Spec => []WaiterIsRegistered
<1>1. Inv => WaiterIsRegistered
    BY DEF Inv, Registered, WaiterIsRegistered, At
<1>2. QED BY <1>1, InvariantHolds, PTL

(* route_app_server_message: in a session that was neither compacted nor       *)
(* stopped, the Result that ends a pump is the one of its own turn.            *)
THEOREM OwnResult == Spec => []ResultsAreNotStray
<1>1. ASSUME Inv, NEW c \in Calls, call[c].over \in Calls \ {c}
      PROVE  Disturbed(c)
    <2>1. Types /\ Shape /\ InOrder /\ Quiet BY <1>1 DEF Inv
    <2>2. call[c].sub /\ IsTurn(c) /\ ~At(c, "done")
        BY <1>1, <2>1, NoneIsNoCall DEF Shape, CallShape, At
    <2>3. ~Undisturbed BY <1>1, <2>1 DEF Quiet
    <2>4. PICK d \in Calls : call[d].stopped \/ call[d].op = "compact"
        BY <2>3 DEF Undisturbed, Disturbed, Calls
    <2>5. IsTurn(d) BY <2>1, <2>4 DEF Shape, CallShape, IsTurn
    <2>6. CASE c < d
        <3>1. call[c].stopped BY <2>1, <2>2, <2>5, <2>6 DEF InOrder
        <3>2. c \in 1 .. c BY DEF Calls
        <3>3. QED BY <3>1, <3>2 DEF Disturbed
    <2>7. CASE ~ (c < d)
        <3>1. d \in 1 .. c BY <2>7 DEF Calls
        <3>2. QED BY <2>4, <3>1 DEF Disturbed
    <2>8. QED BY <2>6, <2>7
<1>2. Inv => ResultsAreNotStray BY <1>1 DEF ResultsAreNotStray
<1>3. QED BY <1>2, InvariantHolds, PTL

(* update_turn_output_buffer, drain_turn_output_buffer: the buffer holds the    *)
(* text of one message, and its turn has not ended.                             *)
THEOREM TextStaysWhole == Spec => []TextIsWhole
<1>1. ASSUME Inv PROVE TextIsWhole
    <2>1. OneMessage /\ TextHasEnd BY <1>1 DEF Inv
    <2>2. Cardinality(buf.text) <= 1
        <3>1. CASE buf.text = {} BY <3>1, FS_EmptySet
        <3>2. CASE buf.text # {}
            <4>1. buf.text = {buf.item} BY <2>1, <3>2 DEF OneMessage
            <4>2. Cardinality({buf.item}) = 1 BY Zenon, FS_Singleton
            <4>3. QED BY <4>1, <4>2
        <3>3. QED BY <3>1, <3>2
    <2>3. QED BY <2>1, <2>2 DEF TextHasEnd, TextIsWhole, Runs, EndSaid, Ends
<1>2. QED BY <1>1, InvariantHolds, PTL

(* steer_turn, interrupt_turn: in such a session the turn that runs and  *)
(* whose pump waits is the one that Stop and steering name.                     *)
THEOREM StopAlwaysFinds == Spec => []StopFindsTurn
<1>1. Inv => StopFindsTurn BY DEF Inv, Quiet, Undisturbed, StopFindsTurn
<1>2. QED BY <1>1, InvariantHolds, PTL

=============================================================================

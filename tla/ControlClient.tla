---------------------------- MODULE ControlClient ----------------------------
(***************************************************************************)
(* The MCP shim's side of the remote control: a ControlClient with its     *)
(* queue, its one request in flight and its timers, the McpServer calls    *)
(* that wait on it, and the IDE it dials, which may end and come back with *)
(* a new token or another protocol version.  The shim has two clients, one *)
(* for requests and one for events; `role` says which this is.             *)
(*                                                                         *)
(* The connection is a pair of ordered wires.  A handler is a function on  *)
(* a frame, the state it may change; Commit makes it the next state.       *)
(***************************************************************************)
EXTENDS Integers, Sequences, FiniteSets, SequencesExt

CONSTANTS
  Kinds,      \* of a request: "build" has a one-line reply, "read" a block
  Ours,       \* the protocol version the shim speaks
  Versions,   \* those an IDE may speak
  MaxCalls,   \* bound: tool calls of the agent
  MaxStarts,  \* bound: IDEs started
  MaxFaults   \* bound: timers that expire although the peer is there

Calls == 1..MaxCalls

ASSUME BoundsAssumption ==
  /\ Kinds \subseteq {"build", "read"} /\ Ours \in Versions
  /\ {MaxCalls, MaxStarts, MaxFaults} \subseteq Nat

VARIABLES
  role,   \* "requests" or "events"
  cl,     \* ControlClient's members; rearm: m_reconnectTimer runs
  wire,   \* the lines under way, whether the peer has closed, and the peer's view of it
  ide,    \* the IDE that runs, and the discovery file
  agent,  \* McpServer: each call's state and what its answer was made of; the waiting watch
  ran,    \* the requests that IDEs have executed, in order
  used    \* against the bounds

vars == <<role, cl, wire, ide, agent, ran, used>>

-----------------------------------------------------------------------------
NoFlight == [call |-> 0, kind |-> "none"]
NoFile == [token |-> 0, version |-> 0]
NoWire == [toIde |-> <<>>, toClient |-> <<>>, shut |-> FALSE, authed |-> FALSE, ops |-> <<>>]

(* The shim is told a port, or starts before any address is known.          *)
Init ==
  /\ role \in {"requests", "events"}
  /\ \E known \in BOOLEAN :
       cl = [sock |-> "none", port |-> known, token |-> 0, version |-> 0, auth |-> FALSE,
             retried |-> FALSE, ack |-> FALSE, wanted |-> FALSE, subscribed |-> FALSE,
             whenConnected |-> FALSE, queue |-> <<>>, flight |-> NoFlight,
             status |-> FALSE, made |-> {}, rearm |-> FALSE, late |-> FALSE, gaveUp |-> FALSE]
  /\ wire = NoWire
  /\ ide = [up |-> FALSE, token |-> 0, version |-> 0, file |-> NoFile]
  /\ agent = [calls |-> [c \in Calls |-> "none"], made |-> [c \in Calls |-> {}],
              late |-> {}, watch |-> FALSE]
  /\ ran = <<>>
  /\ used = [calls |-> 0, starts |-> 0, faults |-> 0]

Frame == [cl |-> cl, wire |-> wire, agent |-> agent]

Commit(f) == cl' = f.cl /\ wire' = f.wire /\ agent' = f.agent

Use(counter, bound) == used[counter] < bound /\ used' = [used EXCEPT ![counter] = @ + 1]

-----------------------------------------------------------------------------
(* McpServer.                                                               *)

Answered(f, call, made) ==
  [f EXCEPT !.agent.calls[call] = "answered", !.agent.made[call] = made,
            !.agent.late = IF f.cl.late THEN @ \union {call} ELSE @]

Failed(f, calls) ==
  [f EXCEPT !.agent.calls = [c \in Calls |-> IF c \in calls THEN "answered" ELSE @[c]]]

WatchAnswered(f) == [f EXCEPT !.agent.watch = FALSE]

-----------------------------------------------------------------------------
(* The client.                                                              *)

Queued(f) == {f.cl.queue[i].call : i \in DOMAIN f.cl.queue}

DropSocket(f) ==
  [f EXCEPT !.cl.sock = "none", !.cl.late = FALSE, !.wire = NoWire]

(* Fault: what was in flight goes back into the queue.                      *)
FailEverything_Requeues(f) ==
  LET g == WatchAnswered(Failed(f, Queued(f)))
  IN  DropSocket([g EXCEPT !.cl.subscribed = FALSE, !.cl.retried = FALSE, !.cl.flight = NoFlight,
                           !.cl.queue = IF f.cl.flight = NoFlight THEN <<>> ELSE <<f.cl.flight>>,
                           !.cl.ack = FALSE, !.cl.whenConnected = FALSE])

(* Fault: the subscription outlives its connection.                         *)
FailEverything_StaysSubscribed(f) ==
  LET g == WatchAnswered(Failed(f, Queued(f) \union ({f.cl.flight.call} \ {0})))
  IN  DropSocket([g EXCEPT !.cl.retried = FALSE, !.cl.flight = NoFlight, !.cl.queue = <<>>,
                           !.cl.ack = FALSE, !.cl.whenConnected = FALSE])

(* Fault: a watch still waiting for its connection is forgotten.            *)
FailEverything_WatchForgotten(f) ==
  LET g == Failed(f, Queued(f) \union ({f.cl.flight.call} \ {0}))
  IN  DropSocket([g EXCEPT !.cl.subscribed = FALSE, !.cl.retried = FALSE, !.cl.flight = NoFlight,
                           !.cl.queue = <<>>, !.cl.ack = FALSE, !.cl.whenConnected = FALSE])

(* failEverything(): every request and a pending watch are answered, and    *)
(* the socket is dropped so that the next request dials again.              *)
FailEverything(f) ==
  LET g == Failed(f, Queued(f) \union ({f.cl.flight.call} \ {0}))
      h == IF f.cl.ack \/ f.cl.whenConnected THEN WatchAnswered(g) ELSE g
  IN  DropSocket([h EXCEPT !.cl.subscribed = FALSE, !.cl.retried = FALSE, !.cl.flight = NoFlight,
                           !.cl.queue = <<>>, !.cl.ack = FALSE, !.cl.whenConnected = FALSE])

Refuse(f) == [FailEverything(f) EXCEPT !.cl.gaveUp = TRUE]

Published == ide.file # NoFile

(* applyDiscovery(): what the file publishes is adopted.                    *)
ApplyDiscovery(f) ==
  IF ~Published THEN f
  ELSE [f EXCEPT !.cl.port = TRUE, !.cl.token = ide.file.token, !.cl.version = ide.file.version]

ConnectNow(f) ==
  LET g == ApplyDiscovery(f)
  IN  CASE f.cl.sock # "none" -> f
        [] f.cl.sock = "none" /\ ~g.cl.port -> g
        [] f.cl.sock = "none" /\ g.cl.port /\ g.cl.version \notin {0, Ours} -> Refuse(g)
        [] OTHER -> [g EXCEPT !.cl.sock = "dialing"]

Say(f, line) == [f EXCEPT !.wire.toIde = Append(@, line)]

(* Fault: a request goes out while another waits for its reply.             *)
Flush_Pipelined(f) ==
  CASE f.cl.queue = <<>> -> f
    [] f.cl.queue # <<>> /\ f.cl.sock # "up" -> ConnectNow(f)
    [] f.cl.queue # <<>> /\ f.cl.sock = "up" /\ f.cl.auth -> f
    [] OTHER -> Say([f EXCEPT !.cl.flight = Head(f.cl.queue), !.cl.queue = Tail(@),
                              !.cl.status = FALSE, !.cl.made = {}], Head(f.cl.queue))

(* flush(): one request at a time, and none before the token is accepted.   *)
Flush(f) ==
  CASE f.cl.flight # NoFlight \/ f.cl.queue = <<>> -> f
    [] f.cl.flight = NoFlight /\ f.cl.queue # <<>> /\ f.cl.sock # "up" -> ConnectNow(f)
    [] f.cl.flight = NoFlight /\ f.cl.queue # <<>> /\ f.cl.sock = "up" /\ f.cl.auth -> f
    [] OTHER -> Say([f EXCEPT !.cl.flight = Head(f.cl.queue), !.cl.queue = Tail(@),
                              !.cl.status = FALSE, !.cl.made = {}], Head(f.cl.queue))

(* request().                                                               *)
Request(f, r) ==
  LET g == ConnectNow([f EXCEPT !.cl.queue = Append(@, r)])
  IN  IF g.cl.sock # "up" /\ ~g.cl.port
      THEN [Failed(g, Queued(g)) EXCEPT !.cl.queue = <<>>]
      ELSE Flush(g)

SendWatch(f) ==
  Say([f EXCEPT !.cl.whenConnected = FALSE, !.cl.ack = TRUE], [call |-> 0, kind |-> "watch"])

(* subscribe().                                                             *)
Subscribe(f) ==
  LET g == ApplyDiscovery(f)
      h == [g EXCEPT !.cl.wanted = TRUE, !.cl.whenConnected = TRUE, !.cl.gaveUp = FALSE]
  IN  CASE f.cl.subscribed \/ f.cl.ack -> f
        [] ~(f.cl.subscribed \/ f.cl.ack) /\ ~g.cl.port -> WatchAnswered(g)
        [] OTHER -> IF g.cl.sock = "up" THEN SendWatch(h) ELSE ConnectNow(h)

(* onConnected(): the token goes first.                                     *)
OnConnected(f) ==
  LET g == [f EXCEPT !.cl.sock = "up", !.wire = NoWire, !.cl.auth = @ \/ f.cl.token # 0]
      h == IF f.cl.token = 0 THEN g ELSE Say(g, [call |-> f.cl.token, kind |-> "auth"])
  IN  Flush(IF f.cl.wanted /\ ~f.cl.subscribed THEN SendWatch(h) ELSE h)

(* Fault: the dial that fails is the last one.                              *)
OnSocketError_NoRetry(f) == FailEverything(f)

(* onSocketError(), onDisconnected(), and scheduleReconnect() after them.   *)
OnSocketError(f) ==
  LET g == FailEverything(f)
  IN  [g EXCEPT !.cl.rearm = @ \/ (g.cl.wanted /\ g.cl.port)]

-----------------------------------------------------------------------------
(* dispatchLine().                                                          *)

(* A failed build owes the agent its diagnostics, under the same token.     *)
Complete(f, line) ==
  LET r == f.cl.flight
      g == [f EXCEPT !.cl.flight = NoFlight]
  IN  Flush(IF r.kind = "build" /\ line.text = "error"
            THEN Request(g, [r EXCEPT !.kind = "read"])
            ELSE Answered(g, r.call, f.cl.made \union {line.call}))

(* Fault: what waited for the token's acceptance is not sent.               *)
AuthAck_Holds(f, line) ==
  LET g == [f EXCEPT !.cl.auth = FALSE]
  IN  IF line.text = "ok" THEN [g EXCEPT !.cl.retried = FALSE] ELSE Refuse(g)

(* The token is accepted; or a newer one is tried, once.                    *)
AuthAck(f, line) ==
  LET g == [f EXCEPT !.cl.auth = FALSE]
  IN  CASE line.text = "ok" -> Flush([g EXCEPT !.cl.retried = FALSE])
        [] line.text # "ok" /\ ~f.cl.retried /\ Published /\ ide.file.token # f.cl.token ->
             ConnectNow(DropSocket([ApplyDiscovery(g) EXCEPT !.cl.retried = TRUE]))
        [] OTHER -> Refuse(g)

WatchAck(f, line) ==
  LET ok == line.text = "ok"
  IN  WatchAnswered([f EXCEPT !.cl.ack = FALSE, !.cl.subscribed = ok,
                              !.cl.wanted = @ /\ ok])

(* Fault: a block ends with its status.                                     *)
DispatchLine_StatusEnds(f, line) ==
  CASE f.cl.auth -> AuthAck(f, line)
    [] ~f.cl.auth /\ f.cl.ack -> WatchAck(f, line)
    [] ~f.cl.auth /\ ~f.cl.ack /\ f.cl.flight = NoFlight -> f
    [] OTHER -> Complete(f, line)

(* The first line of a block is its status, and "." its end.                *)
DispatchLine(f, line) ==
  CASE f.cl.auth -> AuthAck(f, line)
    [] ~f.cl.auth /\ f.cl.ack -> WatchAck(f, line)
    [] ~f.cl.auth /\ ~f.cl.ack /\ f.cl.flight = NoFlight -> f
    [] ~f.cl.auth /\ ~f.cl.ack /\ f.cl.flight.kind = "read"
         /\ (~f.cl.status \/ line.text # ".") ->
         [f EXCEPT !.cl.status = TRUE, !.cl.made = @ \union {line.call}]
    [] OTHER -> Complete(f, line)

-----------------------------------------------------------------------------
(* The agent.                                                               *)

CallTool ==
  /\ role = "requests" /\ Use("calls", MaxCalls)
  /\ \E k \in Kinds :
       LET c == used.calls + 1
       IN  Commit(Request([Frame EXCEPT !.agent.calls[c] = "open"], [call |-> c, kind |-> k]))
  /\ UNCHANGED <<role, ide, ran>>

(* pist_watch, when the events do not flow and no other call waits.         *)
CallWatch ==
  /\ role = "events" /\ ~cl.subscribed /\ ~agent.watch /\ Use("calls", MaxCalls)
  /\ Commit(Subscribe([Frame EXCEPT !.agent.watch = TRUE]))
  /\ UNCHANGED <<role, ide, ran>>

-----------------------------------------------------------------------------
(* The client's socket and timers.                                          *)

DialSucceeds ==
  /\ cl.sock = "dialing" /\ ide.up
  /\ Commit(OnConnected(Frame))
  /\ UNCHANGED <<role, ide, ran, used>>

(* Nothing listens, or nothing answers in five seconds.                     *)
DialFails ==
  /\ cl.sock = "dialing"
  /\ IF ide.up THEN Use("faults", MaxFaults) ELSE UNCHANGED used
  /\ Commit(OnSocketError(Frame))
  /\ UNCHANGED <<role, ide, ran>>

Receive ==
  /\ wire.toClient # <<>>
  /\ Commit(DispatchLine([Frame EXCEPT !.wire.toClient = Tail(@)], Head(wire.toClient)))
  /\ UNCHANGED <<role, ide, ran, used>>

PeerClosed ==
  /\ cl.sock = "up" /\ wire.shut /\ wire.toClient = <<>>
  /\ Commit(OnSocketError(Frame))
  /\ UNCHANGED <<role, ide, ran, used>>

(* Three minutes without a reply.                                           *)
ReplyTimesOut ==
  /\ cl.flight # NoFlight
  /\ LET f == Failed([Frame EXCEPT !.cl.flight = NoFlight, !.cl.late = TRUE], {cl.flight.call})
     IN  Commit(Flush(f))
  /\ UNCHANGED <<role, ide, ran, used>>

(* Ten seconds without an acknowledgement.                                  *)
WatchTimesOut ==
  /\ cl.ack /\ Use("faults", MaxFaults)
  /\ Commit(WatchAnswered([Frame EXCEPT !.cl.ack = FALSE, !.cl.whenConnected = FALSE,
                                        !.cl.gaveUp = TRUE]))
  /\ UNCHANGED <<role, ide, ran>>

Reconnect ==
  /\ cl.rearm
  /\ LET f == [Frame EXCEPT !.cl.rearm = FALSE]
     IN  Commit(IF cl.sock = "up" THEN f ELSE ConnectNow(f))
  /\ UNCHANGED <<role, ide, ran, used>>

-----------------------------------------------------------------------------
(* The IDE.                                                                 *)

Line(call, text) == [call |-> call, text |-> text]

ReplyTo(op, text) ==
  IF op.kind = "read" THEN <<Line(op.call, text), Line(op.call, "body"), Line(op.call, ".")>>
  ELSE <<Line(op.call, text)>>

(* onReadyRead(): the first line is the token, or the connection ends.      *)
IdeReads ==
  /\ cl.sock = "up" /\ ~wire.shut /\ wire.toIde # <<>>
  /\ LET line == Head(wire.toIde)
         w == [wire EXCEPT !.toIde = Tail(@)]
     IN  wire' = CASE wire.authed -> [w EXCEPT !.ops = Append(@, line)]
                   [] ~wire.authed /\ line = [call |-> ide.token, kind |-> "auth"] ->
                        [w EXCEPT !.authed = TRUE, !.toClient = Append(@, Line(0, "ok"))]
                   [] OTHER -> [w EXCEPT !.shut = TRUE, !.toClient = Append(@, Line(0, "error"))]
  /\ UNCHANGED <<role, cl, ide, agent, ran, used>>

(* A line that comes while another waits is executed, and answered, first.  *)
IdeAnswers ==
  /\ cl.sock = "up" /\ ~wire.shut
  /\ \E i \in DOMAIN wire.ops, text \in {"ok", "error"} :
       LET op == wire.ops[i]
       IN  /\ op.kind = "watch" => text = "ok"
           /\ wire' = [wire EXCEPT !.ops = RemoveAt(@, i), !.toClient = @ \o ReplyTo(op, text)]
           /\ ran' = IF op.kind = "watch" THEN ran ELSE Append(ran, op)
  /\ UNCHANGED <<role, cl, ide, agent, used>>

(* listen(): a new token, published in the file.                            *)
IdeStarts ==
  /\ ~ide.up /\ Use("starts", MaxStarts)
  /\ \E v \in Versions :
       LET t == used.starts + 1
       IN  ide' = [up |-> TRUE, token |-> t, version |-> v, file |-> [token |-> t, version |-> v]]
  /\ UNCHANGED <<role, cl, wire, agent, ran>>

(* It quits, and takes its file with it, or dies; what the socket has not   *)
(* delivered may be lost.  The last IDE stays.                              *)
IdeEnds ==
  /\ ide.up /\ used.starts < MaxStarts
  /\ \E file \in {ide.file, NoFile} : ide' = [ide EXCEPT !.up = FALSE, !.file = file]
  /\ \E n \in 0..Len(wire.toClient) :
       wire' = IF cl.sock # "up" THEN wire
               ELSE [wire EXCEPT !.shut = TRUE, !.ops = <<>>, !.toClient = SubSeq(@, 1, n)]
  /\ UNCHANGED <<role, cl, agent, ran, used>>

Next ==
  \/ CallTool \/ CallWatch
  \/ DialSucceeds \/ DialFails \/ Receive \/ PeerClosed
  \/ ReplyTimesOut \/ WatchTimesOut \/ Reconnect
  \/ IdeReads \/ IdeAnswers \/ IdeStarts \/ IdeEnds

Spec == Init /\ [][Next]_vars

(* Both event loops run, timers expire, and an IDE is started again.        *)
FairSpec ==
  /\ Spec /\ WF_vars(DialSucceeds) /\ WF_vars(DialFails) /\ WF_vars(Receive)
  /\ WF_vars(PeerClosed) /\ WF_vars(ReplyTimesOut) /\ WF_vars(Reconnect)
  /\ WF_vars(IdeReads) /\ WF_vars(IdeAnswers) /\ WF_vars(IdeStarts)

-----------------------------------------------------------------------------
Requests == [call : Calls, kind : {"build", "read"}]
Lines    == [call : Nat, text : {"ok", "error", "body", "."}]
Sendable == [call : Nat, kind : {"auth", "watch", "build", "read"}]

ClientType ==
  [sock : {"none", "dialing", "up"}, port : BOOLEAN, token : Nat, version : Versions \union {0},
   auth : BOOLEAN, retried : BOOLEAN, ack : BOOLEAN, wanted : BOOLEAN, subscribed : BOOLEAN,
   whenConnected : BOOLEAN, queue : Seq(Requests), flight : Requests \union {NoFlight},
   status : BOOLEAN, made : SUBSET Nat, rearm : BOOLEAN, late : BOOLEAN, gaveUp : BOOLEAN]
WireType ==
  [toIde : Seq(Sendable), toClient : Seq(Lines), shut : BOOLEAN, authed : BOOLEAN,
   ops : Seq(Sendable)]
AgentType ==
  [calls : [Calls -> {"none", "open", "answered"}], made : [Calls -> SUBSET Nat],
   late : SUBSET Calls, watch : BOOLEAN]
FileType == [token : Nat, version : Versions \union {0}]

(* The client's, the server's and the IDE's state keep their types.         *)
TypeOK ==
  /\ role \in {"requests", "events"}
  /\ cl \in ClientType /\ wire \in WireType /\ agent \in AgentType
  /\ ide \in [up : BOOLEAN, token : Nat, version : Versions \union {0}, file : FileType]
  /\ ran \in Seq(Requests)
  /\ used \in [calls : 0..MaxCalls, starts : 0..MaxStarts, faults : 0..MaxFaults]

(* Every call the agent has made and that is not answered is queued or in   *)
(* flight, exactly once, and an answered one is neither.                    *)
OpenCallsAreHeld ==
  \A c \in Calls :
    Cardinality({i \in DOMAIN cl.queue : cl.queue[i].call = c})
      + (IF cl.flight.call = c THEN 1 ELSE 0) = IF agent.calls[c] = "open" THEN 1 ELSE 0

(* No request is executed twice, whatever is dialled again.                 *)
NothingRunsTwice == IsInjective(ran)

(* An answer is made of the lines of the reply to its own request, unless a *)
(* request on the same connection had been given up.                        *)
ReplyIsOwnUnlessLate == \A c \in Calls : c \in agent.late \/ agent.made[c] \subseteq {c}

(* Every tool call is answered.                                             *)
CallsAreAnswered == \A c \in Calls : agent.calls[c] = "open" ~> agent.calls[c] = "answered"

(* A pist_watch that waits is answered.                                     *)
WatchIsAnswered == agent.watch ~> ~agent.watch

(* A wanted subscription comes back, however often the IDE does, unless it  *)
(* was refused or the acknowledgement timed out.                            *)
WatchComesBackUnlessRefused == cl.wanted ~> (cl.subscribed \/ cl.gaveUp \/ ~cl.wanted)

(* Whatever the link does, an open call is held once and runs once.         *)
CallsRunOnce == OpenCallsAreHeld /\ NothingRunsTwice

(* No caller waits forever: not a call, not a watch, not a subscription.    *)
NobodyWaitsForever == CallsAreAnswered /\ WatchIsAnswered /\ WatchComesBackUnlessRefused

-----------------------------------------------------------------------------
(* What fails.                                                              *)

(* "A dropped subscription is re-established however long the IDE takes to  *)
(* come back": the retry that finds an IDE of another version is the last.  *)
RetryDialsOrWaits == [][cl.rearm /\ ~cl'.rearm => cl'.sock # "none"]_vars

(* A reply belongs to the request it is delivered for: not after a time-out. *)
ReplyIsOwn == \A c \in Calls : agent.made[c] \subseteq {c}
=============================================================================

--------------------------- MODULE ControlClientInv ---------------------------
(***************************************************************************)
(* The inductive invariant of ControlClient, as a predicate on frames: it  *)
(* holds of the state between events and, with the call that a handler has *)
(* in hand set apart, between the calls that a handler makes.              *)
(***************************************************************************)
EXTENDS ControlClient

FrameType == [cl : ClientType, wire : WireType, agent : AgentType]

Out(f) == Range(f.wire.toIde) \union Range(f.wire.ops)

(* Every open call is held once: queued, in flight or in hand.              *)
HeldOnce(f, inHand) ==
  /\ \A i, j \in DOMAIN f.cl.queue : f.cl.queue[i].call = f.cl.queue[j].call => i = j
  /\ f.cl.flight.call \notin Queued(f)
  /\ inHand \intersect (Queued(f) \union {f.cl.flight.call}) = {}
  /\ \A c \in Calls : f.agent.calls[c] = "open"
                        <=> c \in Queued(f) \union {f.cl.flight.call} \union inHand

(* A request is in one place only of the way to the IDE, and what is queued *)
(* was never sent, nor was the reading of a build still to be built.        *)
Unsent(f, r, done) ==
  /\ r \notin Out(f) \union Range(done)
  /\ [call |-> r.call, kind |-> "read"] \notin Out(f) \union Range(done)
Unread(f, r, done) ==
  r.kind = "build" => [call |-> r.call, kind |-> "read"] \notin Out(f) \union Range(done)

SentOnce(f, done) ==
  /\ \A i \in DOMAIN f.cl.queue : Unsent(f, f.cl.queue[i], done)
  /\ f.cl.flight # NoFlight => Unread(f, f.cl.flight, done)
  /\ \A i, j \in DOMAIN f.wire.toIde :
       f.wire.toIde[i] = f.wire.toIde[j] /\ f.wire.toIde[i] \in Requests => i = j
  /\ \A i, j \in DOMAIN f.wire.ops :
       f.wire.ops[i] = f.wire.ops[j] /\ f.wire.ops[i] \in Requests => i = j
  /\ \A i \in DOMAIN f.wire.toIde, j \in DOMAIN f.wire.ops :
       f.wire.toIde[i] \in Requests => f.wire.toIde[i] # f.wire.ops[j]
  /\ \A r \in Out(f) : r \in Requests => r \notin Range(done)
  /\ IsInjective(done)

(* No call but those the agent has made.                                    *)
Known(f, done, n) ==
  /\ \A r \in Out(f) \union Range(done) : r \in Requests => r.call <= n
  /\ \A c \in Calls : c > n => f.agent.calls[c] = "none"

(* The client for events makes no request, the one for requests no watch,   *)
(* and the token is the first line of a connection.                         *)
OfItsRole(f, r) ==
  /\ r = "events" =>
       /\ f.cl.queue = <<>> /\ f.cl.flight = NoFlight
       /\ \A x \in Out(f) : x \notin Requests
  /\ r = "requests" =>
       /\ ~f.cl.wanted /\ ~f.cl.ack /\ ~f.cl.whenConnected
       /\ \A x \in Out(f) : x.kind # "watch"
  /\ \A i \in DOMAIN f.wire.toIde :
       f.wire.toIde[i].kind = "auth" =>
         i = 1 /\ ~f.wire.authed /\ (r = "requests" => f.cl.auth)
  /\ \A i \in DOMAIN f.wire.ops : f.wire.ops[i].kind # "auth"
  /\ \A x \in Out(f) : x.kind \in {"build", "read"} => x \in Requests

(* Without a connection there is nothing on its way.                        *)
Unconnected(f) ==
  f.cl.sock # "up" => f.wire = NoWire /\ f.cl.flight = NoFlight /\ ~f.cl.late

(* A token that is still to be accepted holds every request back.           *)
Authenticating(f, r) ==
  f.cl.auth =>
    /\ f.cl.token # 0 /\ f.cl.flight = NoFlight
    /\ r = "requests" =>
         /\ \A i \in DOMAIN f.wire.toIde : f.wire.toIde[i].kind = "auth"
         /\ f.wire.ops = <<>>
         /\ f.wire.authed =>
              f.wire.toClient = <<>> \/ f.wire.toClient = <<Line(0, "ok")>>

(* To a client it has not admitted the IDE says one thing, and hangs up.    *)
Unadmitted(f, r) ==
  r = "requests" /\ ~f.wire.authed =>
    /\ f.wire.ops = <<>>
    /\ \/ f.wire.toClient = <<>>
       \/ f.wire.shut /\ f.wire.toClient = <<Line(0, "error")>>

(* As long as no request was given up the connection carries the request in *)
(* flight, or what is left of its reply, and nothing else.                  *)
Carries(f, r) ==
  r = "requests" /\ ~f.cl.auth /\ ~f.cl.late =>
    /\ \/ f.wire.toIde = <<>> /\ f.wire.ops = <<>>
       \/ /\ f.cl.flight # NoFlight /\ f.wire.toClient = <<>>
          /\ \/ f.wire.toIde = <<f.cl.flight>> /\ f.wire.ops = <<>>
             \/ f.wire.toIde = <<>> /\ f.wire.ops = <<f.cl.flight>>
    /\ f.cl.flight = NoFlight => f.wire.toClient = <<>>
    /\ f.cl.flight # NoFlight /\ f.wire.authed =>
         /\ \A i \in DOMAIN f.wire.toClient : f.wire.toClient[i].call = f.cl.flight.call
         /\ f.cl.made \subseteq {f.cl.flight.call}
    /\ f.cl.flight.kind = "build" => Len(f.wire.toClient) <= 1
    /\ f.cl.flight.kind = "read" =>
         \A i \in DOMAIN f.wire.toClient :
           f.wire.toClient[i].text = "." => i = Len(f.wire.toClient)

OwnAnswers(f) == \A c \in Calls : c \in f.agent.late \/ f.agent.made[c] \subseteq {c}

FrameOK(f, inHand, r, done, n) ==
  /\ f \in FrameType
  /\ HeldOnce(f, inHand) /\ SentOnce(f, done) /\ Known(f, done, n)
  /\ OfItsRole(f, r) /\ Unconnected(f)
  /\ Authenticating(f, r) /\ Unadmitted(f, r) /\ Carries(f, r) /\ OwnAnswers(f)

(* An IDE's token is never 0, the client's for "none".                      *)
TokensAreReal == ide.file # NoFile => ide.file.token # 0

IInv == TypeOK /\ TokensAreReal /\ FrameOK(Frame, {}, role, ran, used.calls)
=============================================================================

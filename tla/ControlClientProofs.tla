------------------------- MODULE ControlClientProofs -------------------------
(***************************************************************************)
(* Proofs about ControlClient, for every number of calls, of IDEs and of   *)
(* time-outs, and whatever versions the IDEs speak.                        *)
(***************************************************************************)
EXTENDS ControlClientInv, SequenceLemmas, FiniteSetTheorems, TLAPS

(* The empty values have their types.                                       *)
LEMMA NothingIs ==
  /\ NoFlight.call = 0 /\ NoFlight.kind = "none" /\ 0 \notin Calls
  /\ NoWire.toIde = <<>> /\ NoWire.ops = <<>> /\ NoWire.toClient = <<>>
  /\ NoWire.shut = FALSE /\ NoWire.authed = FALSE
  /\ NoWire \in WireType
  /\ Len(<<>>) = 0 /\ DOMAIN <<>> = {}
  /\ \A S : <<>> \in Seq(S)
  /\ NoFlight \notin Requests
<1>1. \A S : <<>> \in Seq(S) /\ Len(<<>>) = 0 /\ DOMAIN <<>> = {}
  OBVIOUS
<1>2. 0 \notin Calls
  BY BoundsAssumption DEF Calls
<1>3. NoWire \in WireType
  BY <1>1 DEF NoWire, WireType
<1> QED BY <1>1, <1>2, <1>3 DEF NoFlight, NoWire, Requests

(* The parts of a frame.                                                    *)
LEMMA FrameIs ==
  ASSUME NEW f \in FrameType
  PROVE  /\ f.cl \in ClientType /\ f.wire \in WireType /\ f.agent \in AgentType
         /\ f = [cl |-> f.cl, wire |-> f.wire, agent |-> f.agent]
         /\ f.cl.queue \in Seq(Requests) /\ f.cl.flight \in Requests \union {NoFlight}
         /\ f.wire.toIde \in Seq(Sendable) /\ f.wire.ops \in Seq(Sendable)
         /\ f.wire.toClient \in Seq(Lines)
         /\ f.agent.calls \in [Calls -> {"none", "open", "answered"}]
         /\ f.agent.made \in [Calls -> SUBSET Nat] /\ f.agent.late \subseteq Calls
         /\ f.cl.made \subseteq Nat /\ f.cl.token \in Nat
         /\ f.cl.sock \in {"none", "dialing", "up"}
         /\ {f.cl.auth, f.cl.ack, f.cl.wanted, f.cl.whenConnected, f.cl.late, f.cl.port,
             f.cl.status, f.wire.shut, f.wire.authed} \subseteq BOOLEAN
         /\ Queued(f) \subseteq Calls
<1>1. /\ f.cl \in ClientType /\ f.wire \in WireType /\ f.agent \in AgentType
      /\ f = [cl |-> f.cl, wire |-> f.wire, agent |-> f.agent]
  BY DEF FrameType
<1>2. /\ f.cl.queue \in Seq(Requests) /\ f.cl.flight \in Requests \union {NoFlight}
      /\ f.cl.made \subseteq Nat /\ f.cl.token \in Nat
      /\ f.cl.sock \in {"none", "dialing", "up"}
      /\ {f.cl.auth, f.cl.ack, f.cl.wanted, f.cl.whenConnected, f.cl.late, f.cl.port,
             f.cl.status} \subseteq BOOLEAN
  BY <1>1 DEF ClientType
<1>3. /\ f.wire.toIde \in Seq(Sendable) /\ f.wire.ops \in Seq(Sendable)
      /\ f.wire.toClient \in Seq(Lines)
      /\ {f.wire.shut, f.wire.authed} \subseteq BOOLEAN
  BY <1>1 DEF WireType
<1>4. /\ f.agent.calls \in [Calls -> {"none", "open", "answered"}]
      /\ f.agent.made \in [Calls -> SUBSET Nat] /\ f.agent.late \subseteq Calls
  BY <1>1 DEF AgentType
<1>5. Queued(f) \subseteq Calls
  <2>1. \A i \in DOMAIN f.cl.queue : f.cl.queue[i] \in Requests
    BY <1>2
  <2> QED BY <2>1 DEF Queued, Requests
<1> QED BY <1>1, <1>2, <1>3, <1>4, <1>5

(* A frame with one of its parts replaced.                                  *)
LEMMA PartsIs ==
  ASSUME NEW f \in FrameType
  PROVE  /\ \A c \in ClientType : [f EXCEPT !.cl = c]
              = [cl |-> c, wire |-> f.wire, agent |-> f.agent]
         /\ \A w \in WireType : [f EXCEPT !.wire = w]
              = [cl |-> f.cl, wire |-> w, agent |-> f.agent]
         /\ \A a \in AgentType : [f EXCEPT !.agent = a]
              = [cl |-> f.cl, wire |-> f.wire, agent |-> a]
         /\ \A c \in ClientType, w \in WireType, a \in AgentType :
              [cl |-> c, wire |-> w, agent |-> a] \in FrameType
  BY DEF FrameType

-----------------------------------------------------------------------------
(* What the client's functions do to a frame.                               *)

LEMMA DropSocketIs ==
  ASSUME NEW f \in FrameType, NEW g, g = DropSocket(f)
  PROVE  /\ g \in FrameType /\ g.wire = NoWire /\ g.agent = f.agent
         /\ g.cl.sock = "none" /\ ~g.cl.late
         /\ g.cl.queue = f.cl.queue /\ g.cl.flight = f.cl.flight /\ g.cl.ack = f.cl.ack
         /\ g.cl.whenConnected = f.cl.whenConnected /\ g.cl.auth = f.cl.auth
         /\ g.cl.token = f.cl.token /\ g.cl.wanted = f.cl.wanted
<1>1. f.cl \in ClientType /\ f = [cl |-> f.cl, wire |-> f.wire, agent |-> f.agent]
  BY FrameIs
<1>2. /\ g.wire = NoWire /\ g.agent = f.agent /\ g = [f EXCEPT !.cl = g.cl, !.wire = NoWire]
      /\ g.cl = [f.cl EXCEPT !.sock = "none", !.late = FALSE]
  BY <1>1 DEF DropSocket
<1>3. g.cl \in ClientType
  BY <1>1, <1>2 DEF ClientType
<1>4. g \in FrameType
  BY <1>2, <1>3, NothingIs DEF FrameType
<1> QED BY <1>1, <1>2, <1>4 DEF ClientType

LEMMA EmptiedIs ==
  ASSUME NEW c \in ClientType
  PROVE  [c EXCEPT !.subscribed = FALSE, !.retried = FALSE, !.flight = NoFlight,
                   !.queue = <<>>, !.ack = FALSE, !.whenConnected = FALSE] \in ClientType
<1>1. <<>> \in Seq(Requests) /\ NoFlight \in Requests \union {NoFlight}
  BY NothingIs
<1> QED BY <1>1 DEF ClientType

LEMMA FailEverythingIs ==
  ASSUME NEW f \in FrameType, NEW g, g = FailEverything(f)
  PROVE  /\ g \in FrameType
         /\ g.cl.sock = "none" /\ g.cl.queue = <<>> /\ g.cl.flight = NoFlight
         /\ ~g.cl.late /\ ~g.cl.ack /\ ~g.cl.whenConnected
         /\ g.cl.auth = f.cl.auth /\ g.cl.token = f.cl.token /\ g.cl.wanted = f.cl.wanted
         /\ g.wire = NoWire
         /\ g.agent.made = f.agent.made /\ g.agent.late = f.agent.late
         /\ \A c \in Calls : g.agent.calls[c] =
              IF c \in Queued(f) \union {f.cl.flight.call} THEN "answered" ELSE f.agent.calls[c]
<1> DEFINE S == Queued(f) \union ({f.cl.flight.call} \ {0})
           a == Failed(f, S)
           h == IF f.cl.ack \/ f.cl.whenConnected THEN WatchAnswered(a) ELSE a
           e == [h EXCEPT !.cl.subscribed = FALSE, !.cl.retried = FALSE, !.cl.flight = NoFlight,
                          !.cl.queue = <<>>, !.cl.ack = FALSE, !.cl.whenConnected = FALSE]
<1>1. /\ a \in FrameType /\ a.cl = f.cl /\ a.wire = f.wire
      /\ a.agent.made = f.agent.made /\ a.agent.late = f.agent.late
      /\ a.agent.calls = [c \in Calls |-> IF c \in S THEN "answered" ELSE f.agent.calls[c]]
  <2>1. [c \in Calls |-> IF c \in S THEN "answered" ELSE f.agent.calls[c]]
          \in [Calls -> {"none", "open", "answered"}]
    BY FrameIs
  <2> QED BY <2>1 DEF Failed, FrameType, AgentType
<1>2. /\ h \in FrameType /\ h.cl = f.cl /\ h.wire = f.wire
      /\ h.agent.made = f.agent.made /\ h.agent.late = f.agent.late
      /\ h.agent.calls = [c \in Calls |-> IF c \in S THEN "answered" ELSE f.agent.calls[c]]
  BY <1>1 DEF WatchAnswered, FrameType, AgentType
<1> HIDE DEF a, h
<1>3. /\ e \in FrameType
      /\ e.cl.queue = <<>> /\ e.cl.flight = NoFlight /\ ~e.cl.ack /\ ~e.cl.whenConnected
      /\ e.cl.auth = f.cl.auth /\ e.cl.token = f.cl.token /\ e.cl.wanted = f.cl.wanted
      /\ e.wire = h.wire /\ e.agent = h.agent
  <2>1. h.cl \in ClientType /\ h = [cl |-> h.cl, wire |-> h.wire, agent |-> h.agent]
    BY <1>2, FrameIs
  <2>2. e.wire = h.wire /\ e.agent = h.agent /\ e = [h EXCEPT !.cl = e.cl]
    BY <2>1
  <2>3. e.cl.queue = <<>> /\ e.cl.flight = NoFlight /\ ~e.cl.ack /\ ~e.cl.whenConnected
    BY <2>1 DEF ClientType
  <2>4. e.cl.auth = h.cl.auth /\ e.cl.token = h.cl.token /\ e.cl.wanted = h.cl.wanted
    BY <2>1 DEF ClientType
  <2>5. e.cl = [h.cl EXCEPT !.subscribed = FALSE, !.retried = FALSE, !.flight = NoFlight,
                            !.queue = <<>>, !.ack = FALSE, !.whenConnected = FALSE]
    BY <2>1
  <2>7. e.cl \in ClientType
    BY <2>1, <2>5, EmptiedIs
  <2> QED BY <1>2, <2>2, <2>3, <2>4, <2>7 DEF FrameType
<1>4. g = DropSocket(e)
  BY DEF FailEverything, a, h
<1> HIDE DEF e
<1>5. /\ g \in FrameType
      /\ g.cl.sock = "none" /\ ~g.cl.late /\ g.cl.queue = e.cl.queue
      /\ g.cl.flight = e.cl.flight /\ g.cl.ack = e.cl.ack
      /\ g.cl.whenConnected = e.cl.whenConnected /\ g.cl.auth = e.cl.auth
      /\ g.cl.token = e.cl.token /\ g.cl.wanted = e.cl.wanted
      /\ g.wire = NoWire /\ g.agent = e.agent
  BY <1>3, <1>4, DropSocketIs
<1>6. \A c \in Calls : c \in S <=> c \in Queued(f) \union {f.cl.flight.call}
  BY NothingIs
<1> HIDE DEF S
<1> QED BY <1>2, <1>3, <1>5, <1>6

LEMMA ApplyDiscoveryIs ==
  ASSUME TypeOK, TokensAreReal, NEW f \in FrameType, NEW g, g = ApplyDiscovery(f)
  PROVE  /\ g \in FrameType /\ g.wire = f.wire /\ g.agent = f.agent
         /\ g.cl.sock = f.cl.sock /\ g.cl.queue = f.cl.queue /\ g.cl.flight = f.cl.flight
         /\ g.cl.ack = f.cl.ack /\ g.cl.whenConnected = f.cl.whenConnected
         /\ g.cl.auth = f.cl.auth /\ g.cl.wanted = f.cl.wanted
         /\ g.cl.late = f.cl.late /\ g.cl.made = f.cl.made
         /\ f.cl.token # 0 => g.cl.token # 0
<1>1. /\ f.cl \in ClientType /\ f = [cl |-> f.cl, wire |-> f.wire, agent |-> f.agent]
      /\ ide.file \in FileType
  BY FrameIs DEF TypeOK
<1>2. CASE ~Published
  BY <1>1, <1>2 DEF ApplyDiscovery
<1>3. CASE Published
  <2>1. ide.file.token # 0 /\ ide.file.token \in Nat /\ ide.file.version \in Versions \union {0}
    BY <1>1, <1>3 DEF Published, TokensAreReal, FileType
  <2>2. /\ g.wire = f.wire /\ g.agent = f.agent /\ g = [f EXCEPT !.cl = g.cl]
        /\ g.cl = [f.cl EXCEPT !.port = TRUE, !.token = ide.file.token,
                               !.version = ide.file.version]
    BY <1>1, <1>3 DEF ApplyDiscovery
  <2>3. g.cl \in ClientType
    BY <1>1, <2>1, <2>2 DEF ClientType
  <2>4. /\ g.cl.sock = f.cl.sock /\ g.cl.queue = f.cl.queue /\ g.cl.flight = f.cl.flight
        /\ g.cl.ack = f.cl.ack /\ g.cl.whenConnected = f.cl.whenConnected
        /\ g.cl.auth = f.cl.auth /\ g.cl.wanted = f.cl.wanted
        /\ g.cl.late = f.cl.late /\ g.cl.made = f.cl.made /\ g.cl.token = ide.file.token
    BY <1>1, <2>2 DEF ClientType
  <2>5. g \in FrameType
    BY <1>1, <2>2, <2>3 DEF FrameType
  <2> QED BY <2>1, <2>2, <2>4, <2>5
<1> QED BY <1>2, <1>3

-----------------------------------------------------------------------------
(* What keeps the invariant of a frame.                                     *)

(* The parts of the client that the invariant does not speak of.            *)
LEMMA AlikeOK ==
  ASSUME NEW ih, NEW r, NEW done, NEW n, NEW f, FrameOK(f, ih, r, done, n),
         NEW g \in FrameType, g.wire = f.wire, g.agent.calls = f.agent.calls,
         g.agent.made = f.agent.made, g.agent.late = f.agent.late,
         g.cl.queue = f.cl.queue, g.cl.flight = f.cl.flight, g.cl.late = f.cl.late,
         g.cl.made = f.cl.made, g.cl.auth = f.cl.auth,
         g.cl.sock # "up" => f.cl.sock # "up",
         g.cl.auth => g.cl.token # 0,
         r = "requests" => ~g.cl.wanted /\ ~g.cl.ack /\ ~g.cl.whenConnected
  PROVE  FrameOK(g, ih, r, done, n)
<1>1. Out(g) = Out(f) /\ Queued(g) = Queued(f)
  BY DEF Out, Queued
<1>2. HeldOnce(g, ih)
  BY <1>1 DEF FrameOK, HeldOnce
<1>3. SentOnce(g, done)
  BY <1>1 DEF FrameOK, SentOnce, Unsent, Unread
<1>4. Known(g, done, n)
  BY <1>1 DEF FrameOK, Known
<1>5. OfItsRole(g, r)
  BY <1>1 DEF FrameOK, OfItsRole
<1>6. Unconnected(g)
  BY DEF FrameOK, Unconnected
<1>7. Authenticating(g, r)
  BY DEF FrameOK, Authenticating
<1>8. Unadmitted(g, r) /\ OwnAnswers(g)
  BY DEF FrameOK, Unadmitted, OwnAnswers
<1>9. Carries(g, r)
  BY DEF FrameOK, Carries
<1> QED BY <1>2, <1>3, <1>4, <1>5, <1>6, <1>7, <1>8, <1>9 DEF FrameOK

(* Without its connection a frame keeps the invariant, with the queue as it *)
(* was or emptied.                                                          *)
LEMMA UnwiredOK ==
  ASSUME NEW ih, NEW r, NEW done, NEW n, NEW f, FrameOK(f, ih, r, done, n),
         NEW g \in FrameType, g.wire = NoWire,
         g.cl.queue \in {f.cl.queue, <<>>}, g.cl.flight = NoFlight, ~g.cl.late,
         g.agent.made = f.agent.made, g.agent.late = f.agent.late,
         NEW jh, HeldOnce(g, jh),
         \A c \in Calls : f.agent.calls[c] = "none" => g.agent.calls[c] = "none",
         g.cl.auth => g.cl.token # 0,
         r = "requests" => ~g.cl.wanted /\ ~g.cl.ack /\ ~g.cl.whenConnected
  PROVE  FrameOK(g, jh, r, done, n)
<1>1. Out(g) = {} /\ DOMAIN g.wire.toIde = {} /\ DOMAIN g.wire.ops = {}
      /\ DOMAIN g.wire.toClient = {} /\ Len(g.wire.toClient) = 0
      /\ g.wire.toClient = <<>> /\ g.wire.toIde = <<>> /\ g.wire.ops = <<>>
      /\ ~g.wire.authed
  BY NothingIs DEF Out, Range
<1>2. SentOnce(g, done)
  <2>1. \A i \in DOMAIN g.cl.queue : Unsent(g, g.cl.queue[i], done)
    BY <1>1, NothingIs DEF FrameOK, SentOnce, Unsent
  <2>2. IsInjective(done)
    BY DEF FrameOK, SentOnce
  <2> QED BY <1>1, <2>1, <2>2 DEF SentOnce
<1>3. Known(g, done, n)
  BY <1>1 DEF FrameOK, Known
<1>4. OfItsRole(g, r)
  BY <1>1 DEF FrameOK, OfItsRole
<1>5. Unconnected(g) /\ Authenticating(g, r) /\ Unadmitted(g, r)
  BY <1>1 DEF Unconnected, Authenticating, Unadmitted
<1>6. Carries(g, r)
  BY <1>1 DEF Carries
<1>7. OwnAnswers(g)
  BY DEF FrameOK, OwnAnswers
<1> QED BY <1>2, <1>3, <1>4, <1>5, <1>6, <1>7 DEF FrameOK

(* Everything fails from a frame that differs in what is dropped at most.   *)
LEMMA FailEverythingOK ==
  ASSUME NEW r, NEW done, NEW n, NEW e, FrameOK(e, {}, r, done, n), NEW f \in FrameType,
         f.cl.queue = e.cl.queue, f.cl.flight = e.cl.flight, f.agent = e.agent,
         f.cl.token = e.cl.token, f.cl.wanted = e.cl.wanted, f.cl.auth => e.cl.auth
  PROVE  FrameOK(FailEverything(f), {}, r, done, n)
<1> DEFINE g == FailEverything(f)
<1>1. e \in FrameType /\ Queued(f) = Queued(e)
  BY DEF FrameOK, Queued
<1>2. /\ g \in FrameType
      /\ g.cl.sock = "none" /\ g.cl.queue = <<>> /\ g.cl.flight = NoFlight
      /\ ~g.cl.late /\ ~g.cl.ack /\ ~g.cl.whenConnected
      /\ g.cl.auth = f.cl.auth /\ g.cl.token = f.cl.token /\ g.cl.wanted = f.cl.wanted
      /\ g.wire = NoWire
      /\ g.agent.made = f.agent.made /\ g.agent.late = f.agent.late
      /\ \A c \in Calls : g.agent.calls[c] =
           IF c \in Queued(f) \union {f.cl.flight.call} THEN "answered" ELSE f.agent.calls[c]
  BY FailEverythingIs
<1> HIDE DEF g
<1>3. Queued(g) = {} /\ DOMAIN g.cl.queue = {} /\ g.cl.flight.call = 0
  BY <1>2, NothingIs DEF Queued
<1>4. HeldOnce(e, {})
  BY DEF FrameOK
<1>5. HeldOnce(g, {})
  BY <1>1, <1>2, <1>3, <1>4, NothingIs DEF HeldOnce
<1>6. \A c \in Calls : e.agent.calls[c] = "none" => g.agent.calls[c] = "none"
  BY <1>1, <1>2, <1>4 DEF HeldOnce
<1>7. /\ g.cl.auth => g.cl.token # 0
      /\ r = "requests" => ~g.cl.wanted
  BY <1>2 DEF FrameOK, Authenticating, OfItsRole
<1> QED BY <1>2, <1>5, <1>6, <1>7, UnwiredOK DEF g

(* Refuse(), which drops everything and marks it.                           *)
LEMMA RefuseOK ==
  ASSUME NEW r, NEW done, NEW n, NEW e, FrameOK(e, {}, r, done, n), NEW f \in FrameType,
         f.cl.queue = e.cl.queue, f.cl.flight = e.cl.flight, f.agent = e.agent,
         f.cl.token = e.cl.token, f.cl.wanted = e.cl.wanted, f.cl.auth => e.cl.auth
  PROVE  FrameOK(Refuse(f), {}, r, done, n)
<1> DEFINE g == FailEverything(f)
           h == Refuse(f)
<1>1. FrameOK(g, {}, r, done, n)
  BY FailEverythingOK
<1>2. g \in FrameType
  BY <1>1 DEF FrameOK
<1>3. h = [g EXCEPT !.cl.gaveUp = TRUE]
  BY DEF Refuse
<1> HIDE DEF g, h
<1>4. g.cl \in ClientType /\ g = [cl |-> g.cl, wire |-> g.wire, agent |-> g.agent]
  BY <1>2, FrameIs
<1>5. /\ h.wire = g.wire /\ h.agent = g.agent
      /\ h = [cl |-> h.cl, wire |-> g.wire, agent |-> g.agent]
      /\ h.cl = [g.cl EXCEPT !.gaveUp = TRUE]
  BY <1>3, <1>4
<1>6. h.cl \in ClientType
  BY <1>4, <1>5 DEF ClientType
<1>10. h \in FrameType
  <2>1. g.wire \in WireType /\ g.agent \in AgentType
    BY <1>2, FrameIs
  <2>2. [cl |-> h.cl, wire |-> g.wire, agent |-> g.agent] \in FrameType
    BY <1>2, <1>6, <2>1, PartsIs
  <2> QED BY <1>5, <2>2
<1>7. /\ h.cl.queue = g.cl.queue /\ h.cl.flight = g.cl.flight /\ h.cl.late = g.cl.late
      /\ h.cl.made = g.cl.made /\ h.cl.auth = g.cl.auth /\ h.cl.sock = g.cl.sock
      /\ h.cl.token = g.cl.token /\ h.cl.wanted = g.cl.wanted /\ h.cl.ack = g.cl.ack
      /\ h.cl.whenConnected = g.cl.whenConnected
  BY <1>4, <1>5 DEF ClientType
<1>8. /\ g.cl.auth => g.cl.token # 0
      /\ r = "requests" => ~g.cl.wanted /\ ~g.cl.ack /\ ~g.cl.whenConnected
  BY <1>1 DEF FrameOK, Authenticating, OfItsRole
<1>11. /\ h.cl.auth => h.cl.token # 0
       /\ r = "requests" => ~h.cl.wanted /\ ~h.cl.ack /\ ~h.cl.whenConnected
       /\ h.cl.sock # "up" => g.cl.sock # "up"
  BY <1>7, <1>8
<1>9. FrameOK(h, {}, r, done, n)
  BY <1>1, <1>5, <1>7, <1>10, <1>11, AlikeOK
<1> QED BY <1>9 DEF h

LEMMA ConnectNowOK ==
  ASSUME TypeOK, TokensAreReal,
         NEW r, NEW done, NEW n, NEW f, FrameOK(f, {}, r, done, n)
  PROVE  FrameOK(ConnectNow(f), {}, r, done, n)
<1> DEFINE g == ApplyDiscovery(f)
           d == [g EXCEPT !.cl.sock = "dialing"]
<1>1. f \in FrameType
  BY DEF FrameOK
<1>2. /\ g \in FrameType /\ g.wire = f.wire /\ g.agent = f.agent
      /\ g.cl.sock = f.cl.sock /\ g.cl.queue = f.cl.queue /\ g.cl.flight = f.cl.flight
      /\ g.cl.ack = f.cl.ack /\ g.cl.whenConnected = f.cl.whenConnected
      /\ g.cl.auth = f.cl.auth /\ g.cl.wanted = f.cl.wanted
      /\ g.cl.late = f.cl.late /\ g.cl.made = f.cl.made
      /\ f.cl.token # 0 => g.cl.token # 0
  BY <1>1, ApplyDiscoveryIs
<1>3. \/ ConnectNow(f) = f \/ ConnectNow(f) = g \/ ConnectNow(f) = Refuse(g)
      \/ (f.cl.sock = "none" /\ ConnectNow(f) = d)
  <2>1. CASE f.cl.sock # "none"
    BY <2>1 DEF ConnectNow
  <2>2. CASE f.cl.sock = "none" /\ ~g.cl.port
    BY <2>2 DEF ConnectNow
  <2>3. CASE f.cl.sock = "none" /\ g.cl.port /\ g.cl.version \notin {0, Ours}
    BY <2>3 DEF ConnectNow
  <2>4. CASE f.cl.sock = "none" /\ g.cl.port /\ g.cl.version \in {0, Ours}
    BY <2>4 DEF ConnectNow
  <2> QED BY <2>1, <2>2, <2>3, <2>4
<1> HIDE DEF g
<1>4. /\ f.cl.auth => f.cl.token # 0
      /\ r = "requests" => ~f.cl.wanted /\ ~f.cl.ack /\ ~f.cl.whenConnected
  BY DEF FrameOK, Authenticating, OfItsRole
<1>5. FrameOK(g, {}, r, done, n)
  BY <1>2, <1>4, AlikeOK
<1>6. FrameOK(Refuse(g), {}, r, done, n)
  BY <1>2, <1>5, RefuseOK
<1>7. ASSUME f.cl.sock = "none" PROVE FrameOK(d, {}, r, done, n)
  <2>1. g.cl \in ClientType /\ g = [cl |-> g.cl, wire |-> g.wire, agent |-> g.agent]
    BY <1>2, FrameIs
  <2>2. /\ d.wire = g.wire /\ d.agent = g.agent
        /\ d = [cl |-> d.cl, wire |-> g.wire, agent |-> g.agent]
        /\ d.cl = [g.cl EXCEPT !.sock = "dialing"]
    BY <2>1
  <2> HIDE DEF d
  <2>3. d.cl \in ClientType
    BY <2>1, <2>2 DEF ClientType
  <2>6. d \in FrameType
    BY <1>2, <2>2, <2>3, FrameIs, PartsIs
  <2>4. /\ d.cl.queue = g.cl.queue /\ d.cl.flight = g.cl.flight /\ d.cl.late = g.cl.late
        /\ d.cl.made = g.cl.made /\ d.cl.auth = g.cl.auth
        /\ d.cl.token = g.cl.token /\ d.cl.wanted = g.cl.wanted /\ d.cl.ack = g.cl.ack
        /\ d.cl.whenConnected = g.cl.whenConnected
    BY <2>1, <2>2 DEF ClientType
  <2>5. g.cl.sock # "up"
    BY <1>2, <1>7
  <2> QED BY <1>2, <1>4, <1>5, <2>2, <2>4, <2>5, <2>6, AlikeOK
<1> QED BY <1>3, <1>5, <1>6, <1>7

-----------------------------------------------------------------------------
(* Requests.                                                                *)

LEMMA QueuedIs ==
  ASSUME NEW f
  PROVE  \A x : x \in Queued(f) <=> \E y \in Range(f.cl.queue) : x = y.call
  BY DEF Queued, Range

(* The frame in which the head of the queue has been sent.                  *)
Sending(f) ==
  Say([f EXCEPT !.cl.flight = Head(f.cl.queue), !.cl.queue = Tail(@),
                !.cl.status = FALSE, !.cl.made = {}], Head(f.cl.queue))

LEMMA SendingIs ==
  ASSUME NEW f \in FrameType, f.cl.queue # <<>>, NEW g, g = Sending(f)
  PROVE  /\ g \in FrameType /\ Head(f.cl.queue) \in Requests
         /\ g.cl.queue = Tail(f.cl.queue) /\ g.cl.flight = Head(f.cl.queue)
         /\ g.cl.made = {} /\ g.cl.late = f.cl.late /\ g.cl.auth = f.cl.auth
         /\ g.cl.sock = f.cl.sock /\ g.cl.token = f.cl.token /\ g.cl.wanted = f.cl.wanted
         /\ g.cl.ack = f.cl.ack /\ g.cl.whenConnected = f.cl.whenConnected
         /\ g.agent = f.agent
         /\ g.wire.toIde = Append(f.wire.toIde, Head(f.cl.queue))
         /\ g.wire.ops = f.wire.ops /\ g.wire.toClient = f.wire.toClient
         /\ g.wire.shut = f.wire.shut /\ g.wire.authed = f.wire.authed
<1> DEFINE q == Head(f.cl.queue)
           c == [f.cl EXCEPT !.flight = q, !.queue = Tail(@), !.status = FALSE, !.made = {}]
           w == [f.wire EXCEPT !.toIde = Append(@, q)]
<1>1. /\ f.cl \in ClientType /\ f.wire \in WireType /\ f.agent \in AgentType
      /\ f = [cl |-> f.cl, wire |-> f.wire, agent |-> f.agent]
      /\ f.cl.queue \in Seq(Requests) /\ f.wire.toIde \in Seq(Sendable)
  BY FrameIs
<1>2. q \in Requests /\ Tail(f.cl.queue) \in Seq(Requests)
  BY <1>1, TailIs
<1>3. q \in Sendable
  BY <1>2, BoundsAssumption DEF Requests, Sendable, Calls
<1>4. Append(f.wire.toIde, q) \in Seq(Sendable)
  BY <1>1, <1>3, AppendIs
<1>5. g = [cl |-> c, wire |-> w, agent |-> f.agent]
  BY <1>1 DEF Sending, Say
<1>6. c \in ClientType
  BY <1>1, <1>2 DEF ClientType
<1>7. w \in WireType
  BY <1>1, <1>4 DEF WireType
<1>8. g \in FrameType
  <2> HIDE DEF c, w
  <2>1. [cl |-> c, wire |-> w, agent |-> f.agent] \in FrameType
    BY <1>1, <1>6, <1>7, PartsIs
  <2> QED BY <1>5, <2>1
<1>9. /\ c.queue = Tail(f.cl.queue) /\ c.flight = q
      /\ c.made = {} /\ c.late = f.cl.late /\ c.auth = f.cl.auth
      /\ c.sock = f.cl.sock /\ c.token = f.cl.token /\ c.wanted = f.cl.wanted
      /\ c.ack = f.cl.ack /\ c.whenConnected = f.cl.whenConnected
  BY <1>1 DEF ClientType
<1>10. /\ w.toIde = Append(f.wire.toIde, q)
       /\ w.ops = f.wire.ops /\ w.toClient = f.wire.toClient
       /\ w.shut = f.wire.shut /\ w.authed = f.wire.authed
  BY <1>1 DEF WireType
<1> HIDE DEF c, w
<1> QED BY <1>2, <1>5, <1>8, <1>9, <1>10

LEMMA SendingOK ==
  ASSUME NEW r, NEW done, NEW n \in Nat, NEW f, FrameOK(f, {}, r, done, n),
         f.cl.flight = NoFlight, f.cl.queue # <<>>, f.cl.sock = "up", ~f.cl.auth
  PROVE  FrameOK(Sending(f), {}, r, done, n)
<1> DEFINE g == Sending(f)
           q == Head(f.cl.queue)
<1>1. f \in FrameType
  BY DEF FrameOK
<1>2. /\ g \in FrameType /\ q \in Requests
      /\ g.cl.queue = Tail(f.cl.queue) /\ g.cl.flight = q
      /\ g.cl.made = {} /\ g.cl.late = f.cl.late /\ g.cl.auth = f.cl.auth
      /\ g.cl.sock = f.cl.sock /\ g.cl.wanted = f.cl.wanted
      /\ g.cl.ack = f.cl.ack /\ g.cl.whenConnected = f.cl.whenConnected
      /\ g.agent = f.agent
      /\ g.wire.toIde = Append(f.wire.toIde, q)
      /\ g.wire.ops = f.wire.ops /\ g.wire.toClient = f.wire.toClient
      /\ g.wire.shut = f.wire.shut /\ g.wire.authed = f.wire.authed
  BY <1>1, SendingIs
<1>31. q = Head(f.cl.queue)
  OBVIOUS
<1> HIDE DEF g, q
<1>32. q \in Sendable
  BY <1>2, BoundsAssumption DEF Requests, Sendable, Calls
<1>3. /\ f.cl.queue \in Seq(Requests) /\ f.wire.toIde \in Seq(Sendable) /\ q \in Sendable
      /\ f.wire.ops \in Seq(Sendable)
  BY <1>1, <1>32, FrameIs
<1>4. /\ q.call \in Calls /\ q.kind \in {"build", "read"}
      /\ q # NoFlight /\ q.call # 0
  BY <1>2, NothingIs DEF Requests
<1>5. /\ q = f.cl.queue[1] /\ 1 \in DOMAIN f.cl.queue
      /\ \A i \in DOMAIN g.cl.queue : i + 1 \in DOMAIN f.cl.queue
              /\ g.cl.queue[i] = f.cl.queue[i + 1] /\ i + 1 # 1
  BY <1>2, <1>3, <1>31, TailIs, TailElements
<1>6. Queued(f) = {q.call} \union Queued(g)
  <2>1. Range(f.cl.queue) = {q} \union Range(g.cl.queue)
    BY <1>2, <1>3, <1>31, TailElements
  <2>2. /\ \A x : x \in Queued(f) <=> \E y \in Range(f.cl.queue) : x = y.call
        /\ \A x : x \in Queued(g) <=> \E y \in Range(g.cl.queue) : x = y.call
    BY QueuedIs
  <2> QED BY <2>1, <2>2
<1>7. Out(g) = Out(f) \union {q}
  BY <1>2, <1>3, AppendElements DEF Out
<1>8. /\ Len(f.wire.toIde) \in Nat /\ DOMAIN f.wire.toIde = 1 .. Len(f.wire.toIde)
      /\ DOMAIN g.wire.toIde = 1 .. Len(f.wire.toIde) + 1
      /\ \A i \in DOMAIN f.wire.toIde : g.wire.toIde[i] = f.wire.toIde[i]
      /\ g.wire.toIde[Len(f.wire.toIde) + 1] = q
  BY <1>2, <1>3, AppendIs
<1>9. HeldOnce(f, {}) /\ SentOnce(f, done) /\ Known(f, done, n) /\ OfItsRole(f, r)
      /\ Unadmitted(f, r) /\ Carries(f, r) /\ OwnAnswers(f)
  BY DEF FrameOK
<1>10. \A i \in DOMAIN g.cl.queue : g.cl.queue[i].call # q.call
  BY <1>5, <1>9 DEF HeldOnce
<1>11. q.call \notin Queued(g)
  BY <1>10 DEF Queued
<1>12. HeldOnce(g, {})
  <2>1. \A i, j \in DOMAIN g.cl.queue : g.cl.queue[i].call = g.cl.queue[j].call => i = j
    <3>1. \A i \in DOMAIN g.cl.queue : i \in Int
      BY <1>2, <1>3, TailIs
    <3>2. ASSUME NEW i \in DOMAIN g.cl.queue, NEW j \in DOMAIN g.cl.queue,
                 g.cl.queue[i].call = g.cl.queue[j].call
          PROVE  i + 1 = j + 1
      BY <1>5, <1>9, <3>2 DEF HeldOnce
    <3> QED BY <3>1, <3>2
  <2>2. \A c \in Calls : f.agent.calls[c] = "open" <=> c \in Queued(f)
    BY <1>9, NothingIs DEF HeldOnce
  <2> QED BY <1>2, <1>6, <1>11, <2>1, <2>2 DEF HeldOnce
<1>13. Unsent(f, q, done)
  BY <1>5, <1>9 DEF SentOnce
<1>14. SentOnce(g, done)
  <2>1. ASSUME NEW i \in DOMAIN g.cl.queue PROVE Unsent(g, g.cl.queue[i], done)
    <3>1. Unsent(f, g.cl.queue[i], done)
      BY <1>5, <1>9 DEF SentOnce
    <3>2. g.cl.queue[i] # q /\ [call |-> g.cl.queue[i].call, kind |-> "read"] # q
      BY <1>10
    <3> QED BY <1>7, <3>1, <3>2 DEF Unsent
  <2>2. Unread(g, q, done)
    <3>1. q.kind = "build" => [call |-> q.call, kind |-> "read"] # q
      OBVIOUS
    <3> QED BY <1>7, <1>13, <3>1 DEF Unsent, Unread
  <2>3. ASSUME NEW i \in DOMAIN g.wire.toIde, NEW j \in DOMAIN g.wire.toIde,
               g.wire.toIde[i] = g.wire.toIde[j], g.wire.toIde[i] \in Requests
        PROVE  i = j
    <3>1. \A k \in DOMAIN f.wire.toIde : f.wire.toIde[k] # q
      BY <1>13 DEF Unsent, Out, Range
    <3>2. \A k \in DOMAIN g.wire.toIde : k \in DOMAIN f.wire.toIde \/ k = Len(f.wire.toIde) + 1
      BY <1>8
    <3> QED BY <1>8, <1>9, <2>3, <3>1, <3>2 DEF SentOnce
  <2>4. \A i, j \in DOMAIN g.wire.ops :
          g.wire.ops[i] = g.wire.ops[j] /\ g.wire.ops[i] \in Requests => i = j
    BY <1>2, <1>9 DEF SentOnce
  <2>5. ASSUME NEW i \in DOMAIN g.wire.toIde, NEW j \in DOMAIN g.wire.ops,
               g.wire.toIde[i] \in Requests
        PROVE  g.wire.toIde[i] # g.wire.ops[j]
    <3>1. \A k \in DOMAIN f.wire.ops : f.wire.ops[k] # q
      BY <1>13 DEF Unsent, Out, Range
    <3>2. i \in DOMAIN f.wire.toIde \/ i = Len(f.wire.toIde) + 1
      BY <1>8
    <3> QED BY <1>2, <1>8, <1>9, <2>5, <3>1, <3>2 DEF SentOnce
  <2>6. \A x \in Out(g) : x \in Requests => x \notin Range(done)
    BY <1>7, <1>9, <1>13 DEF SentOnce, Unsent
  <2>7. IsInjective(done)
    BY <1>9 DEF SentOnce
  <2> QED BY <1>2, <2>1, <2>2, <2>3, <2>4, <2>5, <2>6, <2>7 DEF SentOnce
<1>15. Known(g, done, n)
  <2>1. q.call <= n
    <3>1. f.agent.calls[q.call] # "none"
      BY <1>4, <1>6, <1>9 DEF HeldOnce
    <3>2. q.call \in Nat
      BY <1>4, BoundsAssumption DEF Calls
    <3> QED BY <1>4, <1>9, <3>1, <3>2 DEF Known
  <2> QED BY <1>2, <1>7, <1>9, <2>1 DEF Known
<1>16. OfItsRole(g, r)
  <2>1. r # "events"
    BY <1>9 DEF OfItsRole
  <2>2. ASSUME NEW k \in DOMAIN g.wire.toIde, g.wire.toIde[k].kind = "auth"
        PROVE  k \in DOMAIN f.wire.toIde /\ g.wire.toIde[k] = f.wire.toIde[k]
    <3>1. k \in DOMAIN f.wire.toIde \/ k = Len(f.wire.toIde) + 1
      BY <1>8
    <3>2. q.kind # "auth"
      BY <1>4
    <3> QED BY <1>8, <2>2, <3>1, <3>2
  <2>3. \A i \in DOMAIN g.wire.toIde :
          g.wire.toIde[i].kind = "auth" =>
            i = 1 /\ ~g.wire.authed /\ (r = "requests" => g.cl.auth)
    BY <1>2, <1>9, <2>2 DEF OfItsRole
  <2>4. \A x \in Out(g) : x.kind \in {"build", "read"} => x \in Requests
    BY <1>2, <1>7, <1>9 DEF OfItsRole
  <2>5. \A x \in Out(g) : r = "requests" => x.kind # "watch"
    BY <1>4, <1>7, <1>9 DEF OfItsRole
  <2>6. /\ r = "requests" => ~g.cl.wanted /\ ~g.cl.ack /\ ~g.cl.whenConnected
        /\ \A i \in DOMAIN g.wire.ops : g.wire.ops[i].kind # "auth"
    BY <1>2, <1>9 DEF OfItsRole
  <2> QED BY <2>1, <2>3, <2>4, <2>5, <2>6 DEF OfItsRole
<1>17. Unconnected(g) /\ Authenticating(g, r)
  BY <1>2 DEF Unconnected, Authenticating
<1>18. Unadmitted(g, r) /\ OwnAnswers(g)
  BY <1>2, <1>9 DEF Unadmitted, OwnAnswers
<1>19. Carries(g, r)
  <2>1. SUFFICES ASSUME r = "requests", ~f.cl.late PROVE Carries(g, r)
    BY <1>2 DEF Carries
  <2>2. f.wire.toIde = <<>> /\ f.wire.ops = <<>> /\ f.wire.toClient = <<>>
    BY <1>9, <2>1 DEF Carries
  <2>3. g.wire.toIde = <<q>> /\ g.wire.ops = <<>> /\ g.wire.toClient = <<>>
    BY <1>2, <1>3, <2>2
  <2>4. Len(g.wire.toClient) = 0 /\ DOMAIN g.wire.toClient = {}
    BY <2>3, NothingIs
  <2> QED BY <1>2, <1>4, <2>3, <2>4 DEF Carries
<1>20. FrameOK(g, {}, r, done, n)
  BY <1>2, <1>12, <1>14, <1>15, <1>16, <1>17, <1>18, <1>19 DEF FrameOK
<1> QED BY <1>20 DEF g

LEMMA FlushOK ==
  ASSUME TypeOK, TokensAreReal,
         NEW r, NEW done, NEW n \in Nat, NEW f, FrameOK(f, {}, r, done, n)
  PROVE  FrameOK(Flush(f), {}, r, done, n)
<1>1. CASE f.cl.flight # NoFlight \/ f.cl.queue = <<>>
  BY <1>1 DEF Flush
<1>2. CASE f.cl.flight = NoFlight /\ f.cl.queue # <<>> /\ f.cl.sock # "up"
  <2>1. Flush(f) = ConnectNow(f)
    BY <1>2 DEF Flush
  <2> QED BY <2>1, ConnectNowOK
<1>3. CASE f.cl.flight = NoFlight /\ f.cl.queue # <<>> /\ f.cl.sock = "up" /\ f.cl.auth
  BY <1>3 DEF Flush
<1>4. CASE f.cl.flight = NoFlight /\ f.cl.queue # <<>> /\ f.cl.sock = "up" /\ ~f.cl.auth
  <2>1. Flush(f) = Sending(f)
    BY <1>4 DEF Flush, Sending
  <2> QED BY <1>4, <2>1, SendingOK
<1>5. f.cl.auth \in BOOLEAN
  BY FrameIs DEF FrameOK
<1> QED BY <1>1, <1>2, <1>3, <1>4, <1>5

(* The frame in which a request has been queued.                            *)
Queueing(f, q) == [f EXCEPT !.cl.queue = Append(@, q)]

LEMMA QueueingOK ==
  ASSUME NEW done, NEW n \in Nat, NEW f, NEW q \in Requests,
         FrameOK(f, {q.call}, "requests", done, n), Unsent(f, q, done)
  PROVE  FrameOK(Queueing(f, q), {}, "requests", done, n)
<1> DEFINE g == Queueing(f, q)
           c == [f.cl EXCEPT !.queue = Append(@, q)]
<1>1. /\ f \in FrameType
      /\ HeldOnce(f, {q.call}) /\ SentOnce(f, done) /\ Known(f, done, n)
      /\ OfItsRole(f, "requests") /\ Unconnected(f) /\ Authenticating(f, "requests")
      /\ Unadmitted(f, "requests") /\ Carries(f, "requests") /\ OwnAnswers(f)
  BY DEF FrameOK
<1>2. /\ f.cl \in ClientType /\ f.wire \in WireType /\ f.agent \in AgentType
      /\ f = [cl |-> f.cl, wire |-> f.wire, agent |-> f.agent]
      /\ f.cl.queue \in Seq(Requests)
  BY <1>1, FrameIs
<1>3. g = [cl |-> c, wire |-> f.wire, agent |-> f.agent]
  <2>1. g = [f EXCEPT !.cl = c]
    BY DEF Queueing
  <2>2. [f EXCEPT !.cl = c] = [cl |-> c, wire |-> f.wire, agent |-> f.agent]
    BY <1>1 DEF FrameType
  <2> QED BY <2>1, <2>2
<1>4. Append(f.cl.queue, q) \in Seq(Requests)
  BY <1>2, AppendIs
<1>5. c \in ClientType
  BY <1>2, <1>4 DEF ClientType
<1>6. /\ c.queue = Append(f.cl.queue, q)
      /\ c.flight = f.cl.flight /\ c.late = f.cl.late /\ c.auth = f.cl.auth
      /\ c.made = f.cl.made /\ c.sock = f.cl.sock /\ c.token = f.cl.token
      /\ c.wanted = f.cl.wanted /\ c.ack = f.cl.ack
      /\ c.whenConnected = f.cl.whenConnected
  BY <1>2 DEF ClientType
<1> HIDE DEF c
<1>7. g \in FrameType
  <2>1. [cl |-> c, wire |-> f.wire, agent |-> f.agent] \in FrameType
    BY <1>1, <1>2, <1>5, PartsIs
  <2> QED BY <1>3, <2>1
<1>8. /\ g.cl.queue = Append(f.cl.queue, q)
      /\ g.cl.flight = f.cl.flight /\ g.cl.late = f.cl.late /\ g.cl.auth = f.cl.auth
      /\ g.cl.made = f.cl.made /\ g.cl.sock = f.cl.sock /\ g.cl.token = f.cl.token
      /\ g.cl.wanted = f.cl.wanted /\ g.cl.ack = f.cl.ack
      /\ g.cl.whenConnected = f.cl.whenConnected
      /\ g.wire = f.wire /\ g.agent = f.agent
  BY <1>3, <1>6
<1> HIDE DEF g
<1>9. Queued(g) = Queued(f) \union {q.call} /\ Out(g) = Out(f)
  <2>1. Range(g.cl.queue) = Range(f.cl.queue) \union {q}
    BY <1>2, <1>8, AppendElements
  <2>2. /\ \A x : x \in Queued(f) <=> \E y \in Range(f.cl.queue) : x = y.call
        /\ \A x : x \in Queued(g) <=> \E y \in Range(g.cl.queue) : x = y.call
    BY QueuedIs
  <2> QED BY <1>8, <2>1, <2>2 DEF Out
<1>10. /\ Len(f.cl.queue) \in Nat /\ DOMAIN f.cl.queue = 1 .. Len(f.cl.queue)
       /\ DOMAIN g.cl.queue = 1 .. Len(f.cl.queue) + 1
       /\ \A i \in DOMAIN f.cl.queue : g.cl.queue[i] = f.cl.queue[i]
       /\ g.cl.queue[Len(f.cl.queue) + 1] = q
  BY <1>2, <1>8, AppendIs
<1>11. \A i \in DOMAIN g.cl.queue : i \in DOMAIN f.cl.queue \/ i = Len(f.cl.queue) + 1
  BY <1>10
<1>12. HeldOnce(g, {})
  <2>1. \A i \in DOMAIN f.cl.queue : f.cl.queue[i].call # q.call
    BY <1>1 DEF HeldOnce, Queued
  <2>2. \A i, j \in DOMAIN g.cl.queue : g.cl.queue[i].call = g.cl.queue[j].call => i = j
    BY <1>1, <1>10, <1>11, <2>1 DEF HeldOnce
  <2> QED BY <1>1, <1>8, <1>9, <2>2 DEF HeldOnce
<1>13. SentOnce(g, done)
  <2>1. \A i \in DOMAIN g.cl.queue : Unsent(f, g.cl.queue[i], done)
    BY <1>1, <1>10, <1>11 DEF SentOnce
  <2> QED BY <1>1, <1>8, <1>9, <2>1 DEF SentOnce, Unsent, Unread
<1>14. Known(g, done, n) /\ OfItsRole(g, "requests") /\ Unconnected(g)
  BY <1>1, <1>8, <1>9 DEF Known, OfItsRole, Unconnected
<1>15. Authenticating(g, "requests") /\ Unadmitted(g, "requests") /\ OwnAnswers(g)
  BY <1>1, <1>8 DEF Authenticating, Unadmitted, OwnAnswers
<1>16. Carries(g, "requests")
  BY <1>1, <1>8 DEF Carries
<1>17. FrameOK(g, {}, "requests", done, n)
  BY <1>7, <1>12, <1>13, <1>14, <1>15, <1>16 DEF FrameOK
<1> QED BY <1>17 DEF g

LEMMA RequestOK ==
  ASSUME TypeOK, TokensAreReal,
         NEW done, NEW n \in Nat, NEW f, NEW q \in Requests,
         FrameOK(f, {q.call}, "requests", done, n), Unsent(f, q, done)
  PROVE  FrameOK(Request(f, q), {}, "requests", done, n)
<1> DEFINE g == ConnectNow(Queueing(f, q))
           a == Failed(g, Queued(g))
           h == [a EXCEPT !.cl.queue = <<>>]
           R == "requests"
<1>1. FrameOK(g, {}, R, done, n)
  BY QueueingOK, ConnectNowOK
<1>2. Request(f, q) = IF g.cl.sock # "up" /\ ~g.cl.port THEN h ELSE Flush(g)
  BY DEF Request, Queueing
<1> HIDE DEF g
<1>3. FrameOK(Flush(g), {}, R, done, n)
  BY <1>1, FlushOK
<1>4. ASSUME g.cl.sock # "up" PROVE FrameOK(h, {}, R, done, n)
  <2>1. /\ g \in FrameType /\ HeldOnce(g, {}) /\ Unconnected(g) /\ Authenticating(g, R)
        /\ OfItsRole(g, R)
    BY <1>1 DEF FrameOK
  <2>2. /\ g.cl \in ClientType /\ g.agent \in AgentType
        /\ g = [cl |-> g.cl, wire |-> g.wire, agent |-> g.agent]
        /\ g.agent.calls \in [Calls -> {"none", "open", "answered"}]
    BY <2>1, FrameIs
  <2> DEFINE c == [g.cl EXCEPT !.queue = <<>>]
             ca == [x \in Calls |-> IF x \in Queued(g) THEN "answered" ELSE g.agent.calls[x]]
             b == [g.agent EXCEPT !.calls = ca]
  <2>3. h = [cl |-> c, wire |-> g.wire, agent |-> b]
    <3>1. a = [g EXCEPT !.agent = b]
      BY DEF Failed
    <3>2. a = [cl |-> g.cl, wire |-> g.wire, agent |-> b]
      BY <2>1, <3>1 DEF FrameType
    <3>3. h = [a EXCEPT !.cl = [a.cl EXCEPT !.queue = <<>>]]
      OBVIOUS
    <3> HIDE DEF a, b, h
    <3>4. a.cl = g.cl
      BY <3>2
    <3>5. h = [a EXCEPT !.cl = c]
      BY <3>3, <3>4
    <3> QED BY <3>2, <3>5
  <2>4. c \in ClientType
    BY <2>2, NothingIs DEF ClientType
  <2>5. /\ c.queue = <<>> /\ c.flight = g.cl.flight /\ c.late = g.cl.late
        /\ c.auth = g.cl.auth /\ c.token = g.cl.token /\ c.wanted = g.cl.wanted
        /\ c.ack = g.cl.ack /\ c.whenConnected = g.cl.whenConnected
    BY <2>2 DEF ClientType
  <2>6. ca \in [Calls -> {"none", "open", "answered"}]
    BY <2>2
  <2>7. b \in AgentType /\ b.calls = ca /\ b.made = g.agent.made /\ b.late = g.agent.late
    BY <2>2, <2>6 DEF AgentType
  <2>8. \A x \in Calls : ca[x] = IF x \in Queued(g) THEN "answered" ELSE g.agent.calls[x]
    OBVIOUS
  <2> HIDE DEF c, ca, b
  <2>9. g.wire \in WireType
    BY <2>1, FrameIs
  <2>10. h \in FrameType
    <3>1. [cl |-> c, wire |-> g.wire, agent |-> b] \in FrameType
      BY <2>1, <2>4, <2>7, <2>9, PartsIs
    <3> QED BY <2>3, <3>1
  <2>11. /\ h.cl = c /\ h.wire = NoWire /\ h.agent = b /\ g.cl.flight = NoFlight /\ ~g.cl.late
    BY <1>4, <2>1, <2>3 DEF Unconnected
  <2> HIDE DEF h
  <2>12. HeldOnce(h, {})
    <3>1. Queued(h) = {} /\ DOMAIN h.cl.queue = {} /\ h.cl.flight.call = 0 /\ 0 \notin Calls
      BY <2>5, <2>11, NothingIs DEF Queued
    <3>2. \A x \in Calls : h.agent.calls[x] # "open"
      BY <2>1, <2>7, <2>8, <2>11, NothingIs DEF HeldOnce
    <3> QED BY <3>1, <3>2 DEF HeldOnce
  <2>13. \A x \in Calls : g.agent.calls[x] = "none" => h.agent.calls[x] = "none"
    BY <2>1, <2>7, <2>8, <2>11 DEF HeldOnce
  <2>14. /\ h.cl.queue = <<>> /\ h.cl.flight = NoFlight /\ ~h.cl.late
         /\ h.agent.made = g.agent.made /\ h.agent.late = g.agent.late
         /\ h.cl.auth => h.cl.token # 0
         /\ ~h.cl.wanted /\ ~h.cl.ack /\ ~h.cl.whenConnected
    BY <2>1, <2>5, <2>7, <2>11 DEF Authenticating, OfItsRole
  <2> QED BY <1>1, <2>10, <2>11, <2>12, <2>13, <2>14, UnwiredOK
<1> QED BY <1>2, <1>3, <1>4

(* A call in hand is answered.                                              *)
LEMMA AnsweredOK ==
  ASSUME NEW r, NEW done, NEW n \in Nat, NEW f, NEW k \in Calls, NEW made \in SUBSET Nat,
         FrameOK(f, {k}, r, done, n), ~f.cl.late => made \subseteq {k}
  PROVE  FrameOK(Answered(f, k, made), {}, r, done, n)
<1> DEFINE g == Answered(f, k, made)
           ca == [f.agent.calls EXCEPT ![k] = "answered"]
           ma == [f.agent.made EXCEPT ![k] = made]
           la == IF f.cl.late THEN f.agent.late \union {k} ELSE f.agent.late
           b == [f.agent EXCEPT !.calls = ca, !.made = ma, !.late = la]
<1>1. /\ f \in FrameType
      /\ HeldOnce(f, {k}) /\ SentOnce(f, done) /\ Known(f, done, n)
      /\ OfItsRole(f, r) /\ Unconnected(f) /\ Authenticating(f, r)
      /\ Unadmitted(f, r) /\ Carries(f, r) /\ OwnAnswers(f)
  BY DEF FrameOK
<1>2. /\ f.cl \in ClientType /\ f.wire \in WireType /\ f.agent \in AgentType
      /\ f = [cl |-> f.cl, wire |-> f.wire, agent |-> f.agent]
      /\ f.agent.calls \in [Calls -> {"none", "open", "answered"}]
      /\ f.agent.made \in [Calls -> SUBSET Nat] /\ f.agent.late \subseteq Calls
  BY <1>1, FrameIs
<1>3. g = [cl |-> f.cl, wire |-> f.wire, agent |-> b]
  <2>1. g = [f EXCEPT !.agent = b]
    BY DEF Answered
  <2>2. [f EXCEPT !.agent = b] = [cl |-> f.cl, wire |-> f.wire, agent |-> b]
    BY <1>1 DEF FrameType
  <2> QED BY <2>1, <2>2
<1>4. /\ ca \in [Calls -> {"none", "open", "answered"}]
      /\ \A x \in Calls : ca[x] = IF x = k THEN "answered" ELSE f.agent.calls[x]
  BY <1>2
<1>5. /\ ma \in [Calls -> SUBSET Nat]
      /\ \A x \in Calls : ma[x] = IF x = k THEN made ELSE f.agent.made[x]
  BY <1>2
<1>6. /\ la \subseteq Calls
      /\ \A x \in Calls : x \in la <=> x \in f.agent.late \/ (f.cl.late /\ x = k)
  BY <1>2
<1> HIDE DEF ca, ma, la
<1>7. b \in AgentType /\ b.calls = ca /\ b.made = ma /\ b.late = la
  BY <1>2, <1>4, <1>5, <1>6 DEF AgentType
<1> HIDE DEF b
<1>8. g \in FrameType
  <2>1. [cl |-> f.cl, wire |-> f.wire, agent |-> b] \in FrameType
    BY <1>1, <1>2, <1>7, PartsIs
  <2> QED BY <1>3, <2>1
<1>9. g.cl = f.cl /\ g.wire = f.wire /\ g.agent = b
  BY <1>3
<1> HIDE DEF g
<1>10. Queued(g) = Queued(f) /\ Out(g) = Out(f)
  BY <1>9 DEF Queued, Out
<1>11. HeldOnce(g, {})
  BY <1>1, <1>4, <1>7, <1>9, <1>10 DEF HeldOnce
<1>12. SentOnce(g, done)
  BY <1>1, <1>9, <1>10 DEF SentOnce, Unsent, Unread
<1>13. Known(g, done, n)
  <2>1. ASSUME NEW x \in Calls, x > n PROVE ca[x] = "none"
    BY <1>1, <1>4, <2>1 DEF Known, HeldOnce
  <2> QED BY <1>1, <1>7, <1>9, <1>10, <2>1 DEF Known
<1>14. OfItsRole(g, r) /\ Unconnected(g)
  BY <1>1, <1>9, <1>10 DEF OfItsRole, Unconnected
<1>15. Authenticating(g, r) /\ Unadmitted(g, r)
  BY <1>1, <1>9 DEF Authenticating, Unadmitted
<1>16. Carries(g, r)
  BY <1>1, <1>9 DEF Carries
<1>17. OwnAnswers(g)
  <2>1. ASSUME NEW x \in Calls PROVE x \in la \/ ma[x] \subseteq {x}
    BY <1>1, <1>5, <1>6, <1>2, FrameIs DEF OwnAnswers
  <2> QED BY <1>7, <1>9, <2>1 DEF OwnAnswers
<1>18. FrameOK(g, {}, r, done, n)
  BY <1>8, <1>11, <1>12, <1>13, <1>14, <1>15, <1>16, <1>17 DEF FrameOK
<1> QED BY <1>18 DEF g

-----------------------------------------------------------------------------
(* The socket ends.                                                         *)

(* A frame with another client.                                             *)
LEMMA ClientIs ==
  ASSUME NEW f \in FrameType, NEW c \in ClientType, NEW g, g = [f EXCEPT !.cl = c]
  PROVE  /\ g \in FrameType /\ g.cl = c /\ g.wire = f.wire /\ g.agent = f.agent
<1>1. f.wire \in WireType /\ f.agent \in AgentType
  BY FrameIs
<1>2. g = [cl |-> c, wire |-> f.wire, agent |-> f.agent]
  BY DEF FrameType
<1>3. [cl |-> c, wire |-> f.wire, agent |-> f.agent] \in FrameType
  BY <1>1, PartsIs
<1> QED BY <1>2, <1>3

LEMMA OnSocketErrorOK ==
  ASSUME NEW r, NEW done, NEW n, NEW f, FrameOK(f, {}, r, done, n)
  PROVE  FrameOK(OnSocketError(f), {}, r, done, n)
<1> DEFINE g == FailEverything(f)
           b == g.cl.rearm \/ (g.cl.wanted /\ g.cl.port)
           c == [g.cl EXCEPT !.rearm = b]
           h == OnSocketError(f)
<1>1. FrameOK(g, {}, r, done, n)
  BY FailEverythingOK DEF FrameOK
<1>2. h = [g EXCEPT !.cl = c]
  BY DEF OnSocketError
<1> HIDE DEF g
<1>3. g \in FrameType /\ g.cl \in ClientType
  BY <1>1, FrameIs DEF FrameOK
<1>4. b \in BOOLEAN
  BY <1>3 DEF ClientType
<1> HIDE DEF b, h
<1>5. c \in ClientType
  BY <1>3, <1>4 DEF ClientType
<1>6. /\ c.queue = g.cl.queue /\ c.flight = g.cl.flight /\ c.late = g.cl.late
      /\ c.made = g.cl.made /\ c.auth = g.cl.auth /\ c.sock = g.cl.sock
      /\ c.token = g.cl.token /\ c.wanted = g.cl.wanted /\ c.ack = g.cl.ack
      /\ c.whenConnected = g.cl.whenConnected
  BY <1>3 DEF ClientType
<1> HIDE DEF c
<1>7. h \in FrameType /\ h.cl = c /\ h.wire = g.wire /\ h.agent = g.agent
  BY <1>2, <1>3, <1>5, ClientIs
<1>8. /\ g.cl.auth => g.cl.token # 0
      /\ r = "requests" => ~g.cl.wanted /\ ~g.cl.ack /\ ~g.cl.whenConnected
  BY <1>1 DEF FrameOK, Authenticating, OfItsRole
<1>9. FrameOK(h, {}, r, done, n)
  BY <1>1, <1>6, <1>7, <1>8, AlikeOK
<1> QED BY <1>9 DEF h

-----------------------------------------------------------------------------
(* A line arrives.                                                          *)

(* What is in flight is taken in hand, once nothing of its reply is left.   *)
Landing(f) == [f EXCEPT !.cl.flight = NoFlight]

LEMMA LandingOK ==
  ASSUME NEW r, NEW done, NEW n \in Nat, NEW f, FrameOK(f, {}, r, done, n),
         f.cl.flight # NoFlight,
         ~f.cl.late => f.wire.toIde = <<>> /\ f.wire.ops = <<>> /\ f.wire.toClient = <<>>
  PROVE  /\ FrameOK(Landing(f), {f.cl.flight.call}, r, done, n)
         /\ Landing(f).cl.late = f.cl.late /\ Landing(f).wire = f.wire
<1> DEFINE g == Landing(f)
           q == f.cl.flight
           c == [f.cl EXCEPT !.flight = NoFlight]
<1>1. /\ f \in FrameType
      /\ HeldOnce(f, {}) /\ SentOnce(f, done) /\ Known(f, done, n)
      /\ OfItsRole(f, r) /\ Unconnected(f) /\ Authenticating(f, r)
      /\ Unadmitted(f, r) /\ Carries(f, r) /\ OwnAnswers(f)
  BY DEF FrameOK
<1>2. f.cl \in ClientType /\ q \in Requests
  BY <1>1, FrameIs
<1>3. g = [f EXCEPT !.cl = c]
  BY DEF Landing
<1>4. c \in ClientType
  BY <1>2 DEF ClientType
<1>5. /\ c.queue = f.cl.queue /\ c.flight = NoFlight /\ c.late = f.cl.late
      /\ c.made = f.cl.made /\ c.auth = f.cl.auth /\ c.sock = f.cl.sock
      /\ c.token = f.cl.token /\ c.wanted = f.cl.wanted /\ c.ack = f.cl.ack
      /\ c.whenConnected = f.cl.whenConnected
  BY <1>2 DEF ClientType
<1> HIDE DEF c, g
<1>6. g \in FrameType /\ g.cl = c /\ g.wire = f.wire /\ g.agent = f.agent
  BY <1>1, <1>3, <1>4, ClientIs
<1>7. Queued(g) = Queued(f) /\ Out(g) = Out(f)
  BY <1>5, <1>6 DEF Queued, Out
<1>8. q.call \in Calls /\ NoFlight.call = 0 /\ 0 \notin Calls /\ Queued(f) \subseteq Calls
  BY <1>1, <1>2, NothingIs, FrameIs DEF Requests
<1>9. HeldOnce(g, {q.call})
  BY <1>1, <1>5, <1>6, <1>7, <1>8 DEF HeldOnce
<1>10. SentOnce(g, done)
  BY <1>1, <1>5, <1>6, <1>7 DEF SentOnce, Unsent, Unread
<1>11. Known(g, done, n) /\ OfItsRole(g, r) /\ Unconnected(g)
  BY <1>1, <1>5, <1>6, <1>7 DEF Known, OfItsRole, Unconnected
<1>12. Authenticating(g, r) /\ Unadmitted(g, r) /\ OwnAnswers(g)
  BY <1>1, <1>5, <1>6 DEF Authenticating, Unadmitted, OwnAnswers
<1>13. Carries(g, r)
  BY <1>5, <1>6, NothingIs DEF Carries
<1> QED BY <1>5, <1>6, <1>9, <1>10, <1>11, <1>12, <1>13 DEF FrameOK, g

LEMMA CompleteOK ==
  ASSUME TypeOK, TokensAreReal,
         NEW done, NEW n \in Nat, NEW f, FrameOK(f, {}, "requests", done, n),
         NEW line \in Lines, f.cl.flight # NoFlight,
         ~f.cl.late => f.wire.toIde = <<>> /\ f.wire.ops = <<>> /\ f.wire.toClient = <<>>,
         \/ f.cl.flight.kind = "build" /\ line.text = "error"
         \/ f.cl.late \/ f.cl.made \union {line.call} \subseteq {f.cl.flight.call}
  PROVE  FrameOK(Complete(f, line), {}, "requests", done, n)
<1> DEFINE g == Landing(f)
           q == f.cl.flight
           d == [q EXCEPT !.kind = "read"]
           h == IF q.kind = "build" /\ line.text = "error" THEN Request(g, d)
                ELSE Answered(g, q.call, f.cl.made \union {line.call})
<1>1. /\ FrameOK(g, {q.call}, "requests", done, n)
      /\ g.cl.late = f.cl.late /\ g.wire = f.wire
  BY LandingOK
<1>2. /\ f \in FrameType /\ q \in Requests /\ f.cl.made \subseteq Nat
  BY FrameIs DEF FrameOK
<1>3. Complete(f, line) = Flush(h)
  BY DEF Complete, Landing
<1>4. CASE q.kind = "build" /\ line.text = "error"
  <2>1. d \in Requests /\ d.call = q.call /\ d.kind = "read" /\ d = [call |-> q.call, kind |-> "read"]
    BY <1>2 DEF Requests
  <2>2. Unread(f, q, done) /\ Out(g) = Out(f)
    BY <1>1 DEF FrameOK, SentOnce, Out
  <2>3. Unsent(g, d, done)
    BY <1>4, <2>1, <2>2 DEF Unread, Unsent
  <2> HIDE DEF d
  <2>4. FrameOK(Request(g, d), {}, "requests", done, n)
    BY <1>1, <2>1, <2>3, RequestOK
  <2>5. h = Request(g, d)
    BY <1>4
  <2> HIDE DEF h
  <2> QED BY <1>3, <2>4, <2>5, FlushOK
<1>5. CASE ~(q.kind = "build" /\ line.text = "error")
  <2> DEFINE made == f.cl.made \union {line.call}
  <2>1. made \in SUBSET Nat /\ q.call \in Calls
    BY <1>2 DEF Lines, Requests
  <2>2. ~g.cl.late => made \subseteq {q.call}
    BY <1>1, <1>5
  <2> HIDE DEF made
  <2>3. FrameOK(Answered(g, q.call, made), {}, "requests", done, n)
    BY <1>1, <2>1, <2>2, AnsweredOK
  <2>4. h = Answered(g, q.call, made)
    BY <1>5 DEF made
  <2> HIDE DEF h
  <2> QED BY <1>3, <2>3, <2>4, FlushOK
<1> QED BY <1>4, <1>5

LEMMA AuthAckOK ==
  ASSUME TypeOK, TokensAreReal,
         NEW r \in {"requests", "events"}, NEW done, NEW n \in Nat, NEW f,
         FrameOK(f, {}, r, done, n), NEW line \in Lines, f.cl.auth,
         r = "requests" => f.wire.toClient = <<>>,
         r = "requests" /\ line.text = "ok" => f.wire.authed
  PROVE  FrameOK(AuthAck(f, line), {}, r, done, n)
<1> DEFINE c == [f.cl EXCEPT !.auth = FALSE]
           g == [f EXCEPT !.cl.auth = FALSE]
<1>1. /\ f \in FrameType
      /\ HeldOnce(f, {}) /\ SentOnce(f, done) /\ Known(f, done, n)
      /\ OfItsRole(f, r) /\ Unconnected(f) /\ Authenticating(f, r)
      /\ Unadmitted(f, r) /\ Carries(f, r) /\ OwnAnswers(f)
  BY DEF FrameOK
<1>2. f.cl \in ClientType
  BY <1>1, FrameIs
<1>3. g = [f EXCEPT !.cl = c]
  OBVIOUS
<1>4. c \in ClientType
  BY <1>2 DEF ClientType
<1>5. /\ c.queue = f.cl.queue /\ c.flight = f.cl.flight /\ c.late = f.cl.late
      /\ c.made = f.cl.made /\ c.auth = FALSE /\ c.sock = f.cl.sock
      /\ c.token = f.cl.token /\ c.wanted = f.cl.wanted /\ c.ack = f.cl.ack
      /\ c.whenConnected = f.cl.whenConnected
  BY <1>2 DEF ClientType
<1>6. /\ AuthAck(f, line) \in {Flush([g EXCEPT !.cl.retried = FALSE]), Refuse(g),
                               ConnectNow(DropSocket([ApplyDiscovery(g) EXCEPT !.cl.retried = TRUE]))}
      /\ line.text = "ok" => AuthAck(f, line) = Flush([g EXCEPT !.cl.retried = FALSE])
      /\ line.text # "ok" => AuthAck(f, line) # Flush([g EXCEPT !.cl.retried = FALSE])
                              \/ AuthAck(f, line) = Refuse(g)
                              \/ AuthAck(f, line)
                                 = ConnectNow(DropSocket([ApplyDiscovery(g) EXCEPT !.cl.retried = TRUE]))
  BY DEF AuthAck
<1> HIDE DEF c, g
<1>7. g \in FrameType /\ g.cl = c /\ g.wire = f.wire /\ g.agent = f.agent
  BY <1>1, <1>3, <1>4, ClientIs
<1>8. f.cl.flight = NoFlight
  BY <1>1 DEF Authenticating
<1>9. ASSUME line.text = "ok" PROVE FrameOK(AuthAck(f, line), {}, r, done, n)
  <2> DEFINE d == [c EXCEPT !.retried = FALSE]
             h == [g EXCEPT !.cl.retried = FALSE]
  <2>1. h = [g EXCEPT !.cl = d]
    BY <1>7
  <2>2. d \in ClientType
    BY <1>4 DEF ClientType
  <2>3. /\ d.queue = f.cl.queue /\ d.flight = f.cl.flight /\ d.late = f.cl.late
        /\ d.made = f.cl.made /\ d.auth = FALSE /\ d.sock = f.cl.sock
        /\ d.token = f.cl.token /\ d.wanted = f.cl.wanted /\ d.ack = f.cl.ack
        /\ d.whenConnected = f.cl.whenConnected
    BY <1>4, <1>5 DEF ClientType
  <2>4. AuthAck(f, line) = Flush(h)
    BY <1>6, <1>9
  <2> HIDE DEF d, h
  <2>5. h \in FrameType /\ h.cl = d /\ h.wire = f.wire /\ h.agent = f.agent
    BY <1>7, <2>1, <2>2, ClientIs
  <2>6. Queued(h) = Queued(f) /\ Out(h) = Out(f)
    BY <2>3, <2>5 DEF Queued, Out
  <2>7. HeldOnce(h, {})
    BY <1>1, <2>3, <2>5, <2>6 DEF HeldOnce
  <2>8. SentOnce(h, done)
    <3>1. \A q : Unsent(f, q, done) => Unsent(h, q, done)
      BY <2>6 DEF Unsent
    <3>2. h.cl.queue = f.cl.queue /\ h.cl.flight = NoFlight /\ h.wire = f.wire
      BY <1>8, <2>3, <2>5
    <3> QED BY <1>1, <2>6, <3>1, <3>2 DEF SentOnce
  <2>9. Known(h, done, n) /\ Unconnected(h) /\ OwnAnswers(h)
    BY <1>1, <2>3, <2>5, <2>6 DEF Known, Unconnected, OwnAnswers
  <2>10. OfItsRole(h, r)
    BY <1>1, <1>9, <2>3, <2>5, <2>6 DEF OfItsRole
  <2>11. Authenticating(h, r) /\ Unadmitted(h, r)
    BY <1>1, <2>3, <2>5 DEF Authenticating, Unadmitted
  <2>12. Carries(h, r)
    <3>1. SUFFICES ASSUME r = "requests" PROVE Carries(h, r)
      BY DEF Carries
    <3>2. f.wire.toIde \in Seq(Sendable)
      BY <1>1, FrameIs
    <3>3. \A i \in DOMAIN f.wire.toIde : FALSE
      BY <1>1, <1>9, <3>1 DEF Authenticating, OfItsRole
    <3>4. f.wire.toIde = <<>>
      <4>1. DOMAIN f.wire.toIde = {}
        BY <3>3
      <4> QED BY <3>2, <4>1, EmptyDomainIs
    <3>5. f.wire.ops = <<>> /\ f.wire.toClient = <<>>
      BY <1>1, <3>1 DEF Authenticating
    <3> QED BY <1>8, <2>3, <2>5, <3>4, <3>5, NothingIs DEF Carries
  <2>13. FrameOK(h, {}, r, done, n)
    BY <2>5, <2>7, <2>8, <2>9, <2>10, <2>11, <2>12 DEF FrameOK
  <2> QED BY <2>4, <2>13, FlushOK
<1>10. FrameOK(Refuse(g), {}, r, done, n)
  BY <1>5, <1>7, RefuseOK
<1>11. FrameOK(ConnectNow(DropSocket([ApplyDiscovery(g) EXCEPT !.cl.retried = TRUE])), {}, r, done, n)
  <2> DEFINE a == ApplyDiscovery(g)
             d == [a.cl EXCEPT !.retried = TRUE]
             b == [a EXCEPT !.cl.retried = TRUE]
             h == DropSocket(b)
  <2>1. /\ a \in FrameType /\ a.wire = g.wire /\ a.agent = g.agent
        /\ a.cl.queue = g.cl.queue /\ a.cl.flight = g.cl.flight
        /\ a.cl.ack = g.cl.ack /\ a.cl.whenConnected = g.cl.whenConnected
        /\ a.cl.auth = g.cl.auth /\ a.cl.wanted = g.cl.wanted
    BY <1>7, ApplyDiscoveryIs
  <2>2. b = [a EXCEPT !.cl = d]
    OBVIOUS
  <2> HIDE DEF a, b
  <2>3. a.cl \in ClientType
    BY <2>1, FrameIs
  <2>4. d \in ClientType
    BY <2>3 DEF ClientType
  <2>5. /\ d.queue = a.cl.queue /\ d.flight = a.cl.flight /\ d.auth = a.cl.auth
        /\ d.wanted = a.cl.wanted /\ d.ack = a.cl.ack /\ d.whenConnected = a.cl.whenConnected
    BY <2>3 DEF ClientType
  <2> HIDE DEF d
  <2>6. b \in FrameType /\ b.cl = d /\ b.agent = a.agent
    BY <2>1, <2>2, <2>4, ClientIs
  <2>7. /\ h \in FrameType /\ h.wire = NoWire /\ h.agent = b.agent /\ ~h.cl.late
        /\ h.cl.queue = b.cl.queue /\ h.cl.flight = b.cl.flight /\ h.cl.ack = b.cl.ack
        /\ h.cl.whenConnected = b.cl.whenConnected /\ h.cl.auth = b.cl.auth
        /\ h.cl.wanted = b.cl.wanted
    BY <2>6, DropSocketIs
  <2>8. ConnectNow(DropSocket([ApplyDiscovery(g) EXCEPT !.cl.retried = TRUE])) = ConnectNow(h)
    BY DEF a, b
  <2> HIDE DEF h
  <2>9. /\ h.cl.queue = f.cl.queue /\ h.cl.flight = NoFlight /\ ~h.cl.auth
        /\ h.cl.wanted = f.cl.wanted /\ h.cl.ack = f.cl.ack
        /\ h.cl.whenConnected = f.cl.whenConnected /\ h.agent = f.agent
    BY <1>5, <1>7, <1>8, <2>1, <2>5, <2>6, <2>7
  <2>10. Queued(h) = Queued(f)
    BY <2>9 DEF Queued
  <2>11. HeldOnce(h, {})
    BY <1>1, <1>8, <2>9, <2>10 DEF HeldOnce
  <2>12. r = "requests" => ~h.cl.wanted /\ ~h.cl.ack /\ ~h.cl.whenConnected
    BY <1>1, <2>9 DEF OfItsRole
  <2>13. FrameOK(h, {}, r, done, n)
    BY <2>7, <2>9, <2>11, <2>12, UnwiredOK
  <2> QED BY <2>8, <2>13, ConnectNowOK
<1> QED BY <1>6, <1>9, <1>10, <1>11

LEMMA WatchAckOK ==
  ASSUME NEW r \in {"requests", "events"}, NEW done, NEW n, NEW f,
         FrameOK(f, {}, r, done, n), NEW line \in Lines, f.cl.ack
  PROVE  FrameOK(WatchAck(f, line), {}, r, done, n)
<1> DEFINE ok == line.text = "ok"
           wanted == f.cl.wanted /\ ok
           c == [f.cl EXCEPT !.ack = FALSE, !.subscribed = ok, !.wanted = wanted]
           b == [f.agent EXCEPT !.watch = FALSE]
           g == WatchAck(f, line)
<1>1. f \in FrameType /\ r = "events"
  BY DEF FrameOK, OfItsRole
<1>2. /\ f.cl \in ClientType /\ f.wire \in WireType /\ f.agent \in AgentType
      /\ f = [cl |-> f.cl, wire |-> f.wire, agent |-> f.agent]
  BY <1>1, FrameIs
<1>3. c \in ClientType
  <2>1. ok \in BOOLEAN /\ wanted \in BOOLEAN
    OBVIOUS
  <2> HIDE DEF ok, wanted
  <2> QED BY <1>2, <2>1 DEF ClientType
<1>4. /\ c.queue = f.cl.queue /\ c.flight = f.cl.flight /\ c.late = f.cl.late
      /\ c.made = f.cl.made /\ c.auth = f.cl.auth /\ c.sock = f.cl.sock
      /\ c.token = f.cl.token
  BY <1>2 DEF ClientType
<1>5. b \in AgentType /\ b.calls = f.agent.calls /\ b.made = f.agent.made /\ b.late = f.agent.late
  BY <1>2 DEF AgentType
<1>6. g = [cl |-> c, wire |-> f.wire, agent |-> b]
  <2>1. g = [[f EXCEPT !.cl = c] EXCEPT !.agent = [@ EXCEPT !.watch = FALSE]]
    BY <1>2 DEF WatchAck, WatchAnswered
  <2> HIDE DEF c
  <2> QED BY <1>2, <2>1
<1> HIDE DEF b, c, g
<1>7. g \in FrameType
  <2>1. [cl |-> c, wire |-> f.wire, agent |-> b] \in FrameType
    BY <1>1, <1>2, <1>3, <1>5, PartsIs
  <2> QED BY <1>6, <2>1
<1>8. g.cl = c /\ g.wire = f.wire /\ g.agent = b
  BY <1>6
<1>9. g.cl.auth => g.cl.token # 0
  BY <1>4, <1>8 DEF FrameOK, Authenticating
<1>10. FrameOK(g, {}, r, done, n)
  BY <1>1, <1>4, <1>5, <1>7, <1>8, <1>9, AlikeOK
<1> QED BY <1>10 DEF g

(* A line of a block, before its end.                                       *)
LEMMA StatusOK ==
  ASSUME NEW done, NEW n, NEW f,
         FrameOK(f, {}, "requests", done, n), NEW line \in Lines,
         ~f.cl.late /\ f.wire.authed => line.call = f.cl.flight.call,
         NEW g, g = [f EXCEPT !.cl.status = TRUE, !.cl.made = @ \union {line.call}]
  PROVE  FrameOK(g, {}, "requests", done, n)
<1> DEFINE made == f.cl.made \union {line.call}
           c == [f.cl EXCEPT !.status = TRUE, !.made = made]
           R == "requests"
<1>1. /\ f \in FrameType
      /\ HeldOnce(f, {}) /\ SentOnce(f, done) /\ Known(f, done, n)
      /\ OfItsRole(f, R) /\ Unconnected(f) /\ Authenticating(f, R)
      /\ Unadmitted(f, R) /\ Carries(f, R) /\ OwnAnswers(f)
  BY DEF FrameOK
<1>2. f.cl \in ClientType /\ made \in SUBSET Nat
  BY <1>1, FrameIs DEF Lines
<1>3. g = [f EXCEPT !.cl = c]
  OBVIOUS
<1>4. c \in ClientType
  <2> HIDE DEF made
  <2> QED BY <1>2 DEF ClientType
<1>5. /\ c.queue = f.cl.queue /\ c.flight = f.cl.flight /\ c.late = f.cl.late
      /\ c.made = made /\ c.auth = f.cl.auth /\ c.sock = f.cl.sock
      /\ c.token = f.cl.token /\ c.wanted = f.cl.wanted /\ c.ack = f.cl.ack
      /\ c.whenConnected = f.cl.whenConnected
  <2> HIDE DEF made
  <2> QED BY <1>2 DEF ClientType
<1> HIDE DEF c
<1>6. g \in FrameType /\ g.cl = c /\ g.wire = f.wire /\ g.agent = f.agent
  <2> HIDE DEF made
  <2>1. \A x : x = [f EXCEPT !.cl = c]
          => x \in FrameType /\ x.cl = c /\ x.wire = f.wire /\ x.agent = f.agent
    BY <1>1, <1>4, ClientIs
  <2> QED BY <1>3, <2>1
<1>7. Queued(g) = Queued(f) /\ Out(g) = Out(f)
  BY <1>5, <1>6 DEF Queued, Out
<1>8. HeldOnce(g, {}) /\ Known(g, done, n) /\ Unconnected(g) /\ OwnAnswers(g)
  BY <1>1, <1>5, <1>6, <1>7 DEF HeldOnce, Known, Unconnected, OwnAnswers
<1>9. SentOnce(g, done)
  BY <1>1, <1>5, <1>6, <1>7 DEF SentOnce, Unsent, Unread
<1>10. OfItsRole(g, R) /\ Authenticating(g, R) /\ Unadmitted(g, R)
  BY <1>1, <1>5, <1>6, <1>7 DEF OfItsRole, Authenticating, Unadmitted
<1>11. Carries(g, R)
  <2>1. ~f.cl.late /\ f.wire.authed /\ f.cl.made \subseteq {f.cl.flight.call}
           => made \subseteq {f.cl.flight.call}
    OBVIOUS
  <2> HIDE DEF made
  <2> QED BY <1>1, <1>5, <1>6, <2>1 DEF Carries
<1> QED BY <1>6, <1>8, <1>9, <1>10, <1>11 DEF FrameOK

(* The line is taken off the wire.                                          *)
Popped(f) == [f EXCEPT !.wire.toClient = Tail(@)]

LEMMA PoppedOK ==
  ASSUME NEW r \in {"requests", "events"}, NEW done, NEW n, NEW f,
         FrameOK(f, {}, r, done, n), f.wire.toClient # <<>>,
         NEW g, g = Popped(f), NEW line, line = Head(f.wire.toClient)
  PROVE  /\ FrameOK(g, {}, r, done, n) /\ line \in Lines
         /\ r = "requests" /\ g.cl.auth =>
              g.wire.toClient = <<>> /\ (line.text = "ok" => g.wire.authed)
         /\ r = "requests" /\ ~g.cl.auth /\ ~g.cl.late /\ g.cl.flight # NoFlight =>
              /\ g.wire.toIde = <<>> /\ g.wire.ops = <<>>
              /\ g.wire.authed => line.call = g.cl.flight.call
                                  /\ g.cl.made \subseteq {g.cl.flight.call}
              /\ ~g.wire.authed => line.text = "error"
              /\ g.cl.flight.kind = "build" => g.wire.toClient = <<>>
              /\ g.cl.flight.kind = "read" /\ line.text = "." => g.wire.toClient = <<>>
<1> DEFINE w == [f.wire EXCEPT !.toClient = Tail(@)]
<1>1. /\ f \in FrameType
      /\ HeldOnce(f, {}) /\ SentOnce(f, done) /\ Known(f, done, n)
      /\ OfItsRole(f, r) /\ Unconnected(f) /\ Authenticating(f, r)
      /\ Unadmitted(f, r) /\ Carries(f, r) /\ OwnAnswers(f)
  BY DEF FrameOK
<1>2. /\ f.cl \in ClientType /\ f.wire \in WireType /\ f.agent \in AgentType
      /\ f.wire.toClient \in Seq(Lines)
  BY <1>1, FrameIs
<1>3. /\ Tail(f.wire.toClient) \in Seq(Lines) /\ Len(f.wire.toClient) \in Nat \ {0}
      /\ Len(Tail(f.wire.toClient)) = Len(f.wire.toClient) - 1
      /\ \A i \in DOMAIN Tail(f.wire.toClient) :
           i + 1 \in DOMAIN f.wire.toClient
           /\ Tail(f.wire.toClient)[i] = f.wire.toClient[i + 1] /\ i \in Nat
      /\ line = f.wire.toClient[1] /\ 1 \in DOMAIN f.wire.toClient /\ line \in Lines
  <2>1. /\ Tail(f.wire.toClient) \in Seq(Lines) /\ Len(f.wire.toClient) \in Nat \ {0}
        /\ Len(Tail(f.wire.toClient)) = Len(f.wire.toClient) - 1
        /\ line = f.wire.toClient[1] /\ 1 \in DOMAIN f.wire.toClient /\ line \in Lines
        /\ DOMAIN Tail(f.wire.toClient) = 1 .. Len(f.wire.toClient) - 1
    BY <1>2, TailIs
  <2>2. \A i \in DOMAIN Tail(f.wire.toClient) :
           i + 1 \in DOMAIN f.wire.toClient
           /\ Tail(f.wire.toClient)[i] = f.wire.toClient[i + 1]
    BY <1>2, TailElements
  <2> QED BY <2>1, <2>2
<1>4. w \in WireType
  BY <1>2, <1>3 DEF WireType
<1>5. /\ w.toClient = Tail(f.wire.toClient) /\ w.toIde = f.wire.toIde /\ w.ops = f.wire.ops
      /\ w.shut = f.wire.shut /\ w.authed = f.wire.authed
  BY <1>2 DEF WireType
<1>6. g = [cl |-> f.cl, wire |-> w, agent |-> f.agent]
  <2>1. g = [f EXCEPT !.wire = w]
    BY DEF Popped
  <2> HIDE DEF w
  <2> QED BY <1>1, <1>4, <2>1, PartsIs
<1> HIDE DEF w
<1>7. g \in FrameType
  <2>1. [cl |-> f.cl, wire |-> w, agent |-> f.agent] \in FrameType
    BY <1>1, <1>2, <1>4, PartsIs
  <2> QED BY <1>6, <2>1
<1>8. g.cl = f.cl /\ g.agent = f.agent /\ g.wire = w
  BY <1>6
<1>9. Queued(g) = Queued(f) /\ Out(g) = Out(f)
  BY <1>5, <1>8 DEF Queued, Out
<1>10. HeldOnce(g, {}) /\ Known(g, done, n) /\ OwnAnswers(g)
  BY <1>1, <1>8, <1>9 DEF HeldOnce, Known, OwnAnswers
<1>11. SentOnce(g, done)
  BY <1>1, <1>5, <1>8, <1>9 DEF SentOnce, Unsent, Unread
<1>12. OfItsRole(g, r)
  BY <1>1, <1>5, <1>8, <1>9 DEF OfItsRole
<1>13. Unconnected(g)
  BY <1>1, <1>8, NothingIs DEF Unconnected
<1>14. (\E x : f.wire.toClient = <<x>>) => w.toClient = <<>>
  BY <1>5
<1>15. Authenticating(g, r)
  BY <1>1, <1>5, <1>8, <1>14 DEF Authenticating
<1>16. Unadmitted(g, r)
  BY <1>1, <1>5, <1>8, <1>14 DEF Unadmitted
<1>17. ASSUME r = "requests", ~f.cl.auth, ~f.cl.late
       PROVE  /\ f.wire.toIde = <<>> /\ f.wire.ops = <<>> /\ f.cl.flight # NoFlight
              /\ f.wire.authed =>
                   /\ \A i \in DOMAIN f.wire.toClient : f.wire.toClient[i].call = f.cl.flight.call
                   /\ f.cl.made \subseteq {f.cl.flight.call}
              /\ f.cl.flight.kind = "build" => Len(f.wire.toClient) <= 1
              /\ f.cl.flight.kind = "read" =>
                   \A i \in DOMAIN f.wire.toClient :
                     f.wire.toClient[i].text = "." => i = Len(f.wire.toClient)
  BY <1>1, <1>17 DEF Carries
<1>18. Carries(g, r)
  <2>1. SUFFICES ASSUME r = "requests", ~f.cl.auth, ~f.cl.late PROVE Carries(g, r)
    BY <1>8 DEF Carries
  <2>2. f.wire.authed => \A i \in DOMAIN w.toClient : w.toClient[i].call = f.cl.flight.call
    BY <1>3, <1>5, <1>17, <2>1
  <2>3. f.cl.flight.kind = "build" => Len(w.toClient) <= 1
    BY <1>3, <1>5, <1>17, <2>1
  <2>4. f.cl.flight.kind = "read" =>
          \A i \in DOMAIN w.toClient : w.toClient[i].text = "." => i = Len(w.toClient)
    BY <1>3, <1>5, <1>17, <2>1
  <2> QED BY <1>5, <1>8, <1>17, <2>1, <2>2, <2>3, <2>4 DEF Carries
<1>19. FrameOK(g, {}, r, done, n)
  BY <1>7, <1>10, <1>11, <1>12, <1>13, <1>15, <1>16, <1>18 DEF FrameOK
<1>20. ASSUME r = "requests", g.cl.auth
       PROVE  g.wire.toClient = <<>> /\ (line.text = "ok" => g.wire.authed)
  <2>1. \E t \in {"ok", "error"} : f.wire.toClient = <<Line(0, t)>> /\ (t = "ok" => f.wire.authed)
    BY <1>1, <1>8, <1>20 DEF Authenticating, Unadmitted
  <2>2. PICK t \in {"ok", "error"} : f.wire.toClient = <<Line(0, t)>> /\ (t = "ok" => f.wire.authed)
    BY <2>1
  <2>3. line = Line(0, t)
    BY <1>3, <2>2
  <2> QED BY <1>5, <1>8, <1>14, <2>2, <2>3 DEF Line
<1>21. ASSUME r = "requests", ~g.cl.auth, ~g.cl.late, g.cl.flight # NoFlight
       PROVE  /\ g.wire.toIde = <<>> /\ g.wire.ops = <<>>
              /\ g.wire.authed => line.call = g.cl.flight.call
                                  /\ g.cl.made \subseteq {g.cl.flight.call}
              /\ ~g.wire.authed => line.text = "error"
              /\ g.cl.flight.kind = "build" => g.wire.toClient = <<>>
              /\ g.cl.flight.kind = "read" /\ line.text = "." => g.wire.toClient = <<>>
  <2>1. /\ g.wire.toIde = <<>> /\ g.wire.ops = <<>>
        /\ g.wire.authed => line.call = g.cl.flight.call
                            /\ g.cl.made \subseteq {g.cl.flight.call}
    BY <1>3, <1>5, <1>8, <1>17, <1>21
  <2>2. ~g.wire.authed => line.text = "error"
    <3>1. ~g.wire.authed => f.wire.toClient = <<Line(0, "error")>>
      BY <1>1, <1>5, <1>8, <1>21 DEF Unadmitted
    <3> QED BY <1>3, <3>1 DEF Line
  <2>3. Len(f.wire.toClient) <= 1 => g.wire.toClient = <<>>
    <3>1. Len(f.wire.toClient) <= 1 => Len(g.wire.toClient) = 0
      <4>1. Len(g.wire.toClient) = Len(f.wire.toClient) - 1
        BY <1>3, <1>5, <1>8
      <4>2. \A m \in Nat \ {0} : m <= 1 => m - 1 = 0
        OBVIOUS
      <4> QED BY <1>3, <4>1, <4>2
    <3>2. g.wire.toClient \in Seq(Lines)
      BY <1>3, <1>5, <1>8
    <3> QED BY <3>1, <3>2, EmptyIs
  <2>4. g.cl.flight.kind = "build" => Len(f.wire.toClient) <= 1
    BY <1>8, <1>17, <1>21
  <2>5. g.cl.flight.kind = "read" /\ line.text = "." => Len(f.wire.toClient) <= 1
    BY <1>3, <1>8, <1>17, <1>21
  <2> QED BY <2>1, <2>2, <2>3, <2>4, <2>5
<1> QED BY <1>3, <1>19, <1>20, <1>21

LEMMA DispatchLineOK ==
  ASSUME TypeOK, TokensAreReal,
         NEW r \in {"requests", "events"}, NEW done, NEW n \in Nat, NEW f,
         FrameOK(f, {}, r, done, n), f.wire.toClient # <<>>
  PROVE  FrameOK(DispatchLine(Popped(f), Head(f.wire.toClient)), {}, r, done, n)
<1> DEFINE g == Popped(f)
           line == Head(f.wire.toClient)
           d == DispatchLine(g, line)
<1>1. /\ FrameOK(g, {}, r, done, n) /\ line \in Lines
      /\ r = "requests" /\ g.cl.auth =>
           g.wire.toClient = <<>> /\ (line.text = "ok" => g.wire.authed)
      /\ r = "requests" /\ ~g.cl.auth /\ ~g.cl.late /\ g.cl.flight # NoFlight =>
           /\ g.wire.toIde = <<>> /\ g.wire.ops = <<>>
           /\ g.wire.authed => line.call = g.cl.flight.call
                               /\ g.cl.made \subseteq {g.cl.flight.call}
           /\ ~g.wire.authed => line.text = "error"
           /\ g.cl.flight.kind = "build" => g.wire.toClient = <<>>
           /\ g.cl.flight.kind = "read" /\ line.text = "." => g.wire.toClient = <<>>
  BY PoppedOK
<1> HIDE DEF g, line
<1>2. /\ g.cl.flight \in Requests \union {NoFlight}
      /\ g.cl.auth \in BOOLEAN /\ g.cl.ack \in BOOLEAN /\ g.cl.status \in BOOLEAN
      /\ g.cl.late \in BOOLEAN
  BY <1>1, FrameIs DEF FrameOK
<1>3. CASE g.cl.auth
  <2>1. d = AuthAck(g, line)
    BY <1>3 DEF DispatchLine
  <2> QED BY <1>1, <1>3, <2>1, AuthAckOK DEF g, line
<1>4. CASE ~g.cl.auth /\ g.cl.ack
  <2>1. d = WatchAck(g, line)
    BY <1>4 DEF DispatchLine
  <2> QED BY <1>1, <1>4, <2>1, WatchAckOK DEF g, line
<1>5. CASE ~g.cl.auth /\ ~g.cl.ack /\ g.cl.flight = NoFlight
  <2>1. d = g
    <3>1. \A x, l : ~x.cl.auth /\ ~x.cl.ack /\ x.cl.flight = NoFlight => DispatchLine(x, l) = x
      BY NothingIs DEF DispatchLine
    <3> QED BY <1>5, <3>1
  <2> QED BY <1>1, <2>1 DEF g, line
<1>6. ASSUME ~g.cl.auth, ~g.cl.ack, g.cl.flight # NoFlight
      PROVE  FrameOK(d, {}, r, done, n)
  <2>1. r = "requests" /\ g.cl.flight.kind \in {"build", "read"}
    BY <1>1, <1>2, <1>6 DEF FrameOK, OfItsRole, Requests
  <2>2. CASE g.cl.flight.kind = "read" /\ (~g.cl.status \/ line.text # ".")
    <3>1. d = [g EXCEPT !.cl.status = TRUE, !.cl.made = @ \union {line.call}]
      BY <1>6, <2>2 DEF DispatchLine
    <3>2. ~g.cl.late /\ g.wire.authed => line.call = g.cl.flight.call
      BY <1>1, <1>6, <2>1
    <3> HIDE DEF d
    <3>3. \A x : x = [g EXCEPT !.cl.status = TRUE, !.cl.made = @ \union {line.call}]
                => FrameOK(x, {}, "requests", done, n)
      BY <1>1, <2>1, <3>2, StatusOK
    <3> QED BY <2>1, <3>1, <3>3
  <2>3. CASE ~(g.cl.flight.kind = "read" /\ (~g.cl.status \/ line.text # "."))
    <3>1. d = Complete(g, line)
      BY <1>6, <2>3 DEF DispatchLine
    <3>2. ~g.cl.late => g.wire.toIde = <<>> /\ g.wire.ops = <<>> /\ g.wire.toClient = <<>>
      BY <1>1, <1>6, <2>1, <2>3
    <3>3. \/ g.cl.flight.kind = "build" /\ line.text = "error"
          \/ g.cl.late \/ g.cl.made \union {line.call} \subseteq {g.cl.flight.call}
      <4>1. SUFFICES ASSUME ~g.cl.late, ~(g.cl.flight.kind = "build" /\ line.text = "error")
                     PROVE  g.cl.made \union {line.call} \subseteq {g.cl.flight.call}
        OBVIOUS
      <4>2. line.text # "error"
        BY <2>1, <2>3, <4>1
      <4>3. g.wire.authed
        BY <1>1, <1>6, <2>1, <4>1, <4>2
      <4> QED BY <1>1, <1>6, <2>1, <4>1, <4>3
    <3> HIDE DEF d
    <3> QED BY <1>1, <1>6, <2>1, <3>1, <3>2, <3>3, CompleteOK
  <2> QED BY <2>2, <2>3
<1> QED BY <1>2, <1>3, <1>4, <1>5, <1>6 DEF g, line

-----------------------------------------------------------------------------
(* The agent calls.                                                         *)

(* The bound on the calls made may grow.                                    *)
LEMMA GrowOK ==
  ASSUME NEW ih, NEW r, NEW done, NEW n \in Nat, NEW f, FrameOK(f, ih, r, done, n),
         \A x \in Out(f) \union Range(done) : x \in Requests => x.call \in Nat
  PROVE  FrameOK(f, ih, r, done, n + 1)
<1>1. \A c \in Calls : c > n + 1 => c > n
  BY BoundsAssumption DEF Calls
<1>2. \A x \in Out(f) \union Range(done) : x \in Requests => x.call <= n + 1
  <2>1. \A m \in Nat : m <= n => m <= n + 1
    OBVIOUS
  <2> QED BY <2>1 DEF FrameOK, Known
<1>3. Known(f, done, n + 1)
  BY <1>1, <1>2 DEF FrameOK, Known
<1> QED BY <1>3 DEF FrameOK

(* A new call is in hand, and nothing was ever sent for it.                 *)
LEMMA OpeningOK ==
  ASSUME NEW done, NEW n \in Nat, NEW f, FrameOK(f, {}, "requests", done, n),
         n + 1 \in Calls, NEW g, g = [f EXCEPT !.agent.calls[n + 1] = "open"],
         NEW q \in Requests, q.call = n + 1
  PROVE  FrameOK(g, {q.call}, "requests", done, n + 1) /\ Unsent(g, q, done)
<1> DEFINE ca == [f.agent.calls EXCEPT ![n + 1] = "open"]
           b == [f.agent EXCEPT !.calls = ca]
           R == "requests"
<1>1. /\ f \in FrameType
      /\ HeldOnce(f, {}) /\ SentOnce(f, done) /\ Known(f, done, n)
      /\ OfItsRole(f, R) /\ Unconnected(f) /\ Authenticating(f, R)
      /\ Unadmitted(f, R) /\ Carries(f, R) /\ OwnAnswers(f)
  BY DEF FrameOK
<1>2. /\ f.cl \in ClientType /\ f.wire \in WireType /\ f.agent \in AgentType
      /\ f.agent.calls \in [Calls -> {"none", "open", "answered"}]
      /\ f.cl.flight \in Requests \union {NoFlight} /\ Queued(f) \subseteq Calls
  BY <1>1, FrameIs
<1>3. /\ ca \in [Calls -> {"none", "open", "answered"}]
      /\ \A x \in Calls : ca[x] = IF x = n + 1 THEN "open" ELSE f.agent.calls[x]
  BY <1>2
<1>4. g = [f EXCEPT !.agent = b]
  OBVIOUS
<1> HIDE DEF ca
<1>5. /\ b \in AgentType /\ b.calls = ca /\ b.made = f.agent.made /\ b.late = f.agent.late
  BY <1>2, <1>3 DEF AgentType
<1> HIDE DEF b
<1>6. g = [cl |-> f.cl, wire |-> f.wire, agent |-> b]
  BY <1>1, <1>4, <1>5, PartsIs
<1>7. g \in FrameType
  <2>1. [cl |-> f.cl, wire |-> f.wire, agent |-> b] \in FrameType
    BY <1>1, <1>2, <1>5, PartsIs
  <2> QED BY <1>6, <2>1
<1>8. g.cl = f.cl /\ g.wire = f.wire /\ g.agent = b
  BY <1>6
<1>9. Queued(g) = Queued(f) /\ Out(g) = Out(f)
  BY <1>8 DEF Queued, Out
<1>10. f.agent.calls[n + 1] = "none" /\ n + 1 \notin Queued(f) \union {f.cl.flight.call}
  <2>1. n + 1 > n
    OBVIOUS
  <2> QED BY <1>1, <2>1 DEF Known, HeldOnce
<1>11. HeldOnce(g, {q.call})
  BY <1>1, <1>3, <1>5, <1>8, <1>9, <1>10 DEF HeldOnce
<1>12. SentOnce(g, done)
  BY <1>1, <1>8, <1>9 DEF SentOnce, Unsent, Unread
<1>13. \A m \in Nat : m <= n => m <= n + 1 /\ m # n + 1
  OBVIOUS
<1>14. \A x \in Requests : x.call \in Nat
  BY BoundsAssumption DEF Requests, Calls
<1>15. Known(g, done, n + 1)
  <2>1. \A c \in Calls : c > n + 1 => c > n /\ c # n + 1
    BY BoundsAssumption DEF Calls
  <2>2. \A c \in Calls : c > n + 1 => ca[c] = "none"
    BY <1>1, <1>3, <2>1 DEF Known
  <2> QED BY <1>1, <1>5, <1>8, <1>9, <1>13, <1>14, <2>2 DEF Known
<1>16. OfItsRole(g, R) /\ Unconnected(g)
  BY <1>1, <1>8, <1>9 DEF OfItsRole, Unconnected
<1>17. Authenticating(g, R) /\ Unadmitted(g, R)
  BY <1>1, <1>8 DEF Authenticating, Unadmitted
<1>18. Carries(g, R)
  BY <1>1, <1>8 DEF Carries
<1>19. OwnAnswers(g)
  BY <1>1, <1>5, <1>8 DEF OwnAnswers
<1>20. Unsent(g, q, done)
  <2>1. [call |-> q.call, kind |-> "read"] \in Requests
    BY DEF Requests
  <2>2. \A x \in Out(g) \union Range(done) : x \in Requests => x.call # n + 1
    BY <1>1, <1>9, <1>13, <1>14 DEF Known
  <2> QED BY <2>1, <2>2 DEF Unsent
<1> QED BY <1>7, <1>11, <1>12, <1>15, <1>16, <1>17, <1>18, <1>19, <1>20 DEF FrameOK

-----------------------------------------------------------------------------
(* The token and the watch.                                                 *)

(* A line that is no request goes out: a watch, or the token before all.    *)
LEMMA SayOK ==
  ASSUME NEW r \in {"requests", "events"}, NEW done, NEW n, NEW f, FrameOK(f, {}, r, done, n),
         f.cl.sock = "up", NEW line \in Sendable,
         \/ r = "events" /\ line.kind = "watch"
         \/ f.cl.auth /\ ~f.wire.authed /\ f.wire.toIde = <<>> /\ line.kind = "auth",
         NEW g, g = Say(f, line)
  PROVE  FrameOK(g, {}, r, done, n) /\ g.cl = f.cl /\ g.agent = f.agent
<1> DEFINE w == [f.wire EXCEPT !.toIde = Append(@, line)]
<1>1. /\ f \in FrameType
      /\ HeldOnce(f, {}) /\ SentOnce(f, done) /\ Known(f, done, n)
      /\ OfItsRole(f, r) /\ Unconnected(f) /\ Authenticating(f, r)
      /\ Unadmitted(f, r) /\ Carries(f, r) /\ OwnAnswers(f)
  BY DEF FrameOK
<1>2. /\ f.cl \in ClientType /\ f.wire \in WireType /\ f.agent \in AgentType
      /\ f.wire.toIde \in Seq(Sendable)
  BY <1>1, FrameIs
<1>3. /\ Append(f.wire.toIde, line) \in Seq(Sendable)
      /\ Range(Append(f.wire.toIde, line)) = Range(f.wire.toIde) \union {line}
  BY <1>2, AppendIs, AppendElements
<1>4. w \in WireType
  BY <1>2, <1>3 DEF WireType
<1>5. /\ w.toIde = Append(f.wire.toIde, line) /\ w.toClient = f.wire.toClient
      /\ w.ops = f.wire.ops /\ w.shut = f.wire.shut /\ w.authed = f.wire.authed
  BY <1>2 DEF WireType
<1>6. g = [f EXCEPT !.wire = w]
  BY DEF Say
<1> HIDE DEF w
<1>7. g = [cl |-> f.cl, wire |-> w, agent |-> f.agent]
  BY <1>1, <1>4, <1>6, PartsIs
<1>8. g \in FrameType
  <2>1. [cl |-> f.cl, wire |-> w, agent |-> f.agent] \in FrameType
    BY <1>1, <1>2, <1>4, PartsIs
  <2> QED BY <1>7, <2>1
<1>9. g.cl = f.cl /\ g.agent = f.agent /\ g.wire = w
  BY <1>7
<1>10. Queued(g) = Queued(f) /\ Out(g) = Out(f) \union {line}
  BY <1>3, <1>5, <1>9 DEF Queued, Out
<1>11. /\ Len(f.wire.toIde) \in Nat /\ DOMAIN f.wire.toIde = 1 .. Len(f.wire.toIde)
       /\ DOMAIN g.wire.toIde = 1 .. Len(f.wire.toIde) + 1
       /\ \A i \in DOMAIN f.wire.toIde : g.wire.toIde[i] = f.wire.toIde[i]
       /\ g.wire.toIde[Len(f.wire.toIde) + 1] = line
  BY <1>2, <1>5, <1>9, AppendIs
<1>12. line \notin Requests /\ line.kind \notin {"build", "read"} /\ line.kind \in {"auth", "watch"}
  BY DEF Requests
<1>13. \A i \in DOMAIN g.wire.toIde : i \in DOMAIN f.wire.toIde \/ i = Len(f.wire.toIde) + 1
  BY <1>11
<1>14. HeldOnce(g, {}) /\ OwnAnswers(g)
  BY <1>1, <1>9, <1>10 DEF HeldOnce, OwnAnswers
<1>15. SentOnce(g, done)
  <2>1. \A q : Unsent(f, q, done) /\ q \in Requests => Unsent(g, q, done)
    <3>1. \A q \in Requests : [call |-> q.call, kind |-> "read"] \in Requests
      BY DEF Requests
    <3> QED BY <1>10, <1>12, <3>1 DEF Unsent
  <2>2. \A i \in DOMAIN g.cl.queue : Unsent(g, g.cl.queue[i], done)
    <3>1. \A i \in DOMAIN f.cl.queue : f.cl.queue[i] \in Requests
      <4>1. f.cl.queue \in Seq(Requests)
        BY <1>1, FrameIs
      <4> QED BY <4>1
    <3> QED BY <1>1, <1>9, <2>1, <3>1 DEF SentOnce
  <2>3. g.cl.flight # NoFlight => Unread(g, g.cl.flight, done)
    <3>1. [call |-> g.cl.flight.call, kind |-> "read"] # line
      BY <1>12
    <3> QED BY <1>1, <1>9, <1>10, <3>1 DEF SentOnce, Unread
  <2>4. \A i, j \in DOMAIN g.wire.toIde :
          g.wire.toIde[i] = g.wire.toIde[j] /\ g.wire.toIde[i] \in Requests => i = j
    BY <1>1, <1>11, <1>12, <1>13 DEF SentOnce
  <2>5. \A i \in DOMAIN g.wire.toIde, j \in DOMAIN g.wire.ops :
          g.wire.toIde[i] \in Requests => g.wire.toIde[i] # g.wire.ops[j]
    BY <1>1, <1>5, <1>9, <1>11, <1>12, <1>13 DEF SentOnce
  <2>6. \A x \in Out(g) : x \in Requests => x \notin Range(done)
    BY <1>1, <1>10, <1>12 DEF SentOnce
  <2> QED BY <1>1, <1>5, <1>9, <2>2, <2>3, <2>4, <2>5, <2>6 DEF SentOnce
<1>16. Known(g, done, n)
  BY <1>1, <1>9, <1>10, <1>12 DEF Known
<1>17. OfItsRole(g, r)
  <2>1. ASSUME NEW i \in DOMAIN g.wire.toIde, g.wire.toIde[i].kind = "auth"
        PROVE  i = 1 /\ ~g.wire.authed /\ (r = "requests" => g.cl.auth)
    <3>1. CASE i \in DOMAIN f.wire.toIde
      BY <1>1, <1>5, <1>9, <1>11, <2>1, <3>1 DEF OfItsRole
    <3>2. CASE i = Len(f.wire.toIde) + 1
      <4>1. line.kind = "auth"
        BY <1>11, <2>1, <3>2
      <4>2. f.cl.auth /\ ~f.wire.authed /\ f.wire.toIde = <<>>
        BY <4>1
      <4>3. Len(f.wire.toIde) = 0
        BY <4>2
      <4> QED BY <1>5, <1>9, <3>2, <4>2, <4>3
    <3> QED BY <1>13, <3>1, <3>2
  <2>2. r = "requests" => line.kind = "auth"
    OBVIOUS
  <2>3. \A x \in Out(g) : r = "requests" => x.kind # "watch"
    BY <1>1, <1>10, <2>2 DEF OfItsRole
  <2>4. \A x \in Out(g) : x.kind \in {"build", "read"} => x \in Requests
    BY <1>1, <1>10, <1>12 DEF OfItsRole
  <2>5. r = "events" => \A x \in Out(g) : x \notin Requests
    BY <1>1, <1>10, <1>12 DEF OfItsRole
  <2> QED BY <1>1, <1>5, <1>9, <2>1, <2>3, <2>4, <2>5 DEF OfItsRole
<1>18. Unconnected(g) /\ Unadmitted(g, r)
  BY <1>1, <1>5, <1>9 DEF Unconnected, Unadmitted
<1>19. Authenticating(g, r)
  <2>1. r = "requests" /\ f.cl.auth => \A i \in DOMAIN g.wire.toIde : g.wire.toIde[i].kind = "auth"
    BY <1>1, <1>11, <1>13 DEF Authenticating
  <2> QED BY <1>1, <1>5, <1>9, <2>1 DEF Authenticating
<1>20. Carries(g, r)
  BY <1>1, <1>5, <1>9 DEF Carries
<1> QED BY <1>8, <1>9, <1>14, <1>15, <1>16, <1>17, <1>18, <1>19, <1>20 DEF FrameOK

LEMMA SendWatchOK ==
  ASSUME NEW done, NEW n, NEW f, FrameOK(f, {}, "events", done, n), f.cl.sock = "up"
  PROVE  FrameOK(SendWatch(f), {}, "events", done, n)
<1> DEFINE c == [f.cl EXCEPT !.whenConnected = FALSE, !.ack = TRUE]
           g == [f EXCEPT !.cl.whenConnected = FALSE, !.cl.ack = TRUE]
           line == [call |-> 0, kind |-> "watch"]
<1>1. f \in FrameType /\ f.cl \in ClientType
  BY FrameIs DEF FrameOK
<1>2. c \in ClientType
  BY <1>1 DEF ClientType
<1>3. /\ c.queue = f.cl.queue /\ c.flight = f.cl.flight /\ c.late = f.cl.late
      /\ c.made = f.cl.made /\ c.auth = f.cl.auth /\ c.sock = f.cl.sock
      /\ c.token = f.cl.token
  BY <1>1 DEF ClientType
<1>4. g = [f EXCEPT !.cl = c]
  OBVIOUS
<1>5. SendWatch(f) = Say(g, line)
  BY DEF SendWatch
<1> HIDE DEF c, g
<1>6. g \in FrameType /\ g.cl = c /\ g.wire = f.wire /\ g.agent = f.agent
  BY <1>1, <1>2, <1>4, ClientIs
<1>7. g.cl.auth => g.cl.token # 0
  BY <1>3, <1>6 DEF FrameOK, Authenticating
<1>8. FrameOK(g, {}, "events", done, n)
  BY <1>3, <1>6, <1>7, AlikeOK
<1>9. line \in Sendable /\ line.kind = "watch"
  BY DEF Sendable
<1>10. g.cl.sock = "up"
  BY <1>3, <1>6
<1> HIDE DEF line
<1> QED BY <1>5, <1>8, <1>9, <1>10, SayOK

(* The agent's side of a watch is not the client's business.                *)
LEMMA WatchAnsweredOK ==
  ASSUME NEW r, NEW done, NEW n, NEW f, FrameOK(f, {}, r, done, n), NEW v \in BOOLEAN
  PROVE  /\ FrameOK([f EXCEPT !.agent.watch = v], {}, r, done, n)
         /\ [f EXCEPT !.agent.watch = v].cl = f.cl
<1> DEFINE b == [f.agent EXCEPT !.watch = v]
           g == [f EXCEPT !.agent.watch = v]
<1>1. f \in FrameType /\ f.cl \in ClientType /\ f.wire \in WireType /\ f.agent \in AgentType
  BY FrameIs DEF FrameOK
<1>2. b \in AgentType /\ b.calls = f.agent.calls /\ b.made = f.agent.made /\ b.late = f.agent.late
  BY <1>1 DEF AgentType
<1>3. g = [f EXCEPT !.agent = b]
  OBVIOUS
<1> HIDE DEF b, g
<1>4. g = [cl |-> f.cl, wire |-> f.wire, agent |-> b]
  BY <1>1, <1>2, <1>3, PartsIs
<1>5. g \in FrameType
  <2>1. [cl |-> f.cl, wire |-> f.wire, agent |-> b] \in FrameType
    BY <1>1, <1>2, PartsIs
  <2> QED BY <1>4, <2>1
<1>6. g.cl = f.cl /\ g.wire = f.wire /\ g.agent = b
  BY <1>4
<1>7. /\ f.cl.auth => f.cl.token # 0
      /\ r = "requests" => ~f.cl.wanted /\ ~f.cl.ack /\ ~f.cl.whenConnected
  BY DEF FrameOK, Authenticating, OfItsRole
<1>8. FrameOK(g, {}, r, done, n)
  BY <1>2, <1>5, <1>6, <1>7, AlikeOK
<1> QED BY <1>6, <1>8 DEF g

LEMMA SubscribeOK ==
  ASSUME TypeOK, TokensAreReal,
         NEW done, NEW n, NEW f, FrameOK(f, {}, "events", done, n)
  PROVE  FrameOK(Subscribe(f), {}, "events", done, n)
<1> DEFINE g == ApplyDiscovery(f)
           c == [g.cl EXCEPT !.wanted = TRUE, !.whenConnected = TRUE, !.gaveUp = FALSE]
           h == [g EXCEPT !.cl.wanted = TRUE, !.cl.whenConnected = TRUE, !.cl.gaveUp = FALSE]
           R == "events"
<1>1. /\ g \in FrameType /\ g.wire = f.wire /\ g.agent = f.agent
      /\ g.cl.sock = f.cl.sock /\ g.cl.queue = f.cl.queue /\ g.cl.flight = f.cl.flight
      /\ g.cl.auth = f.cl.auth /\ g.cl.late = f.cl.late /\ g.cl.made = f.cl.made
      /\ f.cl.token # 0 => g.cl.token # 0
  BY ApplyDiscoveryIs DEF FrameOK
<1>2. f.cl.auth => f.cl.token # 0
  BY DEF FrameOK, Authenticating
<1>3. \/ Subscribe(f) = f \/ Subscribe(f) = WatchAnswered(g)
      \/ (g.cl.sock = "up" /\ Subscribe(f) = SendWatch(h)) \/ Subscribe(f) = ConnectNow(h)
  <2>1. CASE f.cl.subscribed \/ f.cl.ack
    BY <2>1 DEF Subscribe
  <2>2. CASE ~(f.cl.subscribed \/ f.cl.ack) /\ ~g.cl.port
    BY <2>2 DEF Subscribe
  <2>3. CASE ~(f.cl.subscribed \/ f.cl.ack) /\ g.cl.port
    BY <2>3 DEF Subscribe
  <2> QED BY <2>1, <2>2, <2>3
<1>4. h = [g EXCEPT !.cl = c]
  OBVIOUS
<1> HIDE DEF g, h
<1>5. FrameOK(g, {}, R, done, n)
  BY <1>1, <1>2, AlikeOK
<1>6. FrameOK(WatchAnswered(g), {}, R, done, n)
  BY <1>5, WatchAnsweredOK DEF WatchAnswered
<1>7. g.cl \in ClientType
  BY <1>1, FrameIs
<1>8. c \in ClientType
  BY <1>7 DEF ClientType
<1>9. /\ c.queue = g.cl.queue /\ c.flight = g.cl.flight /\ c.late = g.cl.late
      /\ c.made = g.cl.made /\ c.auth = g.cl.auth /\ c.sock = g.cl.sock
      /\ c.token = g.cl.token
  BY <1>7 DEF ClientType
<1> HIDE DEF c
<1>10. h \in FrameType /\ h.cl = c /\ h.wire = g.wire /\ h.agent = g.agent
  BY <1>1, <1>4, <1>8, ClientIs
<1>11. FrameOK(h, {}, R, done, n)
  BY <1>1, <1>2, <1>5, <1>9, <1>10, AlikeOK
<1>12. FrameOK(ConnectNow(h), {}, R, done, n)
  BY <1>11, ConnectNowOK
<1>13. g.cl.sock = "up" => FrameOK(SendWatch(h), {}, R, done, n)
  BY <1>9, <1>10, <1>11, SendWatchOK
<1> QED BY <1>3, <1>6, <1>12, <1>13

-----------------------------------------------------------------------------
(* The connection stands.                                                   *)

LEMMA OnConnectedOK ==
  ASSUME TypeOK, TokensAreReal,
         NEW r \in {"requests", "events"}, NEW done, NEW n \in Nat, NEW f,
         FrameOK(f, {}, r, done, n), f.cl.sock = "dialing"
  PROVE  FrameOK(OnConnected(f), {}, r, done, n)
<1> DEFINE au == f.cl.auth \/ f.cl.token # 0
           c == [f.cl EXCEPT !.sock = "up", !.auth = au]
           g == [f EXCEPT !.cl.sock = "up", !.wire = NoWire, !.cl.auth = @ \/ f.cl.token # 0]
           line == [call |-> f.cl.token, kind |-> "auth"]
           h == IF f.cl.token = 0 THEN g ELSE Say(g, line)
           e == IF f.cl.wanted /\ ~f.cl.subscribed THEN SendWatch(h) ELSE h
<1>1. /\ f \in FrameType /\ f.cl \in ClientType /\ f.wire \in WireType
      /\ f.agent \in AgentType /\ f.cl.token \in Nat
      /\ HeldOnce(f, {}) /\ Unconnected(f) /\ Authenticating(f, r) /\ OfItsRole(f, r)
  BY FrameIs DEF FrameOK
<1>2. f.wire = NoWire /\ f.cl.flight = NoFlight /\ ~f.cl.late
  BY <1>1 DEF Unconnected
<1>3. OnConnected(f) = Flush(e)
  BY DEF OnConnected
<1>4. g = [f EXCEPT !.cl = c, !.wire = NoWire]
  BY <1>1 DEF FrameType
<1>5. c \in ClientType
  <2>1. au \in BOOLEAN
    OBVIOUS
  <2> HIDE DEF au
  <2> QED BY <1>1, <2>1 DEF ClientType
<1>6. /\ c.queue = f.cl.queue /\ c.flight = f.cl.flight /\ c.late = f.cl.late
      /\ c.made = f.cl.made /\ c.auth = (f.cl.token # 0) /\ c.sock = "up"
      /\ c.token = f.cl.token /\ c.wanted = f.cl.wanted /\ c.ack = f.cl.ack
      /\ c.whenConnected = f.cl.whenConnected
  <2>1. au <=> f.cl.token # 0
    BY <1>1 DEF Authenticating
  <2> QED BY <1>1, <2>1 DEF ClientType
<1> HIDE DEF c
<1>7. g = [cl |-> c, wire |-> NoWire, agent |-> f.agent]
  <2>1. f \in [cl : ClientType, wire : WireType, agent : AgentType]
    BY <1>1 DEF FrameType
  <2>2. [f EXCEPT !.cl = c, !.wire = NoWire] = [[f EXCEPT !.cl = c] EXCEPT !.wire = NoWire]
    BY <2>1
  <2>3. [f EXCEPT !.cl = c] \in FrameType
    BY <1>1, <1>5, ClientIs
  <2>4. [f EXCEPT !.cl = c].cl = c /\ [f EXCEPT !.cl = c].agent = f.agent
    BY <1>1, <1>5, ClientIs
  <2>5. [[f EXCEPT !.cl = c] EXCEPT !.wire = NoWire]
          = [cl |-> [f EXCEPT !.cl = c].cl, wire |-> NoWire, agent |-> [f EXCEPT !.cl = c].agent]
    BY <2>3, NothingIs, PartsIs
  <2> QED BY <1>4, <2>2, <2>4, <2>5
<1>8. [cl |-> c, wire |-> NoWire, agent |-> f.agent] \in FrameType
  BY <1>1, <1>5, NothingIs, PartsIs
<1> HIDE DEF g
<1>9. g \in FrameType /\ g.cl = c /\ g.wire = NoWire /\ g.agent = f.agent
  BY <1>7, <1>8
<1>10. Queued(g) = Queued(f)
  BY <1>6, <1>9 DEF Queued
<1>11. HeldOnce(g, {})
  BY <1>1, <1>6, <1>9, <1>10 DEF HeldOnce
<1>12. r = "requests" => ~g.cl.wanted /\ ~g.cl.ack /\ ~g.cl.whenConnected
  BY <1>1, <1>6, <1>9 DEF OfItsRole
<1>13. FrameOK(g, {}, r, done, n)
  <2>1. g.cl.queue = f.cl.queue /\ g.cl.flight = NoFlight /\ ~g.cl.late
        /\ (g.cl.auth => g.cl.token # 0)
    BY <1>2, <1>6, <1>9
  <2> QED BY <1>9, <1>11, <1>12, <2>1, UnwiredOK
<1>14. line \in Sendable /\ line.kind = "auth"
  BY <1>1 DEF Sendable
<1>15. FrameOK(h, {}, r, done, n) /\ h.cl.sock = "up"
  <2>1. CASE f.cl.token = 0
    BY <1>6, <1>9, <1>13, <2>1
  <2>2. CASE f.cl.token # 0
    <3>1. g.cl.auth /\ ~g.wire.authed /\ g.wire.toIde = <<>> /\ g.cl.sock = "up"
      BY <1>6, <1>9, <2>2, NothingIs
    <3>2. h = Say(g, line)
      BY <2>2
    <3> HIDE DEF h, line
    <3>3. \A x : x = Say(g, line) => FrameOK(x, {}, r, done, n) /\ x.cl = g.cl
      BY <1>13, <1>14, <3>1, SayOK
    <3> QED BY <3>1, <3>2, <3>3
  <2> QED BY <2>1, <2>2
<1> HIDE DEF h
<1>16. FrameOK(e, {}, r, done, n)
  <2>1. f.cl.wanted => r = "events"
    BY <1>1 DEF OfItsRole
  <2> QED BY <1>15, <2>1, SendWatchOK
<1> HIDE DEF e
<1> QED BY <1>3, <1>16, FlushOK

(* The request in flight is given up.                                       *)
LEMMA TimedOutOK ==
  ASSUME NEW r, NEW done, NEW n \in Nat, NEW f, FrameOK(f, {}, r, done, n),
         f.cl.flight # NoFlight, NEW g,
         g = Failed([f EXCEPT !.cl.flight = NoFlight, !.cl.late = TRUE], {f.cl.flight.call})
  PROVE  FrameOK(g, {}, r, done, n)
<1> DEFINE q == f.cl.flight
           c == [f.cl EXCEPT !.flight = NoFlight, !.late = TRUE]
           ca == [x \in Calls |-> IF x \in {q.call} THEN "answered" ELSE f.agent.calls[x]]
           b == [f.agent EXCEPT !.calls = ca]
           e == [f EXCEPT !.cl.flight = NoFlight, !.cl.late = TRUE]
<1>1. /\ f \in FrameType
      /\ HeldOnce(f, {}) /\ SentOnce(f, done) /\ Known(f, done, n)
      /\ OfItsRole(f, r) /\ Unconnected(f) /\ Authenticating(f, r)
      /\ Unadmitted(f, r) /\ Carries(f, r) /\ OwnAnswers(f)
  BY DEF FrameOK
<1>2. /\ f.cl \in ClientType /\ q \in Requests /\ f.wire \in WireType /\ f.agent \in AgentType
      /\ f.agent.calls \in [Calls -> {"none", "open", "answered"}]
      /\ Queued(f) \subseteq Calls
  BY <1>1, FrameIs
<1>3. c \in ClientType
  BY <1>2 DEF ClientType
<1>4. /\ c.queue = f.cl.queue /\ c.flight = NoFlight /\ c.late = TRUE
      /\ c.made = f.cl.made /\ c.auth = f.cl.auth /\ c.sock = f.cl.sock
      /\ c.token = f.cl.token /\ c.wanted = f.cl.wanted /\ c.ack = f.cl.ack
      /\ c.whenConnected = f.cl.whenConnected
  BY <1>2 DEF ClientType
<1>5. e = [f EXCEPT !.cl = c]
  OBVIOUS
<1>6. g = [e EXCEPT !.agent.calls = [x \in Calls |-> IF x \in {q.call} THEN "answered" ELSE @[x]]]
  BY DEF Failed
<1> HIDE DEF c, e
<1>7. e \in FrameType /\ e.cl = c /\ e.wire = f.wire /\ e.agent = f.agent
  BY <1>1, <1>3, <1>5, ClientIs
<1>8. /\ ca \in [Calls -> {"none", "open", "answered"}]
      /\ \A x \in Calls : ca[x] = IF x = q.call THEN "answered" ELSE f.agent.calls[x]
  BY <1>2
<1>9. g = [e EXCEPT !.agent = b]
  BY <1>6, <1>7
<1> HIDE DEF ca
<1>10. b \in AgentType /\ b.calls = ca /\ b.made = f.agent.made /\ b.late = f.agent.late
  BY <1>2, <1>8 DEF AgentType
<1> HIDE DEF b
<1>11. g = [cl |-> c, wire |-> f.wire, agent |-> b]
  BY <1>7, <1>9, <1>10, PartsIs
<1>12. [cl |-> c, wire |-> f.wire, agent |-> b] \in FrameType
  BY <1>1, <1>2, <1>3, <1>10, PartsIs
<1>13. g \in FrameType /\ g.cl = c /\ g.wire = f.wire /\ g.agent = b
  BY <1>11, <1>12
<1>14. Queued(g) = Queued(f) /\ Out(g) = Out(f)
  BY <1>4, <1>13 DEF Queued, Out
<1>15. q.call \in Calls /\ NoFlight.call = 0 /\ 0 \notin Calls
  BY <1>2, NothingIs DEF Requests
<1>16. HeldOnce(g, {})
  <2>1. \A x \in Calls : ca[x] = "open" <=> x \in Queued(f)
    BY <1>1, <1>8, <1>15 DEF HeldOnce
  <2>2. \A i, j \in DOMAIN g.cl.queue : g.cl.queue[i].call = g.cl.queue[j].call => i = j
    BY <1>1, <1>4, <1>13 DEF HeldOnce
  <2>3. g.cl.flight.call = 0 /\ g.agent.calls = ca
    BY <1>4, <1>10, <1>13, <1>15
  <2>4. g.cl.flight.call \notin Queued(g)
    BY <1>2, <1>14, <1>15, <2>3
  <2>5. \A x \in Calls : g.agent.calls[x] = "open"
          <=> x \in Queued(g) \union {g.cl.flight.call} \union {}
    BY <1>14, <1>15, <2>1, <2>3
  <2> QED BY <2>2, <2>4, <2>5 DEF HeldOnce
<1>17. SentOnce(g, done)
  <2>1. \A x : Unsent(f, x, done) => Unsent(g, x, done)
    BY <1>14 DEF Unsent
  <2>2. g.cl.queue = f.cl.queue /\ g.cl.flight = NoFlight /\ g.wire = f.wire
    BY <1>4, <1>13
  <2>3. \A i \in DOMAIN g.cl.queue : Unsent(g, g.cl.queue[i], done)
    <3>1. \A i \in DOMAIN f.cl.queue : Unsent(f, f.cl.queue[i], done)
      BY <1>1 DEF SentOnce
    <3> QED BY <2>1, <2>2, <3>1
  <2>4. \A i, j \in DOMAIN g.wire.toIde :
          g.wire.toIde[i] = g.wire.toIde[j] /\ g.wire.toIde[i] \in Requests => i = j
    BY <1>1, <1>13 DEF SentOnce
  <2>6. \A i, j \in DOMAIN g.wire.ops :
          g.wire.ops[i] = g.wire.ops[j] /\ g.wire.ops[i] \in Requests => i = j
    BY <1>1, <1>13 DEF SentOnce
  <2>7. \A i \in DOMAIN g.wire.toIde, j \in DOMAIN g.wire.ops :
          g.wire.toIde[i] \in Requests => g.wire.toIde[i] # g.wire.ops[j]
    BY <1>1, <1>13 DEF SentOnce
  <2>8. IsInjective(done)
    BY <1>1 DEF SentOnce
  <2>5. \A x \in Out(g) : x \in Requests => x \notin Range(done)
    BY <1>1, <1>14 DEF SentOnce
  <2> QED BY <2>2, <2>3, <2>4, <2>5, <2>6, <2>7, <2>8 DEF SentOnce
<1>18. Known(g, done, n)
  <2>1. ASSUME NEW x \in Calls, x > n PROVE ca[x] = "none"
    BY <1>1, <1>8, <2>1, <1>15 DEF Known, HeldOnce
  <2> QED BY <1>1, <1>10, <1>13, <1>14, <2>1 DEF Known
<1>19. OfItsRole(g, r)
  BY <1>1, <1>4, <1>13, <1>14 DEF OfItsRole
<1>22. OwnAnswers(g)
  BY <1>1, <1>10, <1>13 DEF OwnAnswers
<1>20. Unconnected(g) /\ Authenticating(g, r) /\ Unadmitted(g, r)
  BY <1>1, <1>4, <1>13 DEF Unconnected, Authenticating, Unadmitted
<1>21. Carries(g, r)
  BY <1>4, <1>13 DEF Carries
<1> QED BY <1>13, <1>16, <1>17, <1>18, <1>19, <1>20, <1>21, <1>22 DEF FrameOK

-----------------------------------------------------------------------------
(* From the functions on frames to the actions.                             *)

LEMMA FrameParts == Frame.cl = cl /\ Frame.wire = wire /\ Frame.agent = agent
  BY DEF Frame

UsedType == [calls : 0..MaxCalls, starts : 0..MaxStarts, faults : 0..MaxFaults]

LEMMA UseIs ==
  ASSUME TypeOK
  PROVE  /\ used \in UsedType /\ used.calls \in Nat /\ used.starts \in Nat
         /\ Use("calls", MaxCalls) =>
              used'.calls = used.calls + 1 /\ used.calls + 1 \in Calls /\ used' \in UsedType
         /\ Use("starts", MaxStarts) => used'.calls = used.calls /\ used' \in UsedType
         /\ Use("faults", MaxFaults) => used'.calls = used.calls /\ used' \in UsedType
<1>1. used \in UsedType /\ MaxCalls \in Nat /\ MaxStarts \in Nat /\ MaxFaults \in Nat
  BY BoundsAssumption DEF TypeOK, UsedType
<1>2. used.calls \in 0..MaxCalls /\ used.starts \in 0..MaxStarts
  BY <1>1 DEF UsedType
<1>3. ASSUME Use("calls", MaxCalls)
      PROVE  used'.calls = used.calls + 1 /\ used.calls + 1 \in Calls /\ used' \in UsedType
  BY <1>1, <1>2, <1>3 DEF Use, UsedType, Calls
<1>4. ASSUME Use("starts", MaxStarts)
      PROVE  used'.calls = used.calls /\ used' \in UsedType
  BY <1>1, <1>2, <1>4 DEF Use, UsedType
<1>5. ASSUME Use("faults", MaxFaults)
      PROVE  used'.calls = used.calls /\ used' \in UsedType
  BY <1>1, <1>2, <1>5 DEF Use, UsedType
<1> QED BY <1>1, <1>2, <1>3, <1>4, <1>5

(* A handler that leaves a good frame leaves a good state.                  *)
LEMMA CommitOK ==
  ASSUME IInv, NEW f, Commit(f), FrameOK(f, {}, role, ran, used'.calls),
         role' = role, ide' = ide, ran' = ran, used' \in UsedType
  PROVE  IInv'
<1>1. f \in FrameType
  BY DEF FrameOK
<1>2. f.cl \in ClientType /\ f.wire \in WireType /\ f.agent \in AgentType
      /\ f = [cl |-> f.cl, wire |-> f.wire, agent |-> f.agent]
  BY <1>1, FrameIs
<1>3. Frame' = f
  BY <1>2 DEF Frame, Commit
<1>4. TypeOK'
  BY <1>2 DEF IInv, TypeOK, Commit, UsedType
<1>5. TokensAreReal'
  BY DEF IInv, TokensAreReal
<1>6. FrameOK(Frame', {}, role', ran', used'.calls)
  BY <1>3
<1> QED BY <1>4, <1>5, <1>6 DEF IInv

LEMMA SameCommitOK ==
  ASSUME IInv, NEW f, Commit(f), FrameOK(f, {}, role, ran, used.calls),
         role' = role, ide' = ide, ran' = ran,
         used' = used \/ Use("faults", MaxFaults)
  PROVE  IInv'
<1>1. TypeOK
  BY DEF IInv
<1>2. used' \in UsedType /\ used'.calls = used.calls
  BY <1>1, UseIs
<1> QED BY <1>2, CommitOK

LEMMA StateIs ==
  ASSUME IInv
  PROVE  /\ TypeOK /\ TokensAreReal /\ role \in {"requests", "events"}
         /\ FrameOK(Frame, {}, role, ran, used.calls) /\ used.calls \in Nat
         /\ Frame \in FrameType /\ ran \in Seq(Requests)
         /\ cl \in ClientType /\ wire \in WireType /\ agent \in AgentType
<1>1. TypeOK /\ FrameOK(Frame, {}, role, ran, used.calls) /\ TokensAreReal
  BY DEF IInv
<1> QED BY <1>1, UseIs DEF TypeOK, FrameOK

-----------------------------------------------------------------------------
LEMMA InitOK == Init => IInv
<1> SUFFICES ASSUME Init PROVE IInv
  OBVIOUS
<1>1. PICK known \in BOOLEAN :
        cl = [sock |-> "none", port |-> known, token |-> 0, version |-> 0, auth |-> FALSE,
              retried |-> FALSE, ack |-> FALSE, wanted |-> FALSE, subscribed |-> FALSE,
              whenConnected |-> FALSE, queue |-> <<>>, flight |-> NoFlight,
              status |-> FALSE, made |-> {}, rearm |-> FALSE, late |-> FALSE, gaveUp |-> FALSE]
  BY DEF Init
<1>2. \A S : <<>> \in Seq(S)
  BY NothingIs
<1>3. cl \in ClientType
  BY <1>1, <1>2 DEF ClientType
<1>4. /\ cl.queue = <<>> /\ cl.flight = NoFlight /\ ~cl.late /\ ~cl.auth /\ ~cl.wanted
      /\ ~cl.ack /\ ~cl.whenConnected
  BY <1>1
<1>5. wire \in WireType /\ wire = NoWire
  BY NothingIs DEF Init
<1>6. agent \in AgentType
  BY DEF Init, AgentType
<1>7. agent.calls = [c \in Calls |-> "none"] /\ agent.made = [c \in Calls |-> {}]
  BY DEF Init
<1>8. ran = <<>> /\ ran \in Seq(Requests) /\ Range(ran) = {} /\ IsInjective(ran)
  BY <1>2, NothingIs DEF Init, Range, IsInjective
<1>9. used \in UsedType /\ used.calls = 0
  BY BoundsAssumption DEF Init, UsedType
<1>10. ide \in [up : BOOLEAN, token : Nat, version : Versions \union {0}, file : FileType]
       /\ ide.file = NoFile
  BY DEF Init, FileType, NoFile
<1>11. TypeOK
  BY <1>3, <1>5, <1>6, <1>8, <1>9, <1>10 DEF TypeOK, UsedType, Init
<1>12. TokensAreReal
  BY <1>10 DEF TokensAreReal
<1>13. Frame \in FrameType
  BY <1>3, <1>5, <1>6, PartsIs DEF Frame, FrameType
<1>14. Frame.cl = cl /\ Frame.wire = wire /\ Frame.agent = agent
  BY FrameParts
<1>15. Out(Frame) = {} /\ Queued(Frame) = {}
  BY <1>4, <1>5, <1>14, NothingIs DEF Out, Queued, Range
<1>16. HeldOnce(Frame, {})
  BY <1>4, <1>7, <1>14, <1>15, NothingIs DEF HeldOnce
<1>17. SentOnce(Frame, ran)
  BY <1>4, <1>5, <1>8, <1>14, <1>15, NothingIs DEF SentOnce
<1>18. Known(Frame, ran, used.calls)
  BY <1>7, <1>8, <1>14, <1>15 DEF Known
<1>19. OfItsRole(Frame, role)
  BY <1>4, <1>5, <1>14, <1>15, NothingIs DEF OfItsRole
<1>20. Unconnected(Frame) /\ Authenticating(Frame, role)
  BY <1>4, <1>5, <1>14 DEF Unconnected, Authenticating
<1>21. Unadmitted(Frame, role)
  BY <1>5, <1>14, NothingIs DEF Unadmitted
<1>22. Carries(Frame, role)
  BY <1>4, <1>5, <1>14, NothingIs DEF Carries
<1>23. OwnAnswers(Frame)
  BY <1>7, <1>14 DEF OwnAnswers
<1>24. FrameOK(Frame, {}, role, ran, used.calls)
  BY <1>13, <1>16, <1>17, <1>18, <1>19, <1>20, <1>21, <1>22, <1>23 DEF FrameOK
<1> QED BY <1>11, <1>12, <1>24 DEF IInv

LEMMA CallToolOK == IInv /\ CallTool => IInv'
<1> SUFFICES ASSUME IInv, CallTool PROVE IInv'
  OBVIOUS
<1> DEFINE n == used.calls
<1>1. PICK k \in Kinds :
        Commit(Request([Frame EXCEPT !.agent.calls[n + 1] = "open"], [call |-> n + 1, kind |-> k]))
  BY DEF CallTool
<1> DEFINE q == [call |-> n + 1, kind |-> k]
           g == [Frame EXCEPT !.agent.calls[n + 1] = "open"]
<1>2. TypeOK /\ TokensAreReal /\ FrameOK(Frame, {}, "requests", ran, n) /\ n \in Nat
  BY StateIs DEF CallTool
<1>3. n + 1 \in Calls /\ used'.calls = n + 1 /\ used' \in UsedType
  BY <1>2, UseIs DEF CallTool
<1>4. q \in Requests /\ q.call = n + 1
  BY <1>3, BoundsAssumption DEF Requests
<1>5. n + 1 \in Nat
  BY <1>2
<1>6. Commit(Request(g, q))
  BY <1>1
<1> HIDE DEF q, n
<1>7. \A x : x = [Frame EXCEPT !.agent.calls[n + 1] = "open"] =>
        FrameOK(x, {q.call}, "requests", ran, n + 1) /\ Unsent(x, q, ran)
  BY <1>2, <1>3, <1>4, OpeningOK
<1>8. FrameOK(g, {q.call}, "requests", ran, n + 1) /\ Unsent(g, q, ran)
  BY <1>7
<1> HIDE DEF g
<1>9. FrameOK(Request(g, q), {}, "requests", ran, n + 1)
  BY <1>2, <1>4, <1>5, <1>8, RequestOK
<1>10. role = "requests" /\ role' = role /\ ide' = ide /\ ran' = ran
  BY DEF CallTool
<1> QED BY <1>3, <1>6, <1>9, <1>10, CommitOK

LEMMA CallWatchOK == IInv /\ CallWatch => IInv'
<1> SUFFICES ASSUME IInv, CallWatch PROVE IInv'
  OBVIOUS
<1> DEFINE n == used.calls
           g == [Frame EXCEPT !.agent.watch = TRUE]
<1>1. TypeOK /\ TokensAreReal /\ FrameOK(Frame, {}, "events", ran, n) /\ n \in Nat
  BY StateIs DEF CallWatch
<1>2. used'.calls = n + 1 /\ used' \in UsedType
  BY <1>1, UseIs DEF CallWatch
<1>3. Commit(Subscribe(g)) /\ role = "events" /\ role' = role /\ ide' = ide /\ ran' = ran
  BY DEF CallWatch
<1> HIDE DEF n
<1>4. FrameOK(g, {}, "events", ran, n)
  BY <1>1, WatchAnsweredOK
<1> HIDE DEF g
<1>5. \A x \in Out(g) \union Range(ran) : x \in Requests => x.call \in Nat
  BY DEF Requests, Calls
<1>6. FrameOK(g, {}, "events", ran, n + 1)
  BY <1>1, <1>4, <1>5, GrowOK
<1>7. FrameOK(Subscribe(g), {}, "events", ran, n + 1)
  BY <1>1, <1>6, SubscribeOK
<1> QED BY <1>2, <1>3, <1>7, CommitOK

LEMMA DialSucceedsOK == IInv /\ DialSucceeds => IInv'
<1> SUFFICES ASSUME IInv, DialSucceeds PROVE IInv'
  OBVIOUS
<1>1. FrameOK(OnConnected(Frame), {}, role, ran, used.calls)
  BY StateIs, FrameParts, OnConnectedOK DEF DialSucceeds
<1> QED BY <1>1, SameCommitOK DEF DialSucceeds

LEMMA DialFailsOK == IInv /\ DialFails => IInv'
<1> SUFFICES ASSUME IInv, DialFails PROVE IInv'
  OBVIOUS
<1>1. FrameOK(OnSocketError(Frame), {}, role, ran, used.calls)
  BY StateIs, OnSocketErrorOK
<1> QED BY <1>1, SameCommitOK DEF DialFails

LEMMA PeerClosedOK == IInv /\ PeerClosed => IInv'
<1> SUFFICES ASSUME IInv, PeerClosed PROVE IInv'
  OBVIOUS
<1>1. FrameOK(OnSocketError(Frame), {}, role, ran, used.calls)
  BY StateIs, OnSocketErrorOK
<1> QED BY <1>1, SameCommitOK DEF PeerClosed

LEMMA ReceiveOK == IInv /\ Receive => IInv'
<1> SUFFICES ASSUME IInv, Receive PROVE IInv'
  OBVIOUS
<1>1. Frame.wire.toClient # <<>>
  BY FrameParts DEF Receive
<1>2. FrameOK(DispatchLine(Popped(Frame), Head(Frame.wire.toClient)), {}, role, ran, used.calls)
  BY <1>1, StateIs, DispatchLineOK
<1>3. Commit(DispatchLine(Popped(Frame), Head(Frame.wire.toClient)))
  BY FrameParts DEF Receive, Popped
<1> QED BY <1>2, <1>3, SameCommitOK DEF Receive

LEMMA ReplyTimesOutOK == IInv /\ ReplyTimesOut => IInv'
<1> SUFFICES ASSUME IInv, ReplyTimesOut PROVE IInv'
  OBVIOUS
<1> DEFINE g == Failed([Frame EXCEPT !.cl.flight = NoFlight, !.cl.late = TRUE],
                       {Frame.cl.flight.call})
<1>1. Frame.cl.flight # NoFlight
  BY FrameParts DEF ReplyTimesOut
<1>2. Commit(Flush(g))
  BY FrameParts DEF ReplyTimesOut
<1>3. \A x : x = Failed([Frame EXCEPT !.cl.flight = NoFlight, !.cl.late = TRUE],
                        {Frame.cl.flight.call})
        => FrameOK(x, {}, role, ran, used.calls)
  BY <1>1, StateIs, TimedOutOK
<1>4. FrameOK(g, {}, role, ran, used.calls)
  BY <1>3
<1> HIDE DEF g
<1>5. FrameOK(Flush(g), {}, role, ran, used.calls)
  BY <1>4, StateIs, FlushOK
<1> QED BY <1>2, <1>5, SameCommitOK DEF ReplyTimesOut

LEMMA WatchTimesOutOK == IInv /\ WatchTimesOut => IInv'
<1> SUFFICES ASSUME IInv, WatchTimesOut PROVE IInv'
  OBVIOUS
<1> DEFINE c == [cl EXCEPT !.ack = FALSE, !.whenConnected = FALSE, !.gaveUp = TRUE]
           g == [Frame EXCEPT !.cl.ack = FALSE, !.cl.whenConnected = FALSE, !.cl.gaveUp = TRUE]
<1>1. Commit([g EXCEPT !.agent.watch = FALSE])
  BY DEF WatchTimesOut, WatchAnswered
<1>2. /\ FrameOK(Frame, {}, role, ran, used.calls) /\ Frame \in FrameType
      /\ cl \in ClientType /\ Frame.cl = cl /\ role \in {"requests", "events"}
  BY StateIs, FrameParts
<1>3. c \in ClientType
  BY <1>2 DEF ClientType
<1>4. /\ c.queue = cl.queue /\ c.flight = cl.flight /\ c.late = cl.late
      /\ c.made = cl.made /\ c.auth = cl.auth /\ c.sock = cl.sock
      /\ c.token = cl.token /\ c.wanted = cl.wanted /\ ~c.ack /\ ~c.whenConnected
  BY <1>2 DEF ClientType
<1>5. g = [Frame EXCEPT !.cl = c]
  BY FrameParts
<1> HIDE DEF c, g
<1>6. g \in FrameType /\ g.cl = c /\ g.wire = Frame.wire /\ g.agent = Frame.agent
  BY <1>2, <1>3, <1>5, ClientIs
<1>7. (g.cl.auth => g.cl.token # 0)
      /\ (role = "requests" => ~g.cl.wanted /\ ~g.cl.ack /\ ~g.cl.whenConnected)
  BY <1>2, <1>4, <1>6 DEF FrameOK, Authenticating, OfItsRole
<1>8. FrameOK(g, {}, role, ran, used.calls)
  BY <1>2, <1>4, <1>6, <1>7, AlikeOK
<1>9. FrameOK([g EXCEPT !.agent.watch = FALSE], {}, role, ran, used.calls)
  BY <1>8, WatchAnsweredOK
<1> QED BY <1>1, <1>9, SameCommitOK DEF WatchTimesOut

LEMMA ReconnectOK == IInv /\ Reconnect => IInv'
<1> SUFFICES ASSUME IInv, Reconnect PROVE IInv'
  OBVIOUS
<1> DEFINE c == [cl EXCEPT !.rearm = FALSE]
           g == [Frame EXCEPT !.cl.rearm = FALSE]
<1>1. Commit(g) \/ Commit(ConnectNow(g))
  BY DEF Reconnect
<1>2. /\ FrameOK(Frame, {}, role, ran, used.calls) /\ Frame \in FrameType
      /\ cl \in ClientType /\ Frame.cl = cl
  BY StateIs, FrameParts
<1>3. c \in ClientType
  BY <1>2 DEF ClientType
<1>4. /\ c.queue = cl.queue /\ c.flight = cl.flight /\ c.late = cl.late
      /\ c.made = cl.made /\ c.auth = cl.auth /\ c.sock = cl.sock
      /\ c.token = cl.token /\ c.wanted = cl.wanted /\ c.ack = cl.ack
      /\ c.whenConnected = cl.whenConnected
  BY <1>2 DEF ClientType
<1>5. g = [Frame EXCEPT !.cl = c]
  BY FrameParts
<1> HIDE DEF c, g
<1>6. g \in FrameType /\ g.cl = c /\ g.wire = Frame.wire /\ g.agent = Frame.agent
  BY <1>2, <1>3, <1>5, ClientIs
<1>7. (g.cl.auth => g.cl.token # 0)
      /\ (role = "requests" => ~g.cl.wanted /\ ~g.cl.ack /\ ~g.cl.whenConnected)
  BY <1>2, <1>4, <1>6 DEF FrameOK, Authenticating, OfItsRole
<1>8. FrameOK(g, {}, role, ran, used.calls)
  BY <1>2, <1>4, <1>6, <1>7, AlikeOK
<1>9. FrameOK(ConnectNow(g), {}, role, ran, used.calls)
  BY <1>8, StateIs, ConnectNowOK
<1> QED BY <1>1, <1>8, <1>9, SameCommitOK DEF Reconnect

-----------------------------------------------------------------------------
(* The IDE's side: the wires change, and what it has run.                   *)

LEMMA WiredOK ==
  ASSUME NEW r, NEW done, NEW more, NEW n, NEW f, FrameOK(f, {}, r, done, n),
         f.cl.sock = "up", NEW w \in WireType, NEW g, g = [f EXCEPT !.wire = w],
         Range(w.toIde) \union Range(w.ops) \subseteq Out(f),
         Range(more) \subseteq Out(f) \union Range(done),
         Range(done) \subseteq Range(more),
         \A i, j \in DOMAIN w.toIde :
           w.toIde[i] = w.toIde[j] /\ w.toIde[i] \in Requests => i = j,
         \A i, j \in DOMAIN w.ops :
           w.ops[i] = w.ops[j] /\ w.ops[i] \in Requests => i = j,
         \A i \in DOMAIN w.toIde, j \in DOMAIN w.ops :
           w.toIde[i] \in Requests => w.toIde[i] # w.ops[j],
         \A x \in Range(w.toIde) \union Range(w.ops) : x \in Requests => x \notin Range(more),
         IsInjective(more),
         \A i \in DOMAIN w.toIde :
           w.toIde[i].kind = "auth" => i = 1 /\ ~w.authed /\ (r = "requests" => f.cl.auth),
         \A i \in DOMAIN w.ops : w.ops[i].kind # "auth",
         \A h : h.cl = f.cl /\ h.wire = w
                  => Authenticating(h, r) /\ Unadmitted(h, r) /\ Carries(h, r)
  PROVE  FrameOK(g, {}, r, more, n)
<1>1. /\ f \in FrameType
      /\ HeldOnce(f, {}) /\ SentOnce(f, done) /\ Known(f, done, n)
      /\ OfItsRole(f, r) /\ OwnAnswers(f)
  BY DEF FrameOK
<1>2. f.cl \in ClientType /\ f.agent \in AgentType
  BY <1>1, FrameIs
<1>3. g = [cl |-> f.cl, wire |-> w, agent |-> f.agent]
  BY <1>1, PartsIs
<1>4. g \in FrameType /\ g.cl = f.cl /\ g.wire = w /\ g.agent = f.agent
  <2>1. [cl |-> f.cl, wire |-> w, agent |-> f.agent] \in FrameType
    BY <1>1, <1>2, PartsIs
  <2> QED BY <1>3, <2>1
<1>5. Queued(g) = Queued(f)
  BY <1>4 DEF Queued
<1>6. HeldOnce(g, {})
  BY <1>1, <1>4, <1>5 DEF HeldOnce
<1>7. Out(g) = Range(w.toIde) \union Range(w.ops)
  BY <1>4 DEF Out
<1>8. Out(g) \subseteq Out(f) /\ Out(g) \union Range(more) \subseteq Out(f) \union Range(done)
  BY <1>7
<1>9. SentOnce(g, more)
  <2>1. \A x : Unsent(f, x, done) => Unsent(g, x, more)
    BY <1>8 DEF Unsent
  <2>2. \A x : Unread(f, x, done) => Unread(g, x, more)
    BY <1>8 DEF Unread
  <2>3. /\ \A i \in DOMAIN f.cl.queue : Unsent(f, f.cl.queue[i], done)
        /\ f.cl.flight # NoFlight => Unread(f, f.cl.flight, done)
    BY <1>1 DEF SentOnce
  <2>4. \A i \in DOMAIN g.cl.queue : Unsent(g, g.cl.queue[i], more)
    BY <1>4, <2>1, <2>3
  <2>5. g.cl.flight # NoFlight => Unread(g, g.cl.flight, more)
    BY <1>4, <2>2, <2>3
  <2> HIDE <1>1
  <2> QED BY <1>4, <1>7, <2>4, <2>5 DEF SentOnce
<1>10. Known(g, more, n)
  <2>1. \A x \in Out(g) \union Range(more) : x \in Requests => x.call <= n
    BY <1>1, <1>8 DEF Known
  <2>2. \A c \in Calls : c > n => g.agent.calls[c] = "none"
    BY <1>1, <1>4 DEF Known
  <2> QED BY <2>1, <2>2 DEF Known
<1>11. OfItsRole(g, r)
  <2>1. r = "events" =>
          /\ g.cl.queue = <<>> /\ g.cl.flight = NoFlight
          /\ \A x \in Out(g) : x \notin Requests
    BY <1>1, <1>4, <1>8 DEF OfItsRole
  <2>2. r = "requests" =>
          /\ ~g.cl.wanted /\ ~g.cl.ack /\ ~g.cl.whenConnected
          /\ \A x \in Out(g) : x.kind # "watch"
    BY <1>1, <1>4, <1>8 DEF OfItsRole
  <2>3. \A x \in Out(g) : x.kind \in {"build", "read"} => x \in Requests
    BY <1>1, <1>8 DEF OfItsRole
  <2> QED BY <1>4, <2>1, <2>2, <2>3 DEF OfItsRole
<1>12. Unconnected(g)
  BY <1>4 DEF Unconnected
<1>13. OwnAnswers(g)
  BY <1>1, <1>4 DEF OwnAnswers
<1>14. Authenticating(g, r) /\ Unadmitted(g, r) /\ Carries(g, r)
  BY <1>4
<1> QED BY <1>4, <1>6, <1>9, <1>10, <1>11, <1>12, <1>13, <1>14 DEF FrameOK

(* What is known of the wires of a good frame.                              *)
LEMMA WiresAre ==
  ASSUME NEW r, NEW done, NEW n, NEW f, FrameOK(f, {}, r, done, n)
  PROVE  /\ f.wire \in WireType
         /\ f.wire.toIde \in Seq(Sendable) /\ f.wire.ops \in Seq(Sendable)
         /\ f.wire.toClient \in Seq(Lines)
         /\ \A i, j \in DOMAIN f.wire.toIde :
              f.wire.toIde[i] = f.wire.toIde[j] /\ f.wire.toIde[i] \in Requests => i = j
         /\ \A i, j \in DOMAIN f.wire.ops :
              f.wire.ops[i] = f.wire.ops[j] /\ f.wire.ops[i] \in Requests => i = j
         /\ \A i \in DOMAIN f.wire.toIde, j \in DOMAIN f.wire.ops :
              f.wire.toIde[i] \in Requests => f.wire.toIde[i] # f.wire.ops[j]
         /\ \A x \in Range(f.wire.toIde) \union Range(f.wire.ops) :
              x \in Requests => x \notin Range(done)
         /\ IsInjective(done)
         /\ \A i \in DOMAIN f.wire.toIde :
              f.wire.toIde[i].kind = "auth" =>
                i = 1 /\ ~f.wire.authed /\ (r = "requests" => f.cl.auth)
         /\ \A i \in DOMAIN f.wire.ops : f.wire.ops[i].kind # "auth"
         /\ Out(f) = Range(f.wire.toIde) \union Range(f.wire.ops)
         /\ Authenticating(f, r) /\ Unadmitted(f, r) /\ Carries(f, r)
<1>1. /\ f \in FrameType
      /\ SentOnce(f, done) /\ OfItsRole(f, r)
      /\ Authenticating(f, r) /\ Unadmitted(f, r) /\ Carries(f, r)
  BY DEF FrameOK
<1>2. f.wire \in WireType
      /\ f.wire.toIde \in Seq(Sendable) /\ f.wire.ops \in Seq(Sendable)
      /\ f.wire.toClient \in Seq(Lines)
  BY <1>1, FrameIs
<1>3. Out(f) = Range(f.wire.toIde) \union Range(f.wire.ops)
  BY DEF Out
<1>4. /\ \A i \in DOMAIN f.wire.toIde :
              f.wire.toIde[i].kind = "auth" =>
                i = 1 /\ ~f.wire.authed /\ (r = "requests" => f.cl.auth)
      /\ \A i \in DOMAIN f.wire.ops : f.wire.ops[i].kind # "auth"
  BY <1>1 DEF OfItsRole
<1>5. \A i, j \in DOMAIN f.wire.toIde :
        f.wire.toIde[i] = f.wire.toIde[j] /\ f.wire.toIde[i] \in Requests => i = j
  BY <1>1 DEF SentOnce
<1>6. \A i, j \in DOMAIN f.wire.ops :
        f.wire.ops[i] = f.wire.ops[j] /\ f.wire.ops[i] \in Requests => i = j
  BY <1>1 DEF SentOnce
<1>7. \A i \in DOMAIN f.wire.toIde, j \in DOMAIN f.wire.ops :
        f.wire.toIde[i] \in Requests => f.wire.toIde[i] # f.wire.ops[j]
  BY <1>1 DEF SentOnce
<1>8. IsInjective(done)
  BY <1>1 DEF SentOnce
<1>9. \A x \in Out(f) : x \in Requests => x \notin Range(done)
  BY <1>1 DEF SentOnce
<1> QED BY <1>1, <1>2, <1>3, <1>4, <1>5, <1>6, <1>7, <1>8, <1>9

LEMMA WireParts ==
  ASSUME NEW w \in WireType
  PROVE  /\ \A s \in Seq(Sendable) : [w EXCEPT !.toIde = s]
              = [toIde |-> s, toClient |-> w.toClient, shut |-> w.shut,
                 authed |-> w.authed, ops |-> w.ops]
         /\ \A s \in Seq(Sendable), o \in Seq(Sendable), t \in Seq(Lines), b \in BOOLEAN, a \in BOOLEAN :
              [toIde |-> s, toClient |-> t, shut |-> b, authed |-> a, ops |-> o] \in WireType
         /\ w.shut \in BOOLEAN /\ w.authed \in BOOLEAN
  BY DEF WireType

LEMMA LineIs ==
  /\ \A c \in Nat, t \in {"ok", "error", "body", "."} :
       Line(c, t) \in Lines /\ Line(c, t).call = c /\ Line(c, t).text = t
  BY DEF Line, Lines

(* A first entry on an empty wire.                                          *)
LEMMA FirstIs ==
  ASSUME NEW S, NEW e \in S
  PROVE  /\ Append(<<>>, e) = <<e>> /\ Len(<<e>>) = 1 /\ DOMAIN <<e>> = {1} /\ <<e>>[1] = e
         /\ Tail(<<e>>) = <<>> /\ <<e>> # <<>> /\ <<e>> \in Seq(S)
  OBVIOUS

(* A line of an admitted client waits for its turn.                         *)
LEMMA TakenOK ==
  ASSUME NEW r, NEW done, NEW n, NEW f, FrameOK(f, {}, r, done, n),
         f.cl.sock = "up", f.wire.toIde # <<>>, f.wire.authed,
         NEW w \in WireType, w.toIde = Tail(f.wire.toIde),
         w.ops = Append(f.wire.ops, Head(f.wire.toIde)),
         w.toClient = f.wire.toClient, w.authed,
         NEW g, g = [f EXCEPT !.wire = w]
  PROVE  FrameOK(g, {}, r, done, n)
<1> DEFINE q == f.wire.toIde
           o == f.wire.ops
           line == Head(q)
<1>1. q \in Seq(Sendable) /\ o \in Seq(Sendable) /\ f.wire.toClient \in Seq(Lines)
      /\ f.wire \in WireType
  BY WiresAre
<1>2. /\ Tail(q) \in Seq(Sendable) /\ line = q[1] /\ 1 \in DOMAIN q /\ line \in Sendable
      /\ DOMAIN Tail(q) = 1 .. Len(q) - 1 /\ Len(q) \in Nat
  BY <1>1, TailIs
<1>3. /\ Range(q) = {line} \union Range(Tail(q))
      /\ \A i \in DOMAIN Tail(q) : i + 1 \in DOMAIN q /\ Tail(q)[i] = q[i + 1] /\ i + 1 # 1
  BY <1>1, TailElements
<1>4. /\ Append(o, line) \in Seq(Sendable)
      /\ Range(Append(o, line)) = Range(o) \union {line}
  BY <1>1, <1>2, AppendIs, AppendElements
<1>5. \A j \in DOMAIN Append(o, line) :
        \/ j \in DOMAIN o /\ Append(o, line)[j] = o[j]
        \/ j = Len(o) + 1 /\ Append(o, line)[j] = line
  BY <1>1, <1>2, AppendIs
<1>7. w.toIde = Tail(q) /\ w.ops = Append(o, line) /\ w.authed /\ w.toClient = f.wire.toClient
  OBVIOUS
<1>8. Out(f) = Range(q) \union Range(o)
  BY WiresAre
<1>9. Range(w.toIde) \union Range(w.ops) \subseteq Out(f)
  BY <1>3, <1>4, <1>7, <1>8
<1>10. \A i, j \in DOMAIN q : q[i] = q[j] /\ q[i] \in Requests => i = j
  BY WiresAre
<1>11. \A i, j \in DOMAIN o : o[i] = o[j] /\ o[i] \in Requests => i = j
  BY WiresAre
<1>12. \A i \in DOMAIN q, j \in DOMAIN o : q[i] \in Requests => q[i] # o[j]
  BY WiresAre
<1>13. \A x \in Range(q) \union Range(o) : x \in Requests => x \notin Range(done)
  BY WiresAre
<1>14. \A i \in DOMAIN q : q[i].kind # "auth"
  BY WiresAre
<1>15. \A i \in DOMAIN o : o[i].kind # "auth"
  BY WiresAre
<1>16. Authenticating(f, r) /\ Carries(f, r)
  BY WiresAre
<1> HIDE DEF q, o, line
<1>17. \A i, j \in DOMAIN w.toIde : w.toIde[i] = w.toIde[j] /\ w.toIde[i] \in Requests => i = j
  <2>1. \A i \in DOMAIN Tail(q) : i \in Int
    BY <1>2
  <2>2. \A i, j \in DOMAIN Tail(q) :
          Tail(q)[i] = Tail(q)[j] /\ Tail(q)[i] \in Requests => i + 1 = j + 1
    BY <1>3, <1>10
  <2>3. \A i, j \in DOMAIN Tail(q) :
          Tail(q)[i] = Tail(q)[j] /\ Tail(q)[i] \in Requests => i = j
    BY <2>1, <2>2
  <2> QED BY <1>7, <2>3
<1>18. \A i, j \in DOMAIN w.ops : w.ops[i] = w.ops[j] /\ w.ops[i] \in Requests => i = j
  <2>1. \A i, j \in DOMAIN Append(o, line) :
          Append(o, line)[i] = Append(o, line)[j] /\ Append(o, line)[i] \in Requests => i = j
    <3> SUFFICES ASSUME NEW i \in DOMAIN Append(o, line), NEW j \in DOMAIN Append(o, line),
                        Append(o, line)[i] = Append(o, line)[j],
                        Append(o, line)[i] \in Requests
                 PROVE  i = j
      OBVIOUS
    <3>1. CASE Append(o, line)[i] = line /\ i = Len(o) + 1
      <4>1. CASE j \in DOMAIN o /\ Append(o, line)[j] = o[j]
        BY <1>2, <1>12, <3>1, <4>1
      <4> QED BY <1>5, <3>1, <4>1
    <3>2. CASE i \in DOMAIN o /\ Append(o, line)[i] = o[i]
      <4>1. CASE j \in DOMAIN o /\ Append(o, line)[j] = o[j]
        BY <1>11, <3>2, <4>1
      <4>2. CASE Append(o, line)[j] = line
        BY <1>2, <1>12, <3>2, <4>2
      <4> QED BY <1>5, <4>1, <4>2
    <3> QED BY <1>5, <3>1, <3>2
  <2> QED BY <1>7, <2>1
<1>19. \A i \in DOMAIN w.toIde, j \in DOMAIN w.ops :
         w.toIde[i] \in Requests => w.toIde[i] # w.ops[j]
  <2>4. ASSUME NEW i \in DOMAIN Tail(q), NEW j \in DOMAIN Append(o, line),
               Tail(q)[i] \in Requests, Tail(q)[i] = Append(o, line)[j]
        PROVE  FALSE
    <3>1. i + 1 \in DOMAIN q /\ q[i + 1] = Tail(q)[i] /\ i + 1 # 1
      BY <1>3
    <3>2. CASE j \in DOMAIN o /\ Append(o, line)[j] = o[j]
      BY <1>12, <2>4, <3>1, <3>2
    <3>3. CASE Append(o, line)[j] = line
      BY <1>2, <1>10, <2>4, <3>1, <3>3
    <3> QED BY <1>5, <3>2, <3>3
  <2> QED BY <1>7, <2>4
<1>20. \A x \in Range(w.toIde) \union Range(w.ops) : x \in Requests => x \notin Range(done)
  BY <1>3, <1>4, <1>7, <1>13
<1>21. \A i \in DOMAIN w.toIde : w.toIde[i].kind # "auth"
  BY <1>3, <1>7, <1>14
<1>22. \A i \in DOMAIN w.ops : w.ops[i].kind # "auth"
  BY <1>2, <1>5, <1>7, <1>14, <1>15
<1>23. ASSUME NEW h, h.cl = f.cl, h.wire = w
       PROVE  Authenticating(h, r) /\ Unadmitted(h, r) /\ Carries(h, r)
  <2>1. ~(r = "requests" /\ f.cl.auth)
    BY <1>2, <1>14, <1>16 DEF Authenticating, q
  <2>2. Authenticating(h, r)
    BY <1>16, <1>23, <2>1 DEF Authenticating
  <2>3. Unadmitted(h, r)
    BY <1>7, <1>23 DEF Unadmitted
  <2>4. ASSUME r = "requests", ~f.cl.auth, ~f.cl.late
        PROVE  /\ f.cl.flight # NoFlight /\ f.wire.toClient = <<>>
               /\ q = <<f.cl.flight>> /\ o = <<>>
    BY <1>16, <2>4 DEF Carries, q, o
  <2>5. ASSUME r = "requests", ~f.cl.auth, ~f.cl.late
        PROVE  w.toIde = <<>> /\ w.ops = <<f.cl.flight>>
    <3>1. f.cl.flight \in Sendable
      BY <1>2, <2>4, <2>5, <1>1, FrameIs DEF FrameOK
    <3>2. Tail(q) = <<>> /\ line = f.cl.flight
      BY <1>2, <2>4, <2>5, <3>1, FirstIs
    <3>3. Append(o, line) = <<f.cl.flight>>
      BY <2>4, <2>5, <3>1, <3>2, FirstIs
    <3> QED BY <1>7, <3>2, <3>3
  <2>6. Len(<<>>) = 0 /\ DOMAIN <<>> = {}
    BY NothingIs
  <2>7. ASSUME r = "requests", ~f.cl.auth, ~f.cl.late PROVE f.cl.made \subseteq {f.cl.flight.call}
    BY <1>16, <2>4, <2>7 DEF Carries
  <2>8. Carries(h, r)
    <3> SUFFICES ASSUME r = "requests", ~h.cl.auth, ~h.cl.late
                 PROVE  /\ \/ h.wire.toIde = <<>> /\ h.wire.ops = <<>>
                           \/ /\ h.cl.flight # NoFlight /\ h.wire.toClient = <<>>
                              /\ \/ h.wire.toIde = <<h.cl.flight>> /\ h.wire.ops = <<>>
                                 \/ h.wire.toIde = <<>> /\ h.wire.ops = <<h.cl.flight>>
                        /\ h.cl.flight # NoFlight /\ h.wire.toClient = <<>>
                        /\ h.cl.made \subseteq {h.cl.flight.call}
      BY <2>6 DEF Carries
    <3>1. h.cl = f.cl /\ h.wire = w /\ ~f.cl.auth /\ ~f.cl.late
      BY <1>23
    <3>2. w.toClient = <<>> /\ f.cl.flight # NoFlight /\ f.cl.made \subseteq {f.cl.flight.call}
      BY <1>7, <2>4, <2>7, <3>1
    <3>3. w.toIde = <<>> /\ w.ops = <<f.cl.flight>>
      BY <2>5, <3>1
    <3> QED BY <3>1, <3>2, <3>3
  <2> QED BY <2>2, <2>3, <2>8
<1> QED
  <2>1. Range(done) \subseteq Out(f) \union Range(done) /\ Range(done) \subseteq Range(done)
    OBVIOUS
  <2>2. IsInjective(done)
    BY WiresAre
  <2>3. \A i \in DOMAIN w.toIde :
          w.toIde[i].kind = "auth" => i = 1 /\ ~w.authed /\ (r = "requests" => f.cl.auth)
    BY <1>21
  <2>4. \A h : h.cl = f.cl /\ h.wire = w
                 => Authenticating(h, r) /\ Unadmitted(h, r) /\ Carries(h, r)
    BY <1>23
  <2>5. \A x : x = [f EXCEPT !.wire = w] => FrameOK(x, {}, r, done, n)
    BY <1>9, <1>17, <1>18, <1>19, <1>20, <1>22, <2>1, <2>2, <2>3, <2>4, WiredOK
  <2> QED BY <2>5

(* The first line of a connection decides whether there is another.         *)
LEMMA AdmittedOK ==
  ASSUME NEW r \in {"requests", "events"}, NEW done, NEW n, NEW f, FrameOK(f, {}, r, done, n),
         f.cl.sock = "up", f.wire.toIde # <<>>, ~f.wire.authed, ~f.wire.shut,
         NEW w \in WireType, w.toIde = Tail(f.wire.toIde), w.ops = f.wire.ops,
         \/ w.authed /\ Head(f.wire.toIde).kind = "auth"
              /\ w.toClient = Append(f.wire.toClient, Line(0, "ok"))
         \/ ~w.authed /\ w.shut /\ w.toClient = Append(f.wire.toClient, Line(0, "error")),
         NEW g, g = [f EXCEPT !.wire = w]
  PROVE  FrameOK(g, {}, r, done, n)
<1> DEFINE q == f.wire.toIde
           o == f.wire.ops
<1>1. q \in Seq(Sendable) /\ o \in Seq(Sendable) /\ f.wire.toClient \in Seq(Lines)
  BY WiresAre
<1>2. /\ Tail(q) \in Seq(Sendable) /\ Head(q) = q[1] /\ 1 \in DOMAIN q
      /\ DOMAIN Tail(q) = 1 .. Len(q) - 1 /\ Len(q) \in Nat
  BY <1>1, TailIs
<1>3. /\ Range(q) = {Head(q)} \union Range(Tail(q))
      /\ \A i \in DOMAIN Tail(q) : i + 1 \in DOMAIN q /\ Tail(q)[i] = q[i + 1] /\ i + 1 # 1
  BY <1>1, TailElements
<1>4. Out(f) = Range(q) \union Range(o)
  BY WiresAre
<1>5. Range(w.toIde) \union Range(w.ops) \subseteq Out(f)
  BY <1>3, <1>4
<1>6. \A i, j \in DOMAIN q : q[i] = q[j] /\ q[i] \in Requests => i = j
  BY WiresAre
<1>7. \A i, j \in DOMAIN o : o[i] = o[j] /\ o[i] \in Requests => i = j
  BY WiresAre
<1>8. \A i \in DOMAIN q, j \in DOMAIN o : q[i] \in Requests => q[i] # o[j]
  BY WiresAre
<1>9. \A x \in Range(q) \union Range(o) : x \in Requests => x \notin Range(done)
  BY WiresAre
<1>10. \A i \in DOMAIN q : q[i].kind = "auth" => i = 1 /\ (r = "requests" => f.cl.auth)
  BY WiresAre
<1>11. \A i \in DOMAIN o : o[i].kind # "auth"
  BY WiresAre
<1>12. Authenticating(f, r) /\ Carries(f, r) /\ Unadmitted(f, r)
  BY WiresAre
<1>13. w.toIde = Tail(q) /\ w.ops = o
  OBVIOUS
<1> HIDE DEF q, o
<1>14. \A i, j \in DOMAIN w.toIde : w.toIde[i] = w.toIde[j] /\ w.toIde[i] \in Requests => i = j
  <2>1. \A i \in DOMAIN Tail(q) : i \in Int
    BY <1>2
  <2>2. \A i, j \in DOMAIN Tail(q) :
          Tail(q)[i] = Tail(q)[j] /\ Tail(q)[i] \in Requests => i + 1 = j + 1
    BY <1>3, <1>6
  <2>3. \A i, j \in DOMAIN Tail(q) :
          Tail(q)[i] = Tail(q)[j] /\ Tail(q)[i] \in Requests => i = j
    BY <2>1, <2>2
  <2> QED BY <1>13, <2>3
<1>15. \A i, j \in DOMAIN w.ops : w.ops[i] = w.ops[j] /\ w.ops[i] \in Requests => i = j
  BY <1>7, <1>13
<1>16. \A i \in DOMAIN w.toIde, j \in DOMAIN w.ops :
         w.toIde[i] \in Requests => w.toIde[i] # w.ops[j]
  <2>1. \A i \in DOMAIN Tail(q), j \in DOMAIN o : Tail(q)[i] \in Requests => Tail(q)[i] # o[j]
    BY <1>3, <1>8
  <2> QED BY <1>13, <2>1
<1>17. \A x \in Range(w.toIde) \union Range(w.ops) : x \in Requests => x \notin Range(done)
  BY <1>4, <1>5, <1>9
<1>18. \A i \in DOMAIN w.toIde : w.toIde[i].kind # "auth"
  BY <1>3, <1>10, <1>13
<1>19. \A i \in DOMAIN w.ops : w.ops[i].kind # "auth"
  BY <1>11, <1>13
<1>20. ASSUME r = "requests"
       PROVE  /\ o = <<>> /\ f.wire.toClient = <<>>
              /\ w.authed => w.toClient = <<Line(0, "ok")>>
              /\ ~w.authed => w.shut /\ w.toClient = <<Line(0, "error")>>
  <2>1. o = <<>> /\ f.wire.toClient = <<>>
    BY <1>12, <1>20 DEF Unadmitted, o
  <2>2. Line(0, "ok") \in Lines /\ Line(0, "error") \in Lines
    BY LineIs
  <2>3. Append(<<>>, Line(0, "ok")) = <<Line(0, "ok")>>
        /\ Append(<<>>, Line(0, "error")) = <<Line(0, "error")>>
    BY <2>2, FirstIs
  <2> QED BY <2>1, <2>3
<1>21. ASSUME NEW h, h.cl = f.cl, h.wire = w
       PROVE  Authenticating(h, r) /\ Unadmitted(h, r) /\ Carries(h, r)
  <2>1. Unadmitted(h, r)
    BY <1>13, <1>20, <1>21 DEF Unadmitted
  <2>2. ASSUME r = "requests", f.cl.auth
        PROVE  \A i \in DOMAIN w.toIde : w.toIde[i].kind = "auth"
    <3>1. \A i \in DOMAIN q : q[i].kind = "auth"
      BY <1>12, <2>2 DEF Authenticating, q
    <3> QED BY <1>3, <1>13, <3>1
  <2>3. Authenticating(h, r)
    <3>1. f.cl.auth => f.cl.token # 0 /\ f.cl.flight = NoFlight
      BY <1>12 DEF Authenticating
    <3> QED BY <1>13, <1>20, <1>21, <2>2, <3>1 DEF Authenticating
  <2>4. ASSUME r = "requests", ~f.cl.auth, ~f.cl.late
        PROVE  /\ f.cl.flight # NoFlight /\ w.toIde = <<>> /\ w.ops = <<>>
               /\ w.toClient = <<Line(0, "error")>> /\ ~w.authed
    <3>1. f.cl.flight # NoFlight /\ q = <<f.cl.flight>>
      <4>1. q # <<>>
        BY DEF q
      <4> QED BY <1>12, <1>20, <2>4, <4>1 DEF Carries, q, o
    <3>2. f.cl.flight \in Sendable
      BY <3>1, FrameIs DEF FrameOK, Requests, Sendable, Calls
    <3>3. Tail(q) = <<>>
      BY <3>1, <3>2, FirstIs
    <3>4. Head(q).kind # "auth"
      BY <1>2, <1>10, <2>4
    <3>5. ~w.authed
      BY <3>4 DEF q
    <3> QED BY <1>13, <1>20, <2>4, <3>1, <3>3, <3>5
  <2>5. Line(0, "error") \in Lines /\ Line(0, "error").text = "error"
    BY LineIs
  <2>6. Len(<<Line(0, "error")>>) = 1 /\ DOMAIN <<Line(0, "error")>> = {1}
        /\ <<Line(0, "error")>>[1] = Line(0, "error")
    BY <2>5, FirstIs
  <2>7. Carries(h, r)
    <3> SUFFICES ASSUME r = "requests", ~h.cl.auth, ~h.cl.late
                 PROVE  /\ h.wire.toIde = <<>> /\ h.wire.ops = <<>>
                        /\ h.cl.flight # NoFlight /\ ~h.wire.authed
                        /\ Len(h.wire.toClient) <= 1
                        /\ \A i \in DOMAIN h.wire.toClient : h.wire.toClient[i].text # "."
      BY DEF Carries
    <3>1. h.cl = f.cl /\ h.wire = w /\ ~f.cl.auth /\ ~f.cl.late
      BY <1>21
    <3>2. /\ f.cl.flight # NoFlight /\ w.toIde = <<>> /\ w.ops = <<>>
          /\ w.toClient = <<Line(0, "error")>> /\ ~w.authed
      BY <2>4, <3>1
    <3> QED BY <2>5, <2>6, <3>1, <3>2
  <2> QED BY <2>1, <2>3, <2>7
<1> QED
  <2>1. Range(done) \subseteq Out(f) \union Range(done) /\ Range(done) \subseteq Range(done)
    OBVIOUS
  <2>2. IsInjective(done)
    BY WiresAre
  <2>3. \A i \in DOMAIN w.toIde :
          w.toIde[i].kind = "auth" => i = 1 /\ ~w.authed /\ (r = "requests" => f.cl.auth)
    BY <1>18
  <2>4. \A h : h.cl = f.cl /\ h.wire = w
                 => Authenticating(h, r) /\ Unadmitted(h, r) /\ Carries(h, r)
    BY <1>21
  <2>5. \A x : x = [f EXCEPT !.wire = w] => FrameOK(x, {}, r, done, n)
    BY <1>5, <1>14, <1>15, <1>16, <1>17, <1>19, <2>1, <2>2, <2>3, <2>4, WiredOK
  <2> QED BY <2>5

LEMMA ReplyIs ==
  ASSUME NEW op \in Sendable, NEW text \in {"ok", "error"}
  PROVE  ReplyTo(op, text) \in Seq(Lines)
<1>1. op.call \in Nat
  BY DEF Sendable
<1>2. Line(op.call, text) \in Lines /\ Line(op.call, "body") \in Lines
      /\ Line(op.call, ".") \in Lines
  BY <1>1, LineIs
<1> QED BY <1>2 DEF ReplyTo

(* A line is executed, and its reply goes out.                              *)
Executed(done, op) == IF op.kind = "watch" THEN done ELSE Append(done, op)

LEMMA RepliedOK ==
  ASSUME NEW r \in {"requests", "events"}, NEW done \in Seq(Requests), NEW n,
         NEW f, FrameOK(f, {}, r, done, n), f.cl.sock = "up", ~f.wire.shut,
         NEW k \in DOMAIN f.wire.ops, NEW text \in {"ok", "error"},
         NEW w \in WireType, w.toIde = f.wire.toIde, w.ops = RemoveAt(f.wire.ops, k),
         w.authed = f.wire.authed,
         w.toClient = f.wire.toClient \o ReplyTo(f.wire.ops[k], text)
  PROVE  FrameOK([f EXCEPT !.wire = w], {}, r, Executed(done, f.wire.ops[k]), n)
         /\ Executed(done, f.wire.ops[k]) \in Seq(Requests)
<1> DEFINE q == f.wire.toIde
           o == f.wire.ops
           op == f.wire.ops[k]
           more == Executed(done, op)
<1>0. /\ op = f.wire.ops[k] /\ w.toClient = f.wire.toClient \o ReplyTo(op, text)
      /\ more = IF op.kind = "watch" THEN done ELSE Append(done, op)
  BY DEF Executed
<1> HIDE DEF op, more
<1> USE <1>0
<1>1. q \in Seq(Sendable) /\ o \in Seq(Sendable) /\ f.wire.toClient \in Seq(Lines)
      /\ f \in FrameType /\ f.cl.flight \in Requests \union {NoFlight}
  BY WiresAre, FrameIs DEF FrameOK
<1>2. op \in Sendable /\ op \in Range(o)
  BY <1>1, ElementOfSeq DEF Range
<1>3. /\ Range(o) = {op} \union Range(RemoveAt(o, k))
      /\ \A j \in DOMAIN RemoveAt(o, k) : \E l \in DOMAIN o : RemoveAt(o, k)[j] = o[l] /\ l # k
      /\ \A i, j \in DOMAIN RemoveAt(o, k) : i # j =>
           \E l, m \in DOMAIN o :
             l # m /\ RemoveAt(o, k)[i] = o[l] /\ RemoveAt(o, k)[j] = o[m]
      /\ RemoveAt(o, k) \in Seq(Sendable)
      /\ Len(RemoveAt(o, k)) = Len(o) - 1
  <2>1. k \in DOMAIN o /\ o \in Seq(Sendable) /\ op = o[k]
    BY <1>1
  <2> HIDE DEF o
  <2>2. Range(o) = {o[k]} \union Range(RemoveAt(o, k))
    BY <2>1, RemoveElements
  <2>3. \A j \in DOMAIN RemoveAt(o, k) : \E l \in DOMAIN o : RemoveAt(o, k)[j] = o[l] /\ l # k
    BY <2>1, RemoveElements
  <2>4. \A i, j \in DOMAIN RemoveAt(o, k) : i # j =>
          \E l, m \in DOMAIN o :
            l # m /\ RemoveAt(o, k)[i] = o[l] /\ RemoveAt(o, k)[j] = o[m]
    BY <2>1, RemoveElements
  <2>5. RemoveAt(o, k) \in Seq(Sendable) /\ Len(RemoveAt(o, k)) = Len(o) - 1
    BY <2>1, RemoveAtIs
  <2> QED BY <2>1, <2>2, <2>3, <2>4, <2>5
<1>4. Out(f) = Range(q) \union Range(o)
  BY WiresAre
<1>5. Range(w.toIde) \union Range(w.ops) \subseteq Out(f)
  BY <1>3, <1>4
<1>6. \A i, j \in DOMAIN q : q[i] = q[j] /\ q[i] \in Requests => i = j
  BY WiresAre
<1>7. \A i, j \in DOMAIN o : o[i] = o[j] /\ o[i] \in Requests => i = j
  BY WiresAre
<1>8. \A i \in DOMAIN q, j \in DOMAIN o : q[i] \in Requests => q[i] # o[j]
  BY WiresAre
<1>9. \A x \in Range(q) \union Range(o) : x \in Requests => x \notin Range(done)
  BY WiresAre
<1>10. \A i \in DOMAIN q :
         q[i].kind = "auth" => i = 1 /\ ~f.wire.authed /\ (r = "requests" => f.cl.auth)
  BY WiresAre
<1>11. \A i \in DOMAIN o : o[i].kind # "auth"
  BY WiresAre
<1>12. Authenticating(f, r) /\ Carries(f, r) /\ Unadmitted(f, r) /\ IsInjective(done)
  BY WiresAre
<1>13. w.toIde = q /\ w.ops = RemoveAt(o, k)
  OBVIOUS
<1>14. op.kind # "watch" => op \in Requests
  <2>1. op.kind # "auth"
    BY <1>11
  <2>2. op.kind \in {"auth", "watch", "build", "read"}
    BY <1>2 DEF Sendable
  <2>3. op.kind \in {"build", "read"} => op \in Requests
    BY <1>2, <1>4 DEF FrameOK, OfItsRole
  <2> QED BY <2>1, <2>2, <2>3
<1>15. o # <<>> /\ k \in DOMAIN o /\ op = o[k]
  BY <1>1, NothingIs
<1>16. /\ more \in Seq(Requests)
       /\ Range(more) \subseteq Range(done) \union {op} /\ Range(done) \subseteq Range(more)
       /\ op.kind = "watch" => more = done
       /\ op.kind # "watch" => more = Append(done, op)
  BY <1>14, AppendIs, AppendElements
<1> HIDE DEF q, o
<1>17. Range(more) \subseteq Out(f) \union Range(done)
  BY <1>2, <1>4, <1>16
<1>18. \A i, j \in DOMAIN w.ops : w.ops[i] = w.ops[j] /\ w.ops[i] \in Requests => i = j
  <2> DEFINE p == RemoveAt(o, k)
  <2>1. ASSUME NEW i \in DOMAIN p, NEW j \in DOMAIN p, p[i] = p[j], p[i] \in Requests, i # j
        PROVE  FALSE
    <3>1. PICK l, m \in DOMAIN o : l # m /\ p[i] = o[l] /\ p[j] = o[m]
      BY <1>3, <2>1
    <3> QED BY <1>7, <2>1, <3>1
  <2> HIDE DEF p
  <2>2. \A i, j \in DOMAIN p : p[i] = p[j] /\ p[i] \in Requests => i = j
    BY <2>1
  <2>3. w.ops = p
    BY <1>13 DEF p
  <2> QED BY <2>2, <2>3
<1>19. \A i \in DOMAIN w.toIde, j \in DOMAIN w.ops :
         w.toIde[i] \in Requests => w.toIde[i] # w.ops[j]
  <2>1. \A i \in DOMAIN q, j \in DOMAIN RemoveAt(o, k) :
          q[i] \in Requests => q[i] # RemoveAt(o, k)[j]
    BY <1>3, <1>8
  <2> QED BY <1>13, <2>1
<1>20. \A x \in Range(w.toIde) \union Range(w.ops) : x \in Requests => x \notin Range(more)
  <2> SUFFICES ASSUME NEW x \in Range(q) \union Range(RemoveAt(o, k)), x \in Requests,
                      x \in Range(more)
               PROVE  FALSE
    BY <1>13
  <2>1. x \notin Range(done)
    BY <1>3, <1>9
  <2>2. x = op
    BY <1>16, <2>1
  <2>3. CASE x \in Range(q)
    <3>1. PICK i \in DOMAIN q : q[i] = x
      BY <2>3 DEF Range
    <3> QED BY <1>8, <1>15, <2>2, <3>1
  <2>4. CASE x \in Range(RemoveAt(o, k))
    <3>1. PICK j \in DOMAIN RemoveAt(o, k) : RemoveAt(o, k)[j] = x
      BY <2>4 DEF Range
    <3>2. PICK l \in DOMAIN o : RemoveAt(o, k)[j] = o[l] /\ l # k
      BY <1>3, <3>1
    <3> QED BY <1>7, <1>15, <2>2, <3>1, <3>2
  <2> QED BY <2>3, <2>4
<1>21. IsInjective(more)
  <2>1. CASE op.kind = "watch"
    BY <1>12, <1>16, <2>1
  <2>2. CASE op.kind # "watch"
    <3>1. op \in Requests /\ op \notin Range(done) /\ more = Append(done, op)
      BY <1>2, <1>9, <1>14, <1>16, <2>2
    <3>2. \A i, j \in DOMAIN done : done[i] = done[j] => i = j
      BY <1>12 DEF IsInjective
    <3>5. /\ DOMAIN more = 1 .. Len(done) + 1 /\ DOMAIN done = 1 .. Len(done)
          /\ Len(done) \in Nat /\ more[Len(done) + 1] = op
          /\ \A i \in 1 .. Len(done) : more[i] = done[i]
      BY <3>1, AppendIs
    <3>3. \A i \in DOMAIN more : \/ (i \in DOMAIN done /\ more[i] = done[i])
                                   \/ (i = Len(done) + 1 /\ more[i] = op)
      BY <3>5
    <3>4. \A i \in DOMAIN done : done[i] # op
      BY <3>1 DEF Range
    <3> QED BY <3>2, <3>3, <3>4 DEF IsInjective
  <2> QED BY <2>1, <2>2
<1>22. \A i \in DOMAIN w.toIde :
         w.toIde[i].kind = "auth" => i = 1 /\ ~w.authed /\ (r = "requests" => f.cl.auth)
  BY <1>10, <1>13
<1>23. \A i \in DOMAIN w.ops : w.ops[i].kind # "auth"
  <2>1. \A j \in DOMAIN RemoveAt(o, k) : RemoveAt(o, k)[j].kind # "auth"
    BY <1>3, <1>11
  <2> QED BY <1>13, <2>1
<1>24. r = "requests" => ~f.cl.auth /\ f.wire.authed
  BY <1>12, <1>15 DEF Authenticating, Unadmitted, o
<1>25. ASSUME NEW h, h.cl = f.cl, h.wire = w
       PROVE  Authenticating(h, r) /\ Unadmitted(h, r) /\ Carries(h, r)
  <2>1. Unadmitted(h, r)
    BY <1>24, <1>25 DEF Unadmitted
  <2>2. Authenticating(h, r)
    BY <1>12, <1>24, <1>25 DEF Authenticating
  <2>3. ASSUME r = "requests", ~f.cl.late
        PROVE  /\ f.cl.flight # NoFlight /\ f.wire.toClient = <<>> /\ q = <<>>
               /\ o = <<f.cl.flight>> /\ f.cl.made \subseteq {f.cl.flight.call}
    <3>1. f.cl.flight # NoFlight /\ f.wire.toClient = <<>> /\ q = <<>> /\ o = <<f.cl.flight>>
      BY <1>12, <1>15, <1>24, <2>3 DEF Carries, q, o
    <3>2. f.cl.made \subseteq {f.cl.flight.call}
      BY <1>12, <1>24, <2>3, <3>1 DEF Carries
    <3> QED BY <3>1, <3>2
  <2>4. ASSUME r = "requests", ~f.cl.late
        PROVE  /\ w.toIde = <<>> /\ w.ops = <<>> /\ w.toClient = ReplyTo(op, text)
               /\ op = f.cl.flight /\ op \in Requests
    <3>1. f.cl.flight \in Requests
      BY <1>1, <2>3, <2>4
    <3>2. Len(o) = 1 /\ DOMAIN o = {1} /\ o[1] = f.cl.flight
      BY <2>3, <2>4, <3>1, FirstIs
    <3>3. op = f.cl.flight /\ k = 1
      BY <1>15, <3>2
    <3>4. RemoveAt(o, k) = <<>>
      BY <1>3, <3>2, EmptyIs
    <3>5. ReplyTo(op, text) \in Seq(Lines)
      BY <1>2, ReplyIs
    <3>6. w.toClient = <<>> \o ReplyTo(op, text)
      BY <2>3, <2>4
    <3>7. w.toClient = ReplyTo(op, text)
      BY <3>5, <3>6
    <3> QED BY <1>13, <2>3, <2>4, <3>1, <3>3, <3>4, <3>7
  <2>5. ASSUME op \in Requests
        PROVE  /\ \A i \in DOMAIN ReplyTo(op, text) : ReplyTo(op, text)[i].call = op.call
               /\ op.kind = "build" => Len(ReplyTo(op, text)) <= 1
               /\ op.kind = "read" => \A i \in DOMAIN ReplyTo(op, text) :
                    ReplyTo(op, text)[i].text = "." => i = Len(ReplyTo(op, text))
    <3> DEFINE a == Line(op.call, text)
               b == Line(op.call, "body")
               d == Line(op.call, ".")
    <3>1. op.call \in Nat
      BY <1>2 DEF Sendable
    <3>2. a.call = op.call /\ b.call = op.call /\ d.call = op.call
          /\ a.text # "." /\ b.text # "."
      BY <3>1, LineIs
    <3> HIDE DEF a, b, d
    <3>3. CASE op.kind = "read"
      <4>1. ReplyTo(op, text) = <<a, b, d>>
        BY <3>3 DEF ReplyTo, a, b, d
      <4> QED BY <3>2, <3>3, <4>1
    <3>4. CASE op.kind # "read"
      <4>1. ReplyTo(op, text) = <<a>>
        BY <3>4 DEF ReplyTo, a
      <4> QED BY <3>2, <3>4, <4>1
    <3> QED BY <3>3, <3>4
  <2>6. Carries(h, r)
    <3> SUFFICES ASSUME r = "requests", ~h.cl.auth, ~h.cl.late
                 PROVE  /\ h.wire.toIde = <<>> /\ h.wire.ops = <<>>
                        /\ h.cl.flight # NoFlight /\ h.cl.made \subseteq {h.cl.flight.call}
                        /\ \A i \in DOMAIN h.wire.toClient :
                             h.wire.toClient[i].call = h.cl.flight.call
                        /\ h.cl.flight.kind = "build" => Len(h.wire.toClient) <= 1
                        /\ h.cl.flight.kind = "read" => \A i \in DOMAIN h.wire.toClient :
                             h.wire.toClient[i].text = "." => i = Len(h.wire.toClient)
      BY DEF Carries
    <3>1. h.cl = f.cl /\ h.wire = w /\ ~f.cl.late
      BY <1>25
    <3>2. f.cl.flight # NoFlight /\ f.cl.made \subseteq {f.cl.flight.call}
      BY <2>3, <3>1
    <3>3. /\ w.toIde = <<>> /\ w.ops = <<>> /\ w.toClient = ReplyTo(op, text)
          /\ op = f.cl.flight /\ op \in Requests
      BY <2>4, <3>1
    <3> QED BY <2>5, <3>1, <3>2, <3>3
  <2> QED BY <2>1, <2>2, <2>6
<1> QED
  <2>1. \A h : h.cl = f.cl /\ h.wire = w
                 => Authenticating(h, r) /\ Unadmitted(h, r) /\ Carries(h, r)
    BY <1>25
  <2>2. \A i, j \in DOMAIN w.toIde : w.toIde[i] = w.toIde[j] /\ w.toIde[i] \in Requests => i = j
    BY <1>6, <1>13
  <2>3. \A x : x = [f EXCEPT !.wire = w] => FrameOK(x, {}, r, more, n)
    BY <1>5, <1>16, <1>17, <1>18, <1>19, <1>20, <1>21, <1>22, <1>23, <2>1, <2>2, WiredOK
  <2>4. FrameOK([f EXCEPT !.wire = w], {}, r, more, n) /\ more \in Seq(Requests)
    BY <1>16, <2>3
  <2> QED BY <2>4 DEF more, op

(* The IDE is gone, and some of what it said.                               *)
LEMMA HungUpOK ==
  ASSUME NEW r \in {"requests", "events"}, NEW done, NEW n,
         NEW f, FrameOK(f, {}, r, done, n), f.cl.sock = "up",
         NEW m \in 0 .. Len(f.wire.toClient),
         NEW w \in WireType, w.toIde = f.wire.toIde, w.ops = <<>>,
         w.authed = f.wire.authed, w.shut, w.toClient = SubSeq(f.wire.toClient, 1, m),
         NEW g, g = [f EXCEPT !.wire = w]
  PROVE  FrameOK(g, {}, r, done, n)
<1> DEFINE q == f.wire.toIde
           t == f.wire.toClient
           p == SubSeq(t, 1, m)
<1>1. q \in Seq(Sendable) /\ t \in Seq(Lines) /\ Len(t) \in Nat /\ m \in 0 .. Len(t)
  <2>1. q \in Seq(Sendable) /\ t \in Seq(Lines)
    BY WiresAre
  <2> QED BY <2>1, LenProperties
<1>2. /\ Range(<<>>) = {} /\ DOMAIN <<>> = {} /\ Len(<<>>) = 0
  BY NothingIs DEF Range
<1>3. Out(f) = Range(q) \union Range(f.wire.ops)
  BY WiresAre
<1>4. Range(w.toIde) \union Range(w.ops) \subseteq Out(f)
  BY <1>2, <1>3
<1>5. \A i, j \in DOMAIN q : q[i] = q[j] /\ q[i] \in Requests => i = j
  BY WiresAre
<1>6. \A x \in Range(q) : x \in Requests => x \notin Range(done)
  BY WiresAre
<1>7. \A i \in DOMAIN q :
         q[i].kind = "auth" => i = 1 /\ ~f.wire.authed /\ (r = "requests" => f.cl.auth)
  BY WiresAre
<1>8. Authenticating(f, r) /\ Carries(f, r) /\ Unadmitted(f, r)
  BY WiresAre
<1>9. w.toIde = q /\ w.ops = <<>> /\ w.toClient = p /\ w.authed = f.wire.authed /\ w.shut
  OBVIOUS
<1> HIDE DEF q, t
<1>10. /\ p \in Seq(Lines) /\ Len(p) = m /\ DOMAIN p = 1 .. m
       /\ \A i \in 1 .. m : p[i] = t[i] /\ i \in DOMAIN t
       /\ DOMAIN t = 1 .. Len(t)
  <2>1. \A i \in 1 .. m : i \in 1 .. Len(t) /\ t[i] \in Lines
    BY <1>1, ElementOfSeq
  <2>2. DOMAIN t = 1 .. Len(t)
    BY <1>1, LenProperties
  <2> QED BY <1>1, <2>1, <2>2, SubSeqProperties
<1>11. ASSUME NEW e \in Lines, t = <<e>> PROVE p = <<>> \/ p = <<e>>
  <2>1. Len(t) = 1 /\ t[1] = e
    BY <1>11, FirstIs
  <2>2. CASE m = 0
    BY <1>10, <2>2, EmptyIs
  <2>3. CASE m = 1
    <3>1. Len(p) = 1 /\ p[1] = e /\ p \in Seq(Lines)
      BY <1>10, <2>1, <2>3
    <3> HIDE DEF p
    <3> QED BY <3>1
  <2> QED BY <1>1, <2>1, <2>2, <2>3
<1>12. t = <<>> => p = <<>>
  BY <1>1, <1>2, <1>10, EmptyIs
<1> HIDE DEF p
<1>13. Line(0, "ok") \in Lines /\ Line(0, "error") \in Lines
  BY LineIs
<1>14. ASSUME NEW h, h.cl = f.cl, h.wire = w
       PROVE  Authenticating(h, r) /\ Unadmitted(h, r) /\ Carries(h, r)
  <2>1. Unadmitted(h, r)
    BY <1>8, <1>9, <1>11, <1>12, <1>13, <1>14 DEF Unadmitted, t
  <2>2. Authenticating(h, r)
    <3>1. f.cl.auth => f.cl.token # 0 /\ f.cl.flight = NoFlight
      BY <1>8 DEF Authenticating
    <3>2. f.cl.auth /\ r = "requests" => \A i \in DOMAIN q : q[i].kind = "auth"
      BY <1>8 DEF Authenticating, q
    <3>3. f.cl.auth /\ r = "requests" /\ f.wire.authed => p = <<>> \/ p = <<Line(0, "ok")>>
      BY <1>8, <1>11, <1>12, <1>13 DEF Authenticating, t
    <3> QED BY <1>9, <1>14, <3>1, <3>2, <3>3 DEF Authenticating
  <2>3. ASSUME r = "requests", ~f.cl.auth, ~f.cl.late
        PROVE  /\ \/ q = <<>>
                  \/ f.cl.flight # NoFlight /\ p = <<>> /\ q = <<f.cl.flight>>
               /\ f.cl.flight = NoFlight => p = <<>>
    BY <1>8, <1>12, <2>3 DEF Carries, q, t
  <2>4. ASSUME r = "requests", ~f.cl.auth, ~f.cl.late, f.cl.flight # NoFlight, f.wire.authed
        PROVE  /\ \A i \in DOMAIN p : p[i].call = f.cl.flight.call
               /\ f.cl.made \subseteq {f.cl.flight.call}
    <3>1. /\ \A i \in DOMAIN t : t[i].call = f.cl.flight.call
          /\ f.cl.made \subseteq {f.cl.flight.call}
      BY <1>8, <2>4 DEF Carries, t
    <3> QED BY <1>10, <3>1
  <2>5. ASSUME r = "requests", ~f.cl.auth, ~f.cl.late, f.cl.flight.kind = "build"
        PROVE  Len(p) <= 1
    <3>1. Len(t) <= 1
      BY <1>8, <2>5 DEF Carries, t
    <3> QED BY <1>1, <1>10, <3>1
  <2>6. ASSUME r = "requests", ~f.cl.auth, ~f.cl.late, f.cl.flight.kind = "read",
               NEW i \in DOMAIN p, p[i].text = "."
        PROVE  i = Len(p)
    <3>1. \A j \in DOMAIN t : t[j].text = "." => j = Len(t)
      BY <1>8, <2>6 DEF Carries, t
    <3>2. i \in 1 .. m /\ i = Len(t)
      BY <1>10, <2>6, <3>1
    <3> QED BY <1>1, <1>10, <3>2
  <2>7. Carries(h, r)
    <3> SUFFICES ASSUME r = "requests", ~h.cl.auth, ~h.cl.late
                 PROVE  /\ \/ h.wire.toIde = <<>> /\ h.wire.ops = <<>>
                           \/ /\ h.cl.flight # NoFlight /\ h.wire.toClient = <<>>
                              /\ h.wire.toIde = <<h.cl.flight>> /\ h.wire.ops = <<>>
                        /\ h.cl.flight = NoFlight => h.wire.toClient = <<>>
                        /\ h.cl.flight # NoFlight /\ h.wire.authed =>
                             /\ \A i \in DOMAIN h.wire.toClient :
                                  h.wire.toClient[i].call = h.cl.flight.call
                             /\ h.cl.made \subseteq {h.cl.flight.call}
                        /\ h.cl.flight.kind = "build" => Len(h.wire.toClient) <= 1
                        /\ h.cl.flight.kind = "read" => \A i \in DOMAIN h.wire.toClient :
                             h.wire.toClient[i].text = "." => i = Len(h.wire.toClient)
      BY DEF Carries
    <3>1. h.cl = f.cl /\ h.wire = w /\ ~f.cl.auth /\ ~f.cl.late
      BY <1>14
    <3> QED BY <1>9, <2>3, <2>4, <2>5, <2>6, <3>1
  <2> QED BY <2>1, <2>2, <2>7
<1> QED
  <2>1. Range(done) \subseteq Out(f) \union Range(done) /\ Range(done) \subseteq Range(done)
    OBVIOUS
  <2>2. IsInjective(done)
    BY WiresAre
  <2>3. \A h : h.cl = f.cl /\ h.wire = w
                 => Authenticating(h, r) /\ Unadmitted(h, r) /\ Carries(h, r)
    BY <1>14
  <2>4. /\ \A i, j \in DOMAIN w.toIde : w.toIde[i] = w.toIde[j] /\ w.toIde[i] \in Requests => i = j
        /\ \A i \in DOMAIN w.toIde :
             w.toIde[i].kind = "auth" => i = 1 /\ ~w.authed /\ (r = "requests" => f.cl.auth)
    BY <1>5, <1>7, <1>9
  <2>5. /\ \A i, j \in DOMAIN w.ops : w.ops[i] = w.ops[j] /\ w.ops[i] \in Requests => i = j
        /\ \A i \in DOMAIN w.toIde, j \in DOMAIN w.ops :
             w.toIde[i] \in Requests => w.toIde[i] # w.ops[j]
        /\ \A i \in DOMAIN w.ops : w.ops[i].kind # "auth"
    BY <1>2, <1>9
  <2>6. \A x \in Range(w.toIde) \union Range(w.ops) : x \in Requests => x \notin Range(done)
    BY <1>2, <1>6, <1>9
  <2>7. \A x : x = [f EXCEPT !.wire = w] => FrameOK(x, {}, r, done, n)
    BY <1>4, <2>1, <2>2, <2>3, <2>4, <2>5, <2>6, WiredOK
  <2> QED BY <2>7

-----------------------------------------------------------------------------
(* The IDE's actions.                                                       *)

IdeType == [up : BOOLEAN, token : Nat, version : Versions \union {0}, file : FileType]

LEMMA WireStepOK ==
  ASSUME IInv, role' = role, cl' = cl, agent' = agent, used' \in UsedType,
         used'.calls = used.calls,
         wire' \in WireType, ran' \in Seq(Requests), ide' \in IdeType, TokensAreReal',
         \A g : g = [Frame EXCEPT !.wire = wire'] => FrameOK(g, {}, role, ran', used.calls)
  PROVE  IInv'
<1>1. Frame \in FrameType /\ Frame.cl = cl /\ Frame.agent = agent
  BY StateIs, FrameParts
<1>2. [Frame EXCEPT !.wire = wire'] = [cl |-> cl, wire |-> wire', agent |-> agent]
  BY <1>1, PartsIs
<1>3. Frame' = [Frame EXCEPT !.wire = wire']
  BY <1>2 DEF Frame
<1>4. FrameOK([Frame EXCEPT !.wire = wire'], {}, role, ran', used.calls)
  OBVIOUS
<1>5. FrameOK(Frame', {}, role', ran', used'.calls)
  BY <1>3, <1>4
<1>6. TypeOK'
  BY DEF IInv, TypeOK, UsedType, IdeType
<1> QED BY <1>5, <1>6 DEF IInv

LEMMA StaysIs ==
  ASSUME IInv
  PROVE  /\ used' = used => used' \in UsedType /\ used'.calls = used.calls
         /\ ide' = ide => ide' \in IdeType /\ TokensAreReal'
<1>1. TypeOK /\ used \in UsedType /\ TokensAreReal
  BY StateIs, UseIs
<1>2. ide \in IdeType
  BY <1>1 DEF TypeOK, IdeType
<1>3. ide' = ide => TokensAreReal'
  BY <1>1 DEF TokensAreReal
<1> QED BY <1>1, <1>2, <1>3

LEMMA IdeReadsOK == IInv /\ IdeReads => IInv'
<1> SUFFICES ASSUME IInv, IdeReads PROVE IInv'
  OBVIOUS
<1> DEFINE line == Head(wire.toIde)
           w == [wire EXCEPT !.toIde = Tail(@)]
<1>1. /\ role \in {"requests", "events"} /\ FrameOK(Frame, {}, role, ran, used.calls)
      /\ Frame.cl = cl /\ Frame.wire = wire /\ wire \in WireType /\ ran \in Seq(Requests)
  BY StateIs, FrameParts
<1>2. cl.sock = "up" /\ ~wire.shut /\ wire.toIde # <<>>
  BY DEF IdeReads
<1>3. wire.toIde \in Seq(Sendable) /\ wire.ops \in Seq(Sendable) /\ wire.toClient \in Seq(Lines)
  BY <1>1 DEF WireType
<1>4. Tail(wire.toIde) \in Seq(Sendable) /\ line \in Sendable
  BY <1>2, <1>3, TailIs
<1>5. w \in WireType
  BY <1>1, <1>4 DEF WireType
<1>6. /\ w.toIde = Tail(wire.toIde) /\ w.ops = wire.ops /\ w.toClient = wire.toClient
      /\ w.shut = wire.shut /\ w.authed = wire.authed
  BY <1>1 DEF WireType
<1>7. \/ wire.authed /\ wire' = [w EXCEPT !.ops = Append(@, line)]
      \/ /\ ~wire.authed /\ line.kind = "auth"
         /\ wire' = [w EXCEPT !.authed = TRUE, !.toClient = Append(@, Line(0, "ok"))]
      \/ /\ ~wire.authed
         /\ wire' = [w EXCEPT !.shut = TRUE, !.toClient = Append(@, Line(0, "error"))]
  <2>1. wire' = CASE wire.authed -> [w EXCEPT !.ops = Append(@, line)]
                  [] ~wire.authed /\ line = [call |-> ide.token, kind |-> "auth"] ->
                       [w EXCEPT !.authed = TRUE, !.toClient = Append(@, Line(0, "ok"))]
                  [] OTHER -> [w EXCEPT !.shut = TRUE, !.toClient = Append(@, Line(0, "error"))]
    BY DEF IdeReads
  <2> HIDE DEF w, line
  <2>2. CASE wire.authed
    BY <2>1, <2>2
  <2>3. CASE ~wire.authed /\ line = [call |-> ide.token, kind |-> "auth"]
    BY <2>1, <2>3
  <2>4. CASE ~wire.authed /\ line # [call |-> ide.token, kind |-> "auth"]
    BY <2>1, <2>4
  <2> QED BY <2>2, <2>3, <2>4
<1> HIDE DEF w, line
<1>8. Line(0, "ok") \in Lines /\ Line(0, "error") \in Lines
  BY LineIs
<1>9. /\ Append(w.ops, line) \in Seq(Sendable)
      /\ Append(w.toClient, Line(0, "ok")) \in Seq(Lines)
      /\ Append(w.toClient, Line(0, "error")) \in Seq(Lines)
  BY <1>3, <1>4, <1>6, <1>8, AppendIs
<1>13. Frame.cl.sock = "up" /\ ~Frame.wire.shut /\ Frame.wire.toIde # <<>>
  BY <1>1, <1>2
<1>10. CASE wire.authed /\ wire' = [w EXCEPT !.ops = Append(@, line)]
  <2>1. wire' \in WireType
    BY <1>5, <1>9, <1>10 DEF WireType
  <2>2. /\ wire'.toIde = Tail(wire.toIde) /\ wire'.ops = Append(wire.ops, line)
        /\ wire'.toClient = wire.toClient /\ wire'.authed
    BY <1>5, <1>6, <1>10 DEF WireType
  <2>3. \A g : g = [Frame EXCEPT !.wire = wire'] => FrameOK(g, {}, role, ran, used.calls)
    <3>1. ASSUME NEW x \in WireType, x = wire'
          PROVE  /\ x.toIde = Tail(Frame.wire.toIde)
                 /\ x.ops = Append(Frame.wire.ops, Head(Frame.wire.toIde))
                 /\ x.toClient = Frame.wire.toClient /\ x.authed /\ Frame.wire.authed
      BY <1>1, <1>10, <2>2, <3>1 DEF line
    <3>2. \A x \in WireType : x = wire' =>
            \A g : g = [Frame EXCEPT !.wire = x] => FrameOK(g, {}, role, ran, used.calls)
      BY <1>1, <1>13, <3>1, TakenOK
    <3> QED BY <2>1, <3>2
  <2> QED BY <1>1, <2>1, <2>3, StaysIs, WireStepOK DEF IdeReads
<1>11. CASE /\ ~wire.authed /\ line.kind = "auth"
            /\ wire' = [w EXCEPT !.authed = TRUE, !.toClient = Append(@, Line(0, "ok"))]
  <2>1. wire' \in WireType
    BY <1>5, <1>9, <1>11 DEF WireType
  <2>2. /\ wire'.toIde = Tail(wire.toIde) /\ wire'.ops = wire.ops
        /\ wire'.toClient = Append(wire.toClient, Line(0, "ok")) /\ wire'.authed
    BY <1>5, <1>6, <1>11 DEF WireType
  <2>3. \A g : g = [Frame EXCEPT !.wire = wire'] => FrameOK(g, {}, role, ran, used.calls)
    <3>1. ASSUME NEW x \in WireType, x = wire'
          PROVE  /\ x.toIde = Tail(Frame.wire.toIde) /\ x.ops = Frame.wire.ops /\ ~Frame.wire.authed
                 /\ x.authed /\ Head(Frame.wire.toIde).kind = "auth"
                 /\ x.toClient = Append(Frame.wire.toClient, Line(0, "ok"))
      BY <1>1, <1>11, <2>2, <3>1 DEF line
    <3>2. \A x \in WireType : x = wire' =>
            \A g : g = [Frame EXCEPT !.wire = x] => FrameOK(g, {}, role, ran, used.calls)
      BY <1>1, <1>13, <3>1, AdmittedOK
    <3> QED BY <2>1, <3>2
  <2> QED BY <1>1, <2>1, <2>3, StaysIs, WireStepOK DEF IdeReads
<1>12. CASE /\ ~wire.authed
            /\ wire' = [w EXCEPT !.shut = TRUE, !.toClient = Append(@, Line(0, "error"))]
  <2>1. wire' \in WireType
    BY <1>5, <1>9, <1>12 DEF WireType
  <2>2. /\ wire'.toIde = Tail(wire.toIde) /\ wire'.ops = wire.ops /\ ~wire'.authed /\ wire'.shut
        /\ wire'.toClient = Append(wire.toClient, Line(0, "error"))
    BY <1>5, <1>6, <1>12 DEF WireType
  <2>3. \A g : g = [Frame EXCEPT !.wire = wire'] => FrameOK(g, {}, role, ran, used.calls)
    <3>1. ASSUME NEW x \in WireType, x = wire'
          PROVE  /\ x.toIde = Tail(Frame.wire.toIde) /\ x.ops = Frame.wire.ops /\ ~Frame.wire.authed
                 /\ ~x.authed /\ x.shut
                 /\ x.toClient = Append(Frame.wire.toClient, Line(0, "error"))
      BY <1>1, <1>12, <2>2, <3>1 DEF line
    <3>2. \A x \in WireType : x = wire' =>
            \A g : g = [Frame EXCEPT !.wire = x] => FrameOK(g, {}, role, ran, used.calls)
      BY <1>1, <1>13, <3>1, AdmittedOK
    <3> QED BY <2>1, <3>2
  <2> QED BY <1>1, <2>1, <2>3, StaysIs, WireStepOK DEF IdeReads
<1> QED BY <1>7, <1>10, <1>11, <1>12

LEMMA IdeAnswersOK == IInv /\ IdeAnswers => IInv'
<1> SUFFICES ASSUME IInv, IdeAnswers PROVE IInv'
  OBVIOUS
<1>1. /\ role \in {"requests", "events"} /\ FrameOK(Frame, {}, role, ran, used.calls)
      /\ Frame.cl = cl /\ Frame.wire = wire /\ wire \in WireType /\ ran \in Seq(Requests)
  BY StateIs, FrameParts
<1>2. cl.sock = "up" /\ ~wire.shut
  BY DEF IdeAnswers
<1>3. PICK i \in DOMAIN wire.ops, text \in {"ok", "error"} :
        /\ wire' = [wire EXCEPT !.ops = RemoveAt(@, i), !.toClient = @ \o ReplyTo(wire.ops[i], text)]
        /\ ran' = IF wire.ops[i].kind = "watch" THEN ran ELSE Append(ran, wire.ops[i])
  BY DEF IdeAnswers
<1> DEFINE op == wire.ops[i]
<1>4. wire.ops \in Seq(Sendable) /\ wire.toClient \in Seq(Lines) /\ op \in Sendable
  <2>1. wire.ops \in Seq(Sendable) /\ wire.toClient \in Seq(Lines)
    BY <1>1 DEF WireType
  <2> QED BY <2>1, ElementOfSeq
<1> HIDE DEF op
<1>5. ReplyTo(op, text) \in Seq(Lines)
  BY <1>4, ReplyIs
<1>6. RemoveAt(wire.ops, i) \in Seq(Sendable) /\ wire.toClient \o ReplyTo(op, text) \in Seq(Lines)
  BY <1>4, <1>5, RemoveAtIs, ConcatIs
<1>7. wire' = [wire EXCEPT !.ops = RemoveAt(wire.ops, i), !.toClient = wire.toClient \o ReplyTo(op, text)]
  BY <1>3 DEF op
<1>8. wire' \in WireType
  BY <1>1, <1>6, <1>7 DEF WireType
<1>9. /\ wire'.toIde = wire.toIde /\ wire'.ops = RemoveAt(wire.ops, i)
      /\ wire'.toClient = wire.toClient \o ReplyTo(op, text) /\ wire'.authed = wire.authed
  BY <1>1, <1>7 DEF WireType
<1>10. op = wire.ops[i] /\ ran' = IF op.kind = "watch" THEN ran ELSE Append(ran, op)
  BY <1>3 DEF op
<1>11. FrameOK([Frame EXCEPT !.wire = wire'], {}, role, ran', used.calls) /\ ran' \in Seq(Requests)
  <2>1. ASSUME NEW x \in WireType, x = wire'
        PROVE  /\ x.toIde = Frame.wire.toIde /\ x.ops = RemoveAt(Frame.wire.ops, i)
               /\ x.toClient = Frame.wire.toClient \o ReplyTo(Frame.wire.ops[i], text)
               /\ x.authed = Frame.wire.authed
               /\ i \in DOMAIN Frame.wire.ops
               /\ Frame.cl.sock = "up" /\ ~Frame.wire.shut
    BY <1>1, <1>2, <1>9, <1>10, <2>1
  <2>2. ASSUME NEW x \in WireType, x = wire'
        PROVE  /\ FrameOK([Frame EXCEPT !.wire = x], {}, role, Executed(ran, Frame.wire.ops[i]),
                           used.calls)
               /\ Executed(ran, Frame.wire.ops[i]) \in Seq(Requests)
    BY <1>1, <2>1, <2>2, RepliedOK
  <2>3. Executed(ran, Frame.wire.ops[i]) = ran'
    BY <1>1, <1>10 DEF Executed
  <2> QED BY <1>8, <2>2, <2>3
<1>12. ran' \in Seq(Requests)
  BY <1>11
<1>13. role' = role /\ cl' = cl /\ ide' = ide /\ agent' = agent /\ used' = used
  BY DEF IdeAnswers
<1> QED BY <1>8, <1>11, <1>12, <1>13, StaysIs, WireStepOK

LEMMA IdeStartsOK == IInv /\ IdeStarts => IInv'
<1> SUFFICES ASSUME IInv, IdeStarts PROVE IInv'
  OBVIOUS
<1>1. /\ TypeOK /\ FrameOK(Frame, {}, role, ran, used.calls)
  BY StateIs
<1>2. used' \in UsedType /\ used'.calls = used.calls /\ used.starts \in Nat
  BY <1>1, UseIs DEF IdeStarts
<1>3. PICK v \in Versions :
        ide' = [up |-> TRUE, token |-> used.starts + 1, version |-> v,
                file |-> [token |-> used.starts + 1, version |-> v]]
  BY DEF IdeStarts
<1>4. used.starts + 1 \in Nat /\ used.starts + 1 # 0
  BY <1>2
<1>5. ide' \in [up : BOOLEAN, token : Nat, version : Versions \union {0}, file : FileType]
  BY <1>3, <1>4 DEF FileType
<1>6. ide'.file.token # 0
  BY <1>3, <1>4
<1>7. role' = role /\ cl' = cl /\ wire' = wire /\ agent' = agent /\ ran' = ran
  BY DEF IdeStarts
<1>8. TypeOK'
  BY <1>1, <1>2, <1>5, <1>7 DEF TypeOK, UsedType
<1>9. TokensAreReal'
  BY <1>6 DEF TokensAreReal
<1>10. Frame' = Frame
  BY <1>7 DEF Frame
<1>11. FrameOK(Frame', {}, role', ran', used'.calls)
  BY <1>1, <1>2, <1>7, <1>10
<1> QED BY <1>8, <1>9, <1>11 DEF IInv

LEMMA IdeEndsOK == IInv /\ IdeEnds => IInv'
<1> SUFFICES ASSUME IInv, IdeEnds PROVE IInv'
  OBVIOUS
<1>1. /\ role \in {"requests", "events"} /\ FrameOK(Frame, {}, role, ran, used.calls)
      /\ Frame.cl = cl /\ Frame.wire = wire /\ wire \in WireType /\ ran \in Seq(Requests)
      /\ TypeOK /\ TokensAreReal /\ Frame \in FrameType
  BY StateIs, FrameParts
<1>2. role' = role /\ cl' = cl /\ agent' = agent /\ ran' = ran /\ used' = used
  BY DEF IdeEnds
<1>3. ide' \in IdeType /\ TokensAreReal'
  <2>1. PICK file \in {ide.file, NoFile} : ide' = [ide EXCEPT !.up = FALSE, !.file = file]
    BY DEF IdeEnds
  <2>2. ide \in IdeType /\ ide.file \in FileType /\ NoFile \in FileType
    BY <1>1 DEF TypeOK, IdeType, FileType, NoFile
  <2>3. ide' \in IdeType /\ ide'.file = file
    BY <2>1, <2>2 DEF IdeType
  <2> QED BY <1>1, <2>3 DEF TokensAreReal
<1>4. PICK n \in 0..Len(wire.toClient) :
        wire' = IF cl.sock # "up" THEN wire
                ELSE [wire EXCEPT !.shut = TRUE, !.ops = <<>>, !.toClient = SubSeq(@, 1, n)]
  BY DEF IdeEnds
<1>5. CASE cl.sock # "up"
  <2>1. wire' = wire
    BY <1>4, <1>5
  <2>2. [Frame EXCEPT !.wire = wire'] = Frame
    BY <1>1, <2>1 DEF FrameType
  <2>3. \A g : g = [Frame EXCEPT !.wire = wire'] => FrameOK(g, {}, role, ran', used.calls)
    BY <1>1, <1>2, <2>2
  <2> QED BY <1>1, <1>2, <1>3, <2>1, <2>3, StaysIs, WireStepOK
<1>6. CASE cl.sock = "up"
  <2>1. wire' = [wire EXCEPT !.shut = TRUE, !.ops = <<>>, !.toClient = SubSeq(wire.toClient, 1, n)]
    BY <1>4, <1>6
  <2>2. wire.toClient \in Seq(Lines) /\ <<>> \in Seq(Sendable)
    BY <1>1, NothingIs DEF WireType
  <2>3. SubSeq(wire.toClient, 1, n) \in Seq(Lines)
    <3>1. Len(wire.toClient) \in Nat /\ n \in 0..Len(wire.toClient)
      BY <2>2, LenProperties
    <3>2. \A i \in 1 .. n : i \in 1 .. Len(wire.toClient)
      BY <3>1
    <3>3. \A i \in 1 .. n : wire.toClient[i] \in Lines
      BY <2>2, <3>2, ElementOfSeq
    <3> QED BY <3>1, <3>3, <2>2, SubSeqProperties
  <2>4. wire' \in WireType
    BY <1>1, <2>1, <2>2, <2>3 DEF WireType
  <2>5. /\ wire'.toIde = wire.toIde /\ wire'.ops = <<>> /\ wire'.authed = wire.authed
        /\ wire'.shut /\ wire'.toClient = SubSeq(wire.toClient, 1, n)
    BY <1>1, <2>1 DEF WireType
  <2>6. \A g : g = [Frame EXCEPT !.wire = wire'] => FrameOK(g, {}, role, ran, used.calls)
    BY <1>1, <1>6, <2>4, <2>5, HungUpOK
  <2> QED BY <1>1, <1>2, <1>3, <2>4, <2>6, StaysIs, WireStepOK
<1> QED BY <1>5, <1>6

-----------------------------------------------------------------------------
LEMMA NextOK == IInv /\ [Next]_vars => IInv'
<1> SUFFICES ASSUME IInv, [Next]_vars PROVE IInv'
  OBVIOUS
<1>1. CASE Next
  BY <1>1, CallToolOK, CallWatchOK, DialSucceedsOK, DialFailsOK, ReceiveOK, PeerClosedOK,
     ReplyTimesOutOK, WatchTimesOutOK, ReconnectOK, IdeReadsOK, IdeAnswersOK, IdeStartsOK,
     IdeEndsOK DEF Next
<1>2. CASE UNCHANGED vars
  <2>1. Frame' = Frame
    BY <1>2 DEF vars, Frame
  <2>2. /\ role' = role /\ ran' = ran /\ used' = used /\ ide' = ide
    BY <1>2 DEF vars
  <2>3. TypeOK /\ TokensAreReal /\ FrameOK(Frame, {}, role, ran, used.calls)
    BY DEF IInv
  <2>4. FrameOK(Frame', {}, role', ran', used'.calls)
    BY <2>1, <2>2, <2>3
  <2>5. TypeOK' /\ TokensAreReal'
    BY <1>2, <2>3 DEF vars, TypeOK, TokensAreReal
  <2> QED BY <2>4, <2>5 DEF IInv
<1> QED BY <1>1, <1>2

(* The inductive invariant of the link: whatever the agent calls, the IDE   *)
(* does and the timers do, what is queued, in flight, on the wires and      *)
(* executed fits together (src/src/control/mcp/ControlClient.cpp).          *)
THEOREM Invariance == Spec => []IInv
<1>1. Init => IInv
  BY InitOK
<1>2. IInv /\ [Next]_vars => IInv'
  BY NextOK
<1> QED BY <1>1, <1>2, PTL DEF Spec

(* The client's, the server's and the IDE's state keep their types.         *)
THEOREM TypeCorrect == Spec => []TypeOK
<1>1. IInv => TypeOK
  BY DEF IInv
<1> QED BY <1>1, Invariance, PTL

LEMMA HeldIsCounted == IInv => OpenCallsAreHeld
<1> SUFFICES ASSUME IInv, NEW c \in Calls
             PROVE  Cardinality({i \in DOMAIN cl.queue : cl.queue[i].call = c})
                      + (IF cl.flight.call = c THEN 1 ELSE 0)
                        = IF agent.calls[c] = "open" THEN 1 ELSE 0
  BY DEF OpenCallsAreHeld
<1> DEFINE S == {i \in DOMAIN cl.queue : cl.queue[i].call = c}
<1>1. HeldOnce(Frame, {}) /\ Frame.cl = cl /\ Frame.agent = agent
  BY StateIs, FrameParts DEF FrameOK
<1>2. Queued(Frame) = {cl.queue[i].call : i \in DOMAIN cl.queue}
  BY FrameParts DEF Queued
<1>3. CASE c \in Queued(Frame)
  <2>1. PICK i \in DOMAIN cl.queue : cl.queue[i].call = c
    BY <1>2, <1>3
  <2>2. \A j \in DOMAIN cl.queue : cl.queue[j].call = c => j = i
    BY <1>1, <2>1 DEF HeldOnce
  <2>3. S = {i}
    BY <2>1, <2>2
  <2>4. Cardinality(S) = 1
    BY <2>3, FS_Singleton
  <2>5. cl.flight.call # c /\ agent.calls[c] = "open"
    BY <1>1, <1>3 DEF HeldOnce
  <2> QED BY <2>4, <2>5
<1>4. CASE c \notin Queued(Frame)
  <2>1. S = {}
    BY <1>2, <1>4
  <2>2. Cardinality(S) = 0
    BY <2>1, FS_EmptySet
  <2>3. agent.calls[c] = "open" <=> cl.flight.call = c
    BY <1>1, <1>4 DEF HeldOnce
  <2> QED BY <2>2, <2>3
<1> QED BY <1>3, <1>4

(* However often the IDE dies, comes back with another token or does not    *)
(* answer, an open tool call is held exactly once and no request is         *)
(* executed twice: the queue that survives a reconnection and the request   *)
(* that a lost connection fails never overlap.                              *)
THEOREM OpenCallsRunOnce == Spec => []CallsRunOnce
<1>1. IInv => NothingRunsTwice
  BY StateIs DEF FrameOK, SentOnce, NothingRunsTwice
<1>2. IInv => CallsRunOnce
  BY <1>1, HeldIsCounted DEF CallsRunOnce
<1> QED BY <1>2, Invariance, PTL

(* Replies carry no name; yet an answer is made of the lines of its own     *)
(* request's reply, for every call on whose connection none was given up.   *)
THEOREM RepliesAreOwn == Spec => []ReplyIsOwnUnlessLate
<1>1. IInv => ReplyIsOwnUnlessLate
  <2> SUFFICES ASSUME IInv PROVE ReplyIsOwnUnlessLate
    OBVIOUS
  <2>1. OwnAnswers(Frame) /\ Frame.agent = agent
    BY StateIs, FrameParts DEF FrameOK
  <2> QED BY <2>1 DEF OwnAnswers, ReplyIsOwnUnlessLate
<1> QED BY <1>1, Invariance, PTL
=============================================================================

--------------------------- MODULE RemoteControl ---------------------------
(***************************************************************************)
(* What waits for the debugger in a nested event loop: the verbs of        *)
(* RemoteControl, the captures of MainWindow, and the script that          *)
(* StopHookRunner runs at a stop.  `loops` is the stack of those loops,    *)
(* the innermost last: an answer reaches every loop that listens for it,   *)
(* but only the innermost can return to its caller.                        *)
(*                                                                         *)
(* The transport under them is a lane of requests that are answered in     *)
(* order while the machine is stopped (NativeTransport and HrdbTransport   *)
(* have it in detail).  A handler is a function on a frame, the state it   *)
(* may change; Commit makes the frame the next state.                      *)
(***************************************************************************)
EXTENDS Integers, Sequences, FiniteSets, SequencesExt

CONSTANTS
  Clients,      \* connections that have presented the token
  Requests,     \* what they may send: a verb and the debugger requests it makes
  Script,       \* the operations of the stop hook's script
  MaxLines,     \* bound: lines sent, over all connections
  MaxEvents,    \* bound: what the user does, further stops, hang-ups
  MaxTimeouts   \* bound: waits given up while an answer is still to be had

Verbs == {"cmd", "readmem", "memmark", "capture", "continue", "stop"}

ASSUME RequestsAssumption ==
  /\ Requests \subseteq [verb : Verbs, todo : Seq({"info", "m1", "m2"})]
  /\ \A r \in Requests : r.verb \in {"continue", "stop"} \/ r.todo # <<>>
  /\ Script \in Seq({"read", "write", "reg"})
  /\ {MaxLines, MaxEvents, MaxTimeouts} \subseteq Nat

VARIABLES
  conns,   \* per connection: is it up, its lines still to execute, the replies it is owed
  ide,     \* RemoteControl's m_busy and memory mark; MainWindow's pending command and state
  dbg,     \* the session and its lane
  loops,   \* nested event loops, the innermost last
  hook,    \* StopHookRunner; `lost`: m_running was left set
  loose,   \* requests whose answer nobody waits for any more
  used     \* against the bounds

vars == <<conns, ide, dbg, loops, hook, loose, used>>

-----------------------------------------------------------------------------
NoAnswer == [id |-> 0, by |-> "none", stop |-> 0, key |-> "none", late |-> FALSE]

(* A session at its first stop, whose state has been asked for.             *)
Init ==
  /\ conns = [c \in Clients |-> [up |-> TRUE, posted |-> <<>>, owed |-> 0]]
  /\ ide = [busy |-> FALSE, pending |-> "none", seen |-> 0, published |-> 0,
            mark |-> [bytes |-> 0, pc |-> 0]]
  /\ dbg = [live |-> TRUE, stopped |-> TRUE, going |-> FALSE, stop |-> 1,
            lane |-> <<[key |-> "state", tag |-> "state", by |-> "ide", id |-> 1]>>]
  /\ loops = <<>>
  /\ hook = [set |-> TRUE, queued |-> FALSE, running |-> FALSE, lost |-> FALSE,
             at |-> 1, dirty |-> FALSE, wrote |-> FALSE]
  /\ loose = {}
  /\ used = [lines |-> 0, events |-> 0, timeouts |-> 0]

Frame == [conns |-> conns, ide |-> ide, dbg |-> dbg, loops |-> loops, hook |-> hook,
          loose |-> loose]

Commit(f) ==
  /\ conns' = f.conns /\ ide' = f.ide /\ dbg' = f.dbg /\ loops' = f.loops
  /\ hook' = f.hook /\ loose' = f.loose

Use(counter, bound) == used[counter] < bound /\ used' = [used EXCEPT ![counter] = @ + 1]

Texts == {"info"}

-----------------------------------------------------------------------------
(* The lane.                                                                *)

InLane(f) == {f.dbg.lane[i].id : i \in DOMAIN f.dbg.lane}

Ids(f) == InLane(f) \union {f.loops[i].mine : i \in DOMAIN f.loops}

FreshId(f) == Min(1..(Cardinality(Ids(f)) + 1) \ Ids(f))

(* enqueue(): without a session it is an error message and nothing else.    *)
Enqueue(f, key, tag, by) ==
  IF ~f.dbg.live THEN f
  ELSE [f EXCEPT !.dbg.lane = Append(@, [key |-> key, tag |-> tag, by |-> by, id |-> FreshId(f)])]

(* resume(): what is in flight is answered first, the rest is dropped.      *)
Resume(f) ==
  IF ~f.dbg.stopped \/ f.dbg.going THEN f
  ELSE IF f.dbg.lane = <<>> THEN [f EXCEPT !.dbg.stopped = FALSE]
  ELSE [f EXCEPT !.dbg.lane = <<Head(@)>>, !.dbg.going = TRUE,
                 !.loose = @ \intersect {Head(f.dbg.lane).id}]

(* Fault: the stopped state outlives the session.                           *)
EndSession_StillStopped(f) ==
  IF ~f.dbg.live THEN f
  ELSE [f EXCEPT !.dbg.live = FALSE, !.dbg.going = FALSE, !.dbg.lane = <<>>, !.loose = {}]

(* stop(), and clearSessionViews() behind it.                               *)
EndSession(f) ==
  IF ~f.dbg.live THEN f
  ELSE [f EXCEPT !.dbg.live = FALSE, !.dbg.stopped = FALSE, !.dbg.going = FALSE,
                 !.dbg.lane = <<>>, !.loose = {}, !.ide.pending = "none"]

-----------------------------------------------------------------------------
(* Waiting: a request is made and a loop entered.                           *)

Wait(f, w) ==
  LET g == CASE w.key \in Texts -> Enqueue([f EXCEPT !.ide.pending = w.key], w.key, "cmd", w.kind)
             [] w.kind = "hook" -> Enqueue(f, w.key, IF w.key = "reg" THEN "state" ELSE "hook", "hook")
             [] OTHER           -> Enqueue(f, w.key, "memory", w.kind)
  IN  [g EXCEPT !.loops = Append(@, [w EXCEPT !.mine = FreshId(f), !.got = NoAnswer,
                                              !.done = FALSE])]

NewWait(kind, c, req) ==
  [kind |-> kind, conn |-> c, verb |-> req.verb, key |-> Head(req.todo),
   todo |-> Tail(req.todo), mine |-> 0, got |-> NoAnswer, done |-> FALSE, stops |-> {}]

(* Fault: the address of a dump is not compared.                            *)
Hears_AnyAddress(w, e, pending) ==
  IF w.kind = "hook"
  THEN \/ w.key = "read" /\ e.tag = "hook" /\ e.key = "read"
       \/ w.key = "write" /\ e.tag = "hook" /\ e.key = "write"
       \/ w.key = "reg" /\ e.tag = "state"
  ELSE IF w.key \in Texts THEN e.key = w.key /\ e.tag = "cmd" /\ pending = e.key
       ELSE e.tag = "memory"

(* Whose wait an answer satisfies.  A verb or a capture knows its dump by   *)
(* the address and its command by the text; the script its dump by the tag, *)
(* its write by the text, and any state is the registers it has asked for.  *)
Hears(w, e, pending) ==
  IF w.kind = "hook"
  THEN \/ w.key = "read" /\ e.tag = "hook" /\ e.key = "read"
       \/ w.key = "write" /\ e.tag = "hook" /\ e.key = "write"
       \/ w.key = "reg" /\ e.tag = "state"
  ELSE /\ e.key = w.key
       /\ IF w.key \in Texts THEN e.tag = "cmd" /\ pending = e.key ELSE e.tag = "memory"

AnswerTo(e, f) ==
  [id |-> e.id, by |-> e.by, stop |-> f.dbg.stop, key |-> e.key, late |-> e.id \in f.loose]

(* The script's read ends with any command.                                 *)
Heard(w, e, f) ==
  IF Hears(w, e, f.ide.pending) THEN [w EXCEPT !.got = AnswerTo(e, f), !.done = TRUE]
  ELSE IF w.kind = "hook" /\ w.key = "read" THEN [w EXCEPT !.done = TRUE] ELSE w

-----------------------------------------------------------------------------
(* The stop hook.                                                           *)

(* onStopPublished().                                                       *)
OnStopPublished(f) ==
  IF ~f.hook.set \/ f.hook.running THEN f
  ELSE [f EXCEPT !.hook.queued = TRUE, !.hook.dirty = FALSE]

(* Fault: the end of a run does not reset m_running.                        *)
HookEnd_StaysSet(f, continues) == IF continues THEN Resume(f) ELSE f

(* The end of doRun(): one refresh for what was written, then the continue. *)
HookEnd(f, continues) ==
  LET g == IF f.hook.wrote THEN Enqueue(f, "state", "state", "ide") ELSE f
      h == [g EXCEPT !.hook.running = FALSE]
  IN  IF continues THEN Resume(h) ELSE h

(* The script goes on to its next operation that needs the debugger.        *)
HookGoOn(f, continues) ==
  LET needs == {i \in f.hook.at..Len(Script) : Script[i] # "reg" \/ f.hook.dirty}
      i == CHOOSE k \in needs : \A l \in needs : k <= l
  IN  IF needs = {} \/ ~f.dbg.stopped THEN HookEnd(f, continues)
      ELSE Wait([f EXCEPT !.hook.at = i + 1],
                NewWait("hook", "none", [verb |-> "hook", todo |-> <<Script[i]>>]))

(* An operation has its result; an error ends the script or is caught.      *)
HookReturns(f, w, caught, continues) ==
  LET ok == w.got # NoAnswer
      g == CASE ok /\ w.key = "write" -> [f EXCEPT !.hook.dirty = TRUE, !.hook.wrote = TRUE]
             [] ok /\ w.key = "reg"   -> [f EXCEPT !.hook.dirty = FALSE]
             [] OTHER                 -> f
  IN  IF ok \/ caught THEN HookGoOn(g, continues) ELSE HookEnd(g, continues)

-----------------------------------------------------------------------------
(* The verbs.                                                               *)

Reply(f, c) == [f EXCEPT !.conns[c].owed = @ - 1]

(* Fault: reads do not look whether another operation waits.                *)
Execute_Ungated(f, c, req) ==
  CASE req.verb = "continue" -> Reply(Resume(f), c)
    [] req.verb = "stop"     -> Reply(EndSession(f), c)
    [] req.verb = "capture" /\ (f.ide.busy \/ ~f.dbg.stopped) -> Reply(f, c)
    [] OTHER -> Wait([f EXCEPT !.ide.busy = TRUE], NewWait("remote", c, req))

(* execute().                                                               *)
Execute(f, c, req) ==
  CASE req.verb = "continue" -> Reply(Resume(f), c)
    [] req.verb = "stop"     -> Reply(EndSession(f), c)
    [] req.verb \notin {"continue", "stop"}
         /\ (f.ide.busy \/ (req.verb = "capture" /\ ~f.dbg.stopped)) -> Reply(f, c)
    [] OTHER -> Wait([f EXCEPT !.ide.busy = TRUE], NewWait("remote", c, req))

(* Fault: only an answer ends the operation.                                *)
Finish_OnlyAnswered(f, w) ==
  IF w.kind = "user" \/ w.got = NoAnswer THEN f
  ELSE Reply([f EXCEPT !.ide.busy = FALSE], w.conn)

(* The reply of a verb; a capture of the user ends with a file.             *)
Finish(f, w) ==
  LET g == Reply([f EXCEPT !.ide.busy = FALSE], w.conn)
  IN  CASE w.kind = "user" -> f
        [] w.kind # "user" /\ w.verb = "memmark" /\ w.got # NoAnswer ->
             [g EXCEPT !.ide.mark = [bytes |-> w.got.stop, pc |-> f.ide.seen]]
        [] OTHER -> g

WaitReturns(f, w) ==
  IF w.got = NoAnswer \/ w.todo = <<>> THEN Finish(f, w)
  ELSE Wait(f, [w EXCEPT !.key = Head(w.todo), !.todo = Tail(@), !.stops = @ \union {w.got.stop}])

-----------------------------------------------------------------------------
(* What happens.                                                            *)

Send(c) ==
  /\ conns[c].up /\ Use("lines", MaxLines)
  /\ \E r \in Requests :
       conns' = [conns EXCEPT ![c].posted = Append(@, r), ![c].owed = @ + 1]
  /\ UNCHANGED <<ide, dbg, loops, hook, loose>>

(* A line runs on a fresh dispatch, inside whatever loop is waiting; for a  *)
(* peer that has gone it does not.                                          *)
ExecuteNext(c) ==
  /\ conns[c].posted # <<>>
  /\ LET f == [Frame EXCEPT !.conns[c].posted = Tail(@)]
     IN  Commit(IF conns[c].up THEN Execute(f, c, Head(conns[c].posted)) ELSE Reply(f, c))
  /\ UNCHANGED used

Hangup(c) ==
  /\ conns[c].up /\ Use("events", MaxEvents)
  /\ conns' = [conns EXCEPT ![c].up = FALSE]
  /\ UNCHANGED <<ide, dbg, loops, hook, loose>>

(* captureScreen(), captureDma(): from the menu, without a look at m_busy.  *)
UserCaptures ==
  /\ dbg.stopped /\ Use("events", MaxEvents)
  /\ \E r \in Requests :
       /\ r.verb = "capture"
       /\ Commit(Wait(Frame, NewWait("user", "none", r)))

(* sendConsoleCommand(): held while a script runs.                          *)
UserTypes ==
  /\ dbg.live /\ (hook.running => hook.lost) /\ Use("events", MaxEvents)
  /\ \E text \in Texts : Commit(Enqueue(Frame, text, "cmd", "console"))

UserContinues ==
  /\ dbg.stopped /\ ~dbg.going /\ Use("events", MaxEvents)
  /\ Commit(Resume(Frame))

(* The front of the lane is answered; `state` is published once a stop.     *)
Serve ==
  /\ dbg.stopped /\ dbg.lane # <<>>
  /\ LET e == Head(dbg.lane)
         f == [Frame EXCEPT
                 !.dbg.lane = Tail(@), !.dbg.going = @ /\ Len(dbg.lane) > 1,
                 !.dbg.stopped = ~(dbg.going /\ Len(dbg.lane) = 1),
                 !.loose = @ \ {e.id},
                 !.loops = [i \in DOMAIN @ |-> Heard(@[i], e, Frame)],
                 !.ide.pending = IF e.tag = "cmd" /\ @ = e.key THEN "none" ELSE @,
                 !.ide.seen = IF e.tag = "state" THEN dbg.stop ELSE @]
     IN  IF e.tag = "state" /\ ide.published # dbg.stop
         THEN Commit(OnStopPublished([f EXCEPT !.ide.published = dbg.stop]))
         ELSE Commit(f)
  /\ UNCHANGED used

(* The machine stops again, and its state is asked for.                     *)
MachineStops ==
  /\ dbg.live /\ ~dbg.stopped /\ Use("events", MaxEvents)
  /\ Commit(Enqueue([Frame EXCEPT !.dbg.stopped = TRUE, !.dbg.stop = @ + 1],
                    "state", "state", "ide"))

(* The project's settings are changed between a stop and its script.        *)
SettingChanges ==
  /\ Use("events", MaxEvents)
  /\ hook' = [hook EXCEPT !.set = ~@]
  /\ UNCHANGED <<conns, ide, dbg, loops, loose>>

(* runQueued(), doRun(): without a path it returns with m_running set.      *)
RunQueued(f, continues) ==
  LET g == [f EXCEPT !.hook.queued = FALSE]
      h == [g EXCEPT !.hook.running = TRUE, !.hook.at = 1, !.hook.wrote = FALSE]
  IN  CASE g.hook.running \/ ~g.dbg.stopped -> g
        [] ~g.hook.running /\ g.dbg.stopped /\ ~g.hook.set -> [h EXCEPT !.hook.lost = TRUE]
        [] OTHER -> HookGoOn(h, continues)

HookRuns ==
  /\ hook.queued
  /\ \E continues \in BOOLEAN : Commit(RunQueued(Frame, continues))
  /\ UNCHANGED used

(* The time-out of a loop, ten seconds or the script's: at any moment, but  *)
(* counted while the answer may still come.                                 *)
TimeOut ==
  \E i \in DOMAIN loops :
    /\ ~loops[i].done
    /\ IF dbg.stopped /\ loops[i].mine \in InLane(Frame) THEN Use("timeouts", MaxTimeouts)
       ELSE UNCHANGED used
    /\ loops' = [loops EXCEPT ![i].done = TRUE]
    /\ loose' = loose \union ({loops[i].mine} \intersect InLane(Frame))
    /\ UNCHANGED <<conns, ide, dbg, hook>>

(* The innermost loop returns to its caller.                                *)
Return ==
  /\ loops # <<>> /\ Last(loops).done
  /\ \E caught, continues \in BOOLEAN :
       LET w == Last(loops)
           f == [Frame EXCEPT !.loops = Front(@),
                              !.loose = @ \union ({w.mine} \intersect InLane(Frame))]
       IN  Commit(IF w.kind = "hook" THEN HookReturns(f, w, caught, continues)
                  ELSE WaitReturns(f, w))
  /\ UNCHANGED used

Next ==
  \/ \E c \in Clients : Send(c) \/ ExecuteNext(c) \/ Hangup(c)
  \/ UserCaptures \/ UserTypes \/ UserContinues \/ Serve \/ MachineStops \/ SettingChanges
  \/ HookRuns \/ TimeOut \/ Return

Spec == Init /\ [][Next]_vars

-----------------------------------------------------------------------------
Waiting(kind) == {i \in DOMAIN loops : loops[i].kind = kind}

Connections == [up : BOOLEAN, posted : Seq(Requests), owed : Nat]

IdeType ==
  [busy : BOOLEAN, pending : Texts \union {"none"}, seen : Nat, published : Nat,
   mark : [bytes : Nat, pc : Nat]]

Keys == {"state", "info", "m1", "m2", "read", "write", "reg"}

Entries ==
  [key : Keys, tag : {"state", "cmd", "hook", "memory"},
   by : {"ide", "console", "user", "remote", "hook"}, id : Nat]

DbgType ==
  [live : BOOLEAN, stopped : BOOLEAN, going : BOOLEAN, stop : Nat, lane : Seq(Entries)]

Answers ==
  [id : Nat, by : {"none", "ide", "console", "user", "remote", "hook"}, stop : Nat,
   key : Keys \union {"none"}, late : BOOLEAN]

Waits ==
  {w \in [kind : {"user", "remote", "hook"}, conn : Clients \union {"none"},
          verb : Verbs \union {"hook"}, key : Keys, todo : Seq({"info", "m1", "m2"}),
          mine : Nat, got : Answers, done : BOOLEAN, stops : SUBSET Nat] :
     w.kind = "remote" => w.conn \in Clients}

HookType ==
  [set : BOOLEAN, queued : BOOLEAN, running : BOOLEAN, lost : BOOLEAN,
   at : 1..(Len(Script) + 1), dirty : BOOLEAN, wrote : BOOLEAN]

(* The server's, the session's and the runner's state keep their types: no  *)
(* connection is sent more replies than it sent lines.                      *)
TypeOK ==
  /\ conns \in [Clients -> Connections] /\ ide \in IdeType /\ dbg \in DbgType
  /\ loops \in Seq(Waits) /\ hook \in HookType /\ loose \subseteq Nat
  /\ used \in [lines : 0..MaxLines, events : 0..MaxEvents, timeouts : 0..MaxTimeouts]

(* One operation of the remote control waits at a time, whichever           *)
(* connection asked for it, and m_busy is set exactly while it does.        *)
BusyIsOneWait == Cardinality(Waiting("remote")) = IF ide.busy THEN 1 ELSE 0

(* Every reply a client is owed has a line still to run or a wait, which    *)
(* its timer ends: no way out of an operation forgets the reply.            *)
RepliesAreToCome ==
  \A c \in Clients :
    conns[c].owed = Len(conns[c].posted) + Cardinality({i \in Waiting("remote") : loops[i].conn = c})

(* Only a script that waits is running: the next stop finds the hook free.  *)
HookWaits == hook.running /\ ~hook.lost => Waiting("hook") # {}

(* Every wait is somebody's: one for the busy flag, one for a script that   *)
(* runs, one for each reply that is owed and not yet a line to run.         *)
WaitsAreAccounted == BusyIsOneWait /\ HookWaits /\ RepliesAreToCome

OwnOrRepeated(w) ==
  \/ w.kind = "user" \/ w.got.id = w.mine
  \/ w.got.key = w.key /\ (w.got.late \/ w.got.by # w.kind)
  \/ w.key = "reg" /\ w.got.key = "state"

Answered == loops # <<>> /\ Last(loops).done /\ Last(loops).got # NoAnswer

(* What a verb or the script takes for its answer is the answer to its own  *)
(* request; or to one of the same address or text that somebody else made,  *)
(* or that had been given up.  The registers come with any state.           *)
AnswerIsOwnUnlessRepeated == [][Return /\ Answered => OwnOrRepeated(Last(loops))]_vars

-----------------------------------------------------------------------------
(* What fails.                                                              *)

(* memmark stores "the bytes now at that span, plus the stop's PC".         *)
MarkIsOfItsStop == ide.mark.bytes = ide.mark.pc

(* A capture is of one stop.                                                *)
CaptureIsOfOneStop ==
  [][Return /\ Answered /\ Last(loops).verb = "capture" /\ Last(loops).todo = <<>>
       => Last(loops).stops \subseteq {Last(loops).got.stop}]_vars

(* "a stale answer (a read whose verb already timed out) cannot satisfy     *)
(* this waiter".                                                            *)
AnswerIsOwn ==
  [][Return /\ Answered /\ Last(loops).kind = "remote"
       => Last(loops).got.id = Last(loops).mine]_vars

(* A hook that is not waiting for the debugger does not run.                *)
HookIsFreed == hook.running => Waiting("hook") # {}
=============================================================================

---------------------------- MODULE HrdbTransport ----------------------------
(***************************************************************************)
(* The HRDB debug transport, src/src/emu/HrdbBackend.cpp, composed with    *)
(* the Hatari fork it drives over TCP port 56001 (external: modelled from  *)
(* what HrdbBackend sends and from how it reads what comes back).          *)
(*                                                                         *)
(* One command is outstanding at a time.  Its reply, and the `!status` and *)
(* `!connected` notifications, share one ordered stream; the text a        *)
(* command prints comes back on the process's stderr, flushed before the   *)
(* reply, and only the answer to a console request that was not refused    *)
(* reads it.  Unlike the native debugger the fork serves commands while    *)
(* the program runs, so the host itself holds back those that need a       *)
(* stopped machine, and may send others past them.                         *)
(*                                                                         *)
(* A handler runs while pc = "loop" and most end in dispatchNext(): pc =   *)
(* "dispatch" is the point before that call, where the signals the handler *)
(* emitted may already have made new requests.  Two handlers have work     *)
(* left after they report a failed command: pc = "expired" and "closing"   *)
(* are those points, and a request made there goes out at once.            *)
(***************************************************************************)
EXTENDS Integers, Sequences, FiniteSets, SequencesExt

CONSTANTS
  MaxCmds,      \* bound: requests accepted over all sessions
  MaxSessions,  \* bound: calls of start()
  MaxDrops,     \* bound: connections the fork or the system resets
  Watchdog,     \* kCommandTimeoutMs may expire before a reply
  Foreign,      \* another program may hold port 56001
  Offered,      \* the kinds of requests that are made
  Listeners     \* whether listeners answer a failed command with a new request

ASSUME BoundsAssumption ==
  MaxCmds \in Nat /\ MaxSessions \in Nat /\ MaxDrops \in Nat
ASSUME SettingAssumption ==
  Watchdog \in BOOLEAN /\ Foreign \in BOOLEAN /\ Listeners \subseteq BOOLEAN

VARIABLES
  \* HrdbBackend
  proc,      \* m_process: "none", "running", or "exited" (finished, not stopped)
  pc,
  ready,     \* m_ready: the handshake is done
  stopped,   \* m_stopped
  queue,     \* m_queue
  current,   \* m_current when m_haveCurrent, else NoCmd
  owed,      \* m_owedReply
  tail,      \* m_stderrText past m_stderrConsumed: the commands that printed it
  \* The fork and the channels
  alive,
  machine,   \* "run", "stopped" (remote break loop), "leaving" (run was served)
  link,      \* the socket: "closed", "open", or "lost" (not yet noticed)
  toFork, toHost,
  pipe,      \* stderr, unread: the commands that printed it
  \* Bookkeeping
  reentrant, \* whether they do in this behaviour
  sessions, drops, nextId,
  answer,    \* the last commandFinished
  executed,  \* requests the fork has executed in this session
  late,      \* a reply was owed in this session
  spilled    \* commands answered without their text, which the pipe may still hold

hostVars  == <<ready, stopped, queue, current, owed, tail>>
forkVars  == <<alive, machine, link, toFork, toHost, pipe>>
boundVars == <<reentrant, sessions, drops, nextId>>
vars == <<proc, pc, hostVars, forkVars, boundVars, answer, executed, late, spilled>>

-----------------------------------------------------------------------------
(* A request by what its intent states.  An arm (`bp`) and a clear (a       *)
(* console request that is kept) wait for a stop and survive a resume; a    *)
(* query (registers, memory) and a read (a console request) wait and do     *)
(* not; a once goes out at any time and survives; a poke (a step, a byte    *)
(* written) and an insert (a floppy image, which the console runs) go out   *)
(* at any time and do not.                                                  *)
Kinds == {"arm", "clear", "query", "read", "once", "poke", "insert"}
ASSUME OfferedAssumption == Offered \subseteq Kinds

Requests == [id : Nat, kind : Kinds \union {"run", "break"}, after : SUBSET Nat]
NoCmd    == [id |-> 0, kind |-> "none", after |-> {}]

(* `after` is what a run was queued behind: the arms it must not overtake.  *)
Request(id, kind)  == [id |-> id, kind |-> kind, after |-> {}]
RunRequest(id, set) == [id |-> id, kind |-> "run", after |-> set]

NeedsStop(r) == r.kind \in {"arm", "clear", "query", "read"}
Keeps(r)     == r.kind \in {"arm", "clear", "once"}
Captures(r)  == r.kind \in {"clear", "read", "insert"}   \* captureStderr: a console request
Prints(r)    == Captures(r) \/ r.kind \in {"arm", "once", "poke"}

Have == current # NoCmd
\* What a resume leaves of a queue, in its order.
KeptUpTo(q, i) == Cardinality({j \in 1 .. i : Keeps(q[j])})
Kept(q) == [k \in 1 .. KeptUpTo(q, Len(q)) |->
              q[CHOOSE i \in DOMAIN q : Keeps(q[i]) /\ KeptUpTo(q, i) = k]]
KeptIds(reqs) == {r.id : r \in {q \in reqs : Keeps(q)}}
InHand(q) == Range(q) \union {current}

Hello(ok)    == [type |-> "hello",  id |-> 0,  flag |-> ok]
Status(s)    == [type |-> "status", id |-> 0,  flag |-> s]
Reply(id, ok) == [type |-> "reply", id |-> id, flag |-> ok]

Init ==
  /\ proc = "none" /\ pc = "loop"
  /\ ready = FALSE /\ stopped = FALSE /\ queue = <<>> /\ current = NoCmd
  /\ owed = FALSE /\ tail = {}
  /\ alive = FALSE /\ machine = "run" /\ link = "closed"
  /\ toFork = <<>> /\ toHost = <<>> /\ pipe = {}
  /\ reentrant \in Listeners
  /\ sessions = 0 /\ drops = 0 /\ nextId = 1
  /\ answer = [id |-> 0, reply |-> 0, lines |-> {}]
  /\ executed = {} /\ late = FALSE /\ spilled = {}

-----------------------------------------------------------------------------
(* Session life.                                                            *)

Answer(reply, lines) ==
  answer' = [id |-> current.id, reply |-> reply, lines |-> lines]

(* Fault: the command in flight is let fall (finding 11).                   *)
FailInFlight_Dropped == UNCHANGED answer

(* What is in flight when the channel or the process dies is answered, with *)
(* nothing: its caller is waiting for commandFinished.                      *)
FailInFlight == IF Have THEN Answer(current.id, {}) ELSE UNCHANGED answer

(* stop(), as an operator: the queue goes unanswered.                       *)
EndSession ==
  /\ proc' = "none" /\ alive' = FALSE
  /\ ready' = FALSE /\ stopped' = FALSE
  /\ queue' = <<>> /\ current' = NoCmd /\ owed' = FALSE
  /\ link' = "closed" /\ toFork' = <<>> /\ machine' = "run"
  /\ tail' = {} /\ pipe' = {} /\ executed' = {} /\ late' = FALSE
  /\ spilled' = {}

Start ==
  /\ sessions < MaxSessions /\ pc = "loop"
  /\ sessions' = sessions + 1
  /\ proc' = "running" /\ alive' = TRUE /\ machine' = "run"
  /\ ready' = FALSE /\ stopped' = FALSE
  /\ queue' = <<>> /\ current' = NoCmd /\ owed' = FALSE
  /\ link' = "closed" /\ toFork' = <<>> /\ toHost' = <<>>
  /\ tail' = {} /\ pipe' = {} /\ executed' = {} /\ late' = FALSE
  /\ spilled' = {}
  /\ UNCHANGED <<pc, reentrant, drops, nextId, answer>>

Stop ==
  /\ proc # "none" /\ pc = "loop"
  /\ EndSession /\ toHost' = <<>>
  /\ UNCHANGED <<pc, boundVars, answer>>

(* The retry timer, which runs until the handshake.  The fork greets and    *)
(* reports the machine's state as it accepts.                               *)
Connect ==
  /\ pc = "loop" /\ proc = "running" /\ alive /\ link = "closed" /\ ~ready
  /\ link' = "open"
  /\ \E ok \in IF Foreign THEN BOOLEAN ELSE {TRUE} :
       toHost' = <<Hello(ok), Status(machine = "stopped")>>
  /\ toFork' = <<>>
  /\ UNCHANGED <<proc, pc, hostVars, alive, machine, pipe, boundVars, answer, executed, late, spilled>>

(* Fault: the deadline counts from the connection.                          *)
HandshakeTimeout_OnceConnected ==
  /\ pc = "loop" /\ proc = "running" /\ ~ready /\ link # "closed"
  /\ EndSession /\ toHost' = <<>>
  /\ UNCHANGED <<pc, boundVars, answer>>

HandshakeTimeout ==
  /\ pc = "loop" /\ proc = "running" /\ ~ready
  /\ EndSession /\ toHost' = <<>>
  /\ UNCHANGED <<pc, boundVars, answer>>

(* The process's finished signal: it may come before what is left in the    *)
(* socket is read.                                                          *)
ProcessFinished ==
  /\ pc = "loop" /\ proc = "running" /\ ~alive
  /\ proc' = "exited"
  /\ ready' = FALSE /\ stopped' = FALSE /\ queue' = <<>>
  /\ FailInFlight
  /\ current' = NoCmd
  /\ UNCHANGED <<pc, owed, tail, forkVars, boundVars, executed, late, spilled>>

(* The socket's disconnected signal, once what it delivered has been read:  *)
(* the command in flight is failed first.                                   *)
Disconnected ==
  /\ pc = "loop" /\ proc = "running" /\ link = "lost" /\ toHost = <<>>
  /\ FailInFlight
  /\ current' = NoCmd
  /\ pc' = "closing"
  /\ UNCHANGED <<proc, ready, stopped, queue, owed, tail, forkVars, boundVars, executed, late, spilled>>

(* Before the handshake the fork may still start to listen: the retry timer *)
(* goes on.  After it, or when the process is gone, the session ends.       *)
AfterDisconnect ==
  /\ pc = "closing" /\ pc' = "loop"
  /\ \/ /\ ~ready /\ alive
        /\ link' = "closed"
        /\ UNCHANGED <<proc, ready, stopped, queue, current, owed, tail, alive, machine, toFork,
                       toHost, pipe, executed, late, spilled>>
     \/ /\ ready \/ ~alive
        /\ EndSession /\ UNCHANGED toHost
  /\ UNCHANGED <<boundVars, answer>>

-----------------------------------------------------------------------------
(* Requests.  The caller may be a handler of a signal the host is emitting, *)
(* so a request does not wait for pc = "loop".                              *)

Sending  == [loop |-> "dispatch", dispatch |-> "dispatch",
             expired |-> "expiredSend", expiredSend |-> "expiredSend",
             closing |-> "closingSend", closingSend |-> "closingSend"]
Returning == [dispatch |-> "loop", expiredSend |-> "expired", closingSend |-> "closing"]

Accept(reqs) ==
  /\ proc = "running" /\ nextId + Len(reqs) <= MaxCmds + 1
  /\ pc \in {"loop", "dispatch"} \/ reentrant
  /\ nextId' = nextId + Len(reqs)
  /\ pc' = Sending[pc]
  /\ UNCHANGED <<proc, ready, stopped, current, owed, tail, forkVars, reentrant, sessions, drops,
                 answer, executed, late, spilled>>

(* enqueue(), for every intent.                                             *)
Enqueue(kind) ==
  LET reqs == <<Request(nextId, kind)>> IN
  Accept(reqs) /\ queue' = queue \o reqs

(* refresh(): the registers and the disassembly, queued as one batch.       *)
Refresh ==
  LET reqs == <<Request(nextId, "query"), Request(nextId + 1, "read")>> IN
  Accept(reqs) /\ queue' = queue \o reqs

(* Fault: the run goes to the head of the queue.                            *)
Resume_AtHead ==
  /\ stopped
  /\ LET reqs == <<RunRequest(nextId, KeptIds(InHand(queue)))>> IN
     Accept(reqs) /\ queue' = reqs \o Kept(queue)

(* resume(): reads are dropped, and the run goes behind what is kept.       *)
Resume ==
  /\ stopped
  /\ LET reqs == <<RunRequest(nextId, KeptIds(InHand(queue)))>> IN
     Accept(reqs) /\ queue' = Kept(queue) \o reqs

(* stepOver() at a jsr or bsr: a one-shot breakpoint behind the call, then  *)
(* a run.  Anywhere else it is a step, a poke.                              *)
StepOver ==
  /\ stopped
  /\ LET once == Request(nextId, "poke")
         reqs == <<once, RunRequest(nextId + 1, KeptIds(InHand(queue)) \union {nextId})>> IN
     Accept(reqs) /\ queue' = queue \o reqs

RunPending == \E r \in InHand(queue) : r.kind = "run"

(* pause(): a machine that is stopped, with no run on its way, is let be.   *)
Pause ==
  /\ ~stopped \/ RunPending
  /\ LET reqs == <<Request(nextId, "break")>> IN
     Accept(reqs) /\ queue' = queue \o reqs

-----------------------------------------------------------------------------
(* dispatchNext(): the first request in the queue that may go out now.  The *)
(* scan ends at a run; a break is taken when nothing else behind it may go. *)

BehindRun(i) == \E j \in 1 .. i - 1 : queue[j].kind = "run"

MaySend(i) ==
  CASE queue[i].kind = "run"   -> i = 1 /\ stopped
    [] queue[i].kind = "break" -> ~stopped
    [] OTHER                   -> NeedsStop(queue[i]) => stopped

Sendable == {i \in DOMAIN queue : ~BehindRun(i) /\ MaySend(i)}
Breaks   == {i \in Sendable : queue[i].kind = "break"}

IsNextOut(i) ==
  IF Sendable = Breaks THEN \A j \in Breaks : j <= i
  ELSE i \notin Breaks /\ \A j \in Sendable \ Breaks : i <= j

(* Fault: a reply that is owed does not hold the queue (MIN-2).             *)
MayDispatch_DespiteOwed == ~Have /\ ready /\ proc # "none" /\ Sendable # {}

MayDispatch == ~Have /\ ready /\ ~owed /\ proc # "none" /\ Sendable # {}

DispatchNext ==
  /\ pc \in DOMAIN Returning /\ MayDispatch
  /\ \E i \in Sendable : /\ IsNextOut(i)
                         /\ current' = queue[i]
                         /\ queue' = RemoveAt(queue, i)
  /\ toFork' = Append(toFork, current')
  /\ IF Captures(current')
     THEN tail' = {} /\ spilled' = spilled \intersect pipe
     ELSE UNCHANGED <<tail, spilled>>
  /\ pc' = Returning[pc]
  /\ UNCHANGED <<proc, ready, stopped, owed, alive, machine, link, toHost, pipe,
                 boundVars, answer, executed, late>>

DispatchNothing ==
  /\ pc \in DOMAIN Returning /\ ~MayDispatch
  /\ pc' = Returning[pc]
  /\ UNCHANGED <<proc, hostVars, forkVars, boundVars, answer, executed, late, spilled>>

-----------------------------------------------------------------------------
(* onSocketData(), one message of the buffer at a time.                     *)

TakeMessage(type) ==
  /\ pc = "loop" /\ toHost # <<>> /\ Head(toHost).type = type
  /\ UNCHANGED boundVars

ReadHello ==
  /\ TakeMessage("hello") /\ proc # "none"
  /\ Head(toHost).flag
  /\ toHost' = Tail(toHost)
  /\ ready' = TRUE
  /\ pc' = "dispatch"
  /\ UNCHANGED <<proc, stopped, queue, current, owed, tail, alive, machine, link, toFork,
                 pipe, answer, executed, late, spilled>>

(* A listener of another kind: stop(), and the messages read with the       *)
(* greeting are still in m_buffer, which the loop goes on reading.          *)
RefuseHello ==
  /\ TakeMessage("hello") /\ proc # "none"
  /\ ~Head(toHost).flag
  /\ toHost' \in {Tail(toHost), <<>>}
  /\ EndSession
  /\ UNCHANGED <<pc, answer>>

(* Fault: a notification is heeded only between commands.                   *)
ReadStatus_BetweenCommands ==
  /\ TakeMessage("status")
  /\ toHost' = Tail(toHost)
  /\ stopped' = IF Have THEN stopped ELSE Head(toHost).flag
  /\ pc' = IF stopped' = stopped THEN "loop" ELSE "dispatch"
  /\ UNCHANGED <<proc, ready, queue, current, owed, tail, alive, machine, link, toFork,
                 pipe, answer, executed, late, spilled>>

ReadStatus ==
  /\ TakeMessage("status")
  /\ toHost' = Tail(toHost)
  /\ stopped' = Head(toHost).flag
  /\ pc' = IF stopped' = stopped THEN "loop" ELSE "dispatch"
  /\ UNCHANGED <<proc, ready, queue, current, owed, tail, alive, machine, link, toFork,
                 pipe, answer, executed, late, spilled>>

(* The late reply to a command the watchdog has failed.                     *)
SwallowReply ==
  /\ TakeMessage("reply") /\ owed
  /\ toHost' = Tail(toHost)
  /\ owed' = FALSE
  /\ pc' = IF Have THEN "loop" ELSE "dispatch"
  /\ UNCHANGED <<proc, ready, stopped, queue, current, tail, alive, machine, link, toFork,
                 pipe, answer, executed, late, spilled>>

(* The command in flight is answered without a look at stderr.              *)
Unread == spilled' = spilled \union {current.id}

(* Fault: what is unread on stderr is left for the next command.            *)
CompleteCurrent_Undrained ==
  /\ TakeMessage("reply") /\ ~owed
  /\ toHost' = Tail(toHost)
  /\ IF Have
     THEN /\ IF Captures(current) /\ Head(toHost).flag
             THEN Answer(Head(toHost).id, tail) /\ tail' = {} /\ UNCHANGED <<pipe, spilled>>
             ELSE Answer(Head(toHost).id, {}) /\ Unread /\ UNCHANGED <<tail, pipe>>
          /\ current' = NoCmd /\ pc' = "dispatch"
     ELSE UNCHANGED <<answer, tail, pipe, spilled, current, pc>>
  /\ UNCHANGED <<proc, ready, stopped, queue, owed, alive, machine, link, toFork, executed, late>>

(* completeCurrent(): the answer to a console command that was not refused  *)
(* is what stderr holds since its dispatch, drained first.  No other answer *)
(* looks at stderr.                                                         *)
CompleteCurrent ==
  /\ TakeMessage("reply") /\ ~owed
  /\ toHost' = Tail(toHost)
  /\ IF Have
     THEN /\ IF Captures(current) /\ Head(toHost).flag
             THEN /\ Answer(Head(toHost).id, tail \union pipe)
                  /\ tail' = {} /\ pipe' = {} /\ spilled' = {}
             ELSE Answer(Head(toHost).id, {}) /\ Unread /\ UNCHANGED <<tail, pipe>>
          /\ current' = NoCmd /\ pc' = "dispatch"
     ELSE UNCHANGED <<answer, tail, pipe, spilled, current, pc>>
  /\ UNCHANGED <<proc, ready, stopped, queue, owed, alive, machine, link, toFork, executed, late>>

ReadStderr ==
  /\ pc = "loop" /\ proc = "running" /\ pipe # {}
  /\ tail' = tail \union pipe /\ pipe' = {}
  /\ UNCHANGED <<proc, pc, ready, stopped, queue, current, owed, alive, machine, link,
                 toFork, toHost, boundVars, answer, executed, late, spilled>>

(* The command watchdog: the command is reported as failed, and only then   *)
(* is its reply owed, which holds the queue until it has come.              *)
CommandTimeout ==
  /\ Watchdog /\ pc = "loop" /\ Have
  /\ Answer(current.id, {}) /\ Unread
  /\ current' = NoCmd
  /\ pc' = "expired"
  /\ UNCHANGED <<proc, ready, stopped, queue, owed, tail, forkVars, boundVars, executed, late>>

RecordOwed ==
  /\ pc = "expired"
  /\ owed' = TRUE /\ late' = TRUE
  /\ pc' = "loop"
  /\ UNCHANGED <<proc, ready, stopped, queue, current, tail, forkVars, boundVars, answer,
                 executed, spilled>>

-----------------------------------------------------------------------------
(* The fork (external).                                                     *)

(* A command is served, or a console command refused (NG), and answered;    *)
(* what it prints is flushed first.  A console command prints its result    *)
(* or why it was refused; a breakpoint, a step or a written byte may print  *)
(* a notice of its own.  Only a stopped machine obeys a run.                *)
ForkServes ==
  /\ alive /\ link = "open" /\ toFork # <<>>
  /\ LET r == Head(toFork) IN
     /\ \E ok \in {o \in BOOLEAN : ~o => Captures(r)} :
          toHost' = Append(toHost, Reply(r.id, ok))
     /\ \E prints \in {p \in BOOLEAN : (p => Prints(r)) /\ (Captures(r) => p)} :
          pipe' = IF prints THEN pipe \union {r.id} ELSE pipe
     /\ executed' = executed \union {r.id}
     /\ machine' = IF r.kind = "run" /\ machine = "stopped" THEN "leaving" ELSE machine
  /\ toFork' = Tail(toFork)
  /\ UNCHANGED <<proc, pc, hostVars, alive, link, boundVars, answer, late, spilled>>

Notify(s) == toHost' = IF link = "open" THEN Append(toHost, Status(s)) ELSE toHost

(* The break loop is left, and the notification says so.                    *)
ForkRuns ==
  /\ alive /\ machine = "leaving"
  /\ machine' = "run" /\ Notify(FALSE)
  /\ UNCHANGED <<proc, pc, hostVars, alive, link, toFork, pipe, boundVars, answer, executed, late, spilled>>

(* A breakpoint, an exception, or a break that was served.                  *)
ForkStops ==
  /\ alive /\ machine = "run"
  /\ machine' = "stopped" /\ Notify(TRUE)
  /\ UNCHANGED <<proc, pc, hostVars, alive, link, toFork, pipe, boundVars, answer, executed, late, spilled>>

(* A reset: what was on its way to the host may be lost with it.            *)
DropLink ==
  /\ link = "open" /\ drops < MaxDrops
  /\ drops' = drops + 1
  /\ link' = "lost" /\ toFork' = <<>>
  /\ toHost' \in {toHost, <<>>}
  /\ UNCHANGED <<proc, pc, hostVars, alive, machine, pipe, reentrant, sessions, nextId,
                 answer, executed, late, spilled>>

EmuExits ==
  /\ alive
  /\ alive' = FALSE
  /\ link' = IF link = "open" THEN "lost" ELSE link
  /\ toFork' = <<>>
  /\ UNCHANGED <<proc, pc, hostVars, machine, toHost, pipe, boundVars, answer, executed, late, spilled>>

-----------------------------------------------------------------------------
User == (\E kind \in Offered : Enqueue(kind)) \/ Refresh \/ Resume \/ StepOver \/ Pause
Host == Connect \/ HandshakeTimeout \/ ProcessFinished \/ Disconnected
        \/ AfterDisconnect \/ RecordOwed
        \/ DispatchNext \/ DispatchNothing \/ ReadHello \/ RefuseHello \/ ReadStatus
        \/ SwallowReply \/ CompleteCurrent \/ ReadStderr \/ CommandTimeout
Fork == ForkServes \/ ForkRuns \/ ForkStops \/ DropLink \/ EmuExits

Next == Start \/ Stop \/ User \/ Host \/ Fork

Spec == Init /\ [][Next]_vars

(* The handler that runs goes on, what the socket has for the host is read, *)
(* the timers fire, and the fork serves what it is sent.  That the fork     *)
(* ever listens, that the program stops, or that the user acts is not       *)
(* assumed.                                                                 *)
Handler == AfterDisconnect \/ RecordOwed \/ DispatchNext \/ DispatchNothing
Socket  == ReadHello \/ RefuseHello \/ ReadStatus \/ SwallowReply \/ CompleteCurrent
           \/ Disconnected
Fairness ==
  /\ WF_vars(HandshakeTimeout) /\ WF_vars(ProcessFinished)
  /\ WF_vars(Handler) /\ WF_vars(Socket)
  /\ WF_vars(ForkServes) /\ WF_vars(ForkRuns)

FairSpec == Spec /\ Fairness

-----------------------------------------------------------------------------
(* Properties.                                                              *)

Messages == [type : {"hello", "status", "reply"}, id : Nat, flag : BOOLEAN]

(* The types of the host's and the fork's state.                            *)
TypeOK ==
  /\ proc \in {"none", "running", "exited"} /\ pc \in DOMAIN Sending
  /\ ready \in BOOLEAN /\ stopped \in BOOLEAN /\ owed \in BOOLEAN
  /\ queue \in Seq(Requests) /\ current \in Requests \union {NoCmd}
  /\ tail \subseteq Nat /\ pipe \subseteq Nat
  /\ alive \in BOOLEAN /\ machine \in {"run", "stopped", "leaving"}
  /\ link \in {"closed", "open", "lost"}
  /\ toFork \in Seq(Requests) /\ toHost \in Seq(Messages)
  /\ sessions \in Nat /\ drops \in Nat /\ nextId \in Nat
  /\ reentrant \in BOOLEAN /\ late \in BOOLEAN
  /\ answer \in [id : Nat, reply : Nat, lines : SUBSET Nat]
  /\ executed \subseteq Nat /\ spilled \subseteq Nat

(* A command is completed by its own reply, never by the late reply of the  *)
(* one before it (MIN-2), as long as no listener answers a failed command   *)
(* with a request of its own: that one goes out before the reply is owed.   *)
AnswerIsOwn == ~reentrant => answer.reply = answer.id

(* A reply is to come for the command in flight and for the one that is     *)
(* owed, and for no other: the queue an owed reply holds is released, and   *)
(* what is swallowed is never another command's answer (MIN-2).             *)
RepliesToCome ==
  Len(toFork) + Cardinality({i \in DOMAIN toHost : toHost[i].type = "reply"})
OwedReplyIsToCome ==
  ~reentrant /\ proc = "running" /\ ready /\ link = "open" =>
    RepliesToCome = Cardinality({c \in {"flight", "owed"} :
                                   IF c = "flight" THEN Have ELSE owed \/ pc = "expired"})

(* No command went out before a late reply of another was known to be owed. *)
InStep == reentrant => ~late'

(* Of other commands a console command's answer has only what was unread    *)
(* on stderr when it went out, and that only of commands whose own answers  *)
(* did not read it: "the response is the stderr tail since dispatch".       *)
AnswerHasNoOthers ==
  [][answer' # answer /\ InStep => answer'.lines \subseteq {answer'.id} \union spilled]_vars

(* And it has what the command printed, which was flushed before the OK but *)
(* may not have been read (MAJ-13).                                         *)
TakesOk == toHost # <<>> /\ Head(toHost) = Reply(current.id, TRUE) /\ toHost' = Tail(toHost)
AnswerIsWhole ==
  [][answer' # answer /\ InStep /\ Captures(current) /\ TakesOk =>
       answer'.id \in answer'.lines]_vars

AnswerIsExactUnlessSpilled == AnswerHasNoOthers /\ AnswerIsWhole

(* Every command that goes out gets one commandFinished, whichever of the   *)
(* link and the process dies first (finding 11); only stop() takes it away. *)
AnsweredOnce ==
  [][/\ answer' # answer => Have /\ answer'.id = current.id /\ current' = NoCmd
     /\ Have /\ current' # current => \/ answer'.id = current.id
                                      \/ proc' = "none" \/ Start]_vars

(* The run a Continue queued is executed after the arms queued before it.   *)
ArmsPrecedeRun ==
  [][machine = "stopped" /\ machine' = "leaving" => Head(toFork).after \subseteq executed]_vars

(* Once everything sent has been read, isStopped() is the truth.            *)
Quiet == proc = "running" /\ ready /\ pc = "loop" /\ link = "open" /\ toHost = <<>>
StopViewIsTrue ==
  Quiet /\ machine # "leaving" => (stopped <=> machine = "stopped")

(* "A debugger command never runs against a moving machine."                *)
ReadsAreStill ==
  [][\A r \in Range(toFork) :
       NeedsStop(r) /\ r.id \in executed' \ executed => machine = "stopped"]_vars

(* Without a session nothing is stopped.                                    *)
StopNeedsSession == stopped => proc = "running"

(* A session either reaches its handshake or ends; and while the machine is *)
(* stopped the queue does not stand still: a held read or arm goes out, and *)
(* so does the run of a Continue, unless a break waits with them.           *)
RunIn(q)   == \E r \in Range(q) : r.kind = "run"
BreakIn(q) == \E r \in Range(q) : r.kind = "break"
Greeting   == proc = "running" /\ ~ready
Holding    == proc = "running" /\ ready /\ stopped
HostIsNeverStuck == ~<>[](Greeting \/ (Holding /\ queue # <<>> /\ ~BreakIn(queue)))

(* A step over's run "follows from the head of the queue".                  *)
StepOverRuns == (Holding /\ RunIn(queue)) ~> (~RunIn(queue) \/ ~Holding)
=============================================================================

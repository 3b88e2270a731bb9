--------------------------- MODULE NativeTransport ---------------------------
(***************************************************************************)
(* The native debug transport, src/src/emu/EmulatorHost.cpp, composed with *)
(* the stock Hatari debugger it drives over pipes (external: modelled from *)
(* what EmulatorHost sends and from how it reads what comes back).         *)
(*                                                                         *)
(* Commands go to the debugger's stdin one at a time.  Responses come back *)
(* on stderr, the prompt that ends one on stdout (or, on builds without    *)
(* readline, on stderr), and nothing orders the two pipes.  The host runs  *)
(* on one thread: an event handler runs while pc = "loop", and the other   *)
(* values of pc are the points inside a handler where the debugger, a      *)
(* process of its own, can take a step.                                    *)
(***************************************************************************)
EXTENDS Integers, Sequences

CONSTANTS
  MaxCmds,        \* bound: requests accepted over all sessions
  MaxSessions,    \* bound: calls of start()
  MaxPauses,      \* bound: pause lines unread in the control socket
  PromptOnStderr, \* the build writes its prompt to stderr (macOS, Windows)
  Timeouts        \* when kCommandTimeoutMs may expire, see CommandTimeout

ASSUME BoundsAssumption ==
  MaxCmds \in Nat /\ MaxSessions \in Nat /\ MaxPauses \in Nat
ASSUME BuildAssumption == PromptOnStderr \in BOOLEAN
ASSUME TimeoutsAssumption == Timeouts \in {"never", "late", "racing"}

VARIABLES
  \* EmulatorHost
  proc,       \* m_process: "none", "running", or "exited" (finished, not stopped)
  pc,         \* where the host's thread is
  queue,      \* m_queue, as the set of its entries: its order is that of the ids
  current,    \* m_current when m_haveCurrent, else NoCmd
  settling,   \* m_settleTimer is active: current's prompt has arrived
  raw,        \* m_current.raw, the lines collected for current
  owed,       \* m_owedPrompts
  awaiting,   \* m_awaitingEntryPrompt
  stopped,    \* m_stopped
  cwi,        \* m_continueWhenIdle
  \* Hatari and the pipes
  alive,      \* the process exists
  emu,        \* "run", "print" (mid-output) or "prompt" (reading stdin)
  job,        \* the command being served, 0 for the program itself
  stdin, prompts, err,
  banner,     \* "unprinted", "pipe" or "read": printed once per process
  ctl,        \* pause lines in the control socket
  \* Bookkeeping the properties read
  sessions, nextId,
  answer,     \* the last commandFinished
  executed,   \* arms the debugger has executed
  due         \* arms accepted before the last resume()

hostVars  == <<queue, current, settling, raw, owed, awaiting, stopped, cwi>>
emuVars   == <<alive, emu, job, stdin, prompts, err, banner, ctl>>
boundVars == <<sessions, nextId>>
vars == <<proc, pc, hostVars, emuVars, boundVars, answer, executed, due>>

-----------------------------------------------------------------------------
(* A request is a typed intent: a read or a dump, an arm (any request that  *)
(* is kept across a resume), or an over (`n`, or a typed `c`): a command    *)
(* that lets the program run and answers at the next stop.                  *)
Kinds    == {"read", "arm", "over"}
Commands == [id : Nat, kind : Kinds]
NoCmd    == [id |-> 0, kind |-> "none"]
Continue == [id |-> 0, kind |-> "continue"]

Keeps(c) == c.kind = "arm"

Have == current # NoCmd

(* A response is two chunks: Qt may read between them.                      *)
Chunk(id, n)  == [id |-> id, part |-> n]
Response(id)  == {Chunk(id, 1), Chunk(id, 2)}
Chunks        == [id : Nat, part : {1, 2}]

Oldest(c)  == \A d \in queue : c.id <= d.id
ArmsInHand == {c.id : c \in {d \in queue \union {current} : Keeps(d)}}

Init ==
  /\ proc = "none" /\ pc = "loop"
  /\ queue = {} /\ current = NoCmd /\ settling = FALSE /\ raw = {}
  /\ owed = 0 /\ awaiting = FALSE /\ stopped = FALSE /\ cwi = FALSE
  /\ alive = FALSE /\ emu = "run" /\ job = 0 /\ stdin = <<>> /\ prompts = 0 /\ err = {}
  /\ banner = "unprinted" /\ ctl = 0
  /\ sessions = 0 /\ nextId = 1
  /\ answer = [id |-> 0, lines |-> {}, inTime |-> FALSE]
  /\ executed = {} /\ due = {}

-----------------------------------------------------------------------------
(* Session life.                                                            *)

ResetTransport ==
  /\ queue' = {} /\ current' = NoCmd /\ settling' = FALSE /\ raw' = {}
  /\ owed' = 0 /\ awaiting' = FALSE /\ cwi' = FALSE

FreshProcess ==
  /\ emu' = "run" /\ job' = 0 /\ stdin' = <<>> /\ prompts' = 0 /\ err' = {}
  /\ banner' = "unprinted" /\ ctl' = 0 /\ executed' = {} /\ due' = {}

(* start(): stop() first, then every framing field is reset, then spawn.    *)
Start ==
  /\ pc = "loop" /\ sessions < MaxSessions
  /\ sessions' = sessions + 1
  /\ proc' = "running" /\ alive' = TRUE
  /\ stopped' = FALSE
  /\ ResetTransport /\ FreshProcess
  /\ UNCHANGED <<pc, nextId, answer>>

(* stop(): owed, awaiting and cwi are left for the next start to reset.     *)
Stop ==
  /\ pc = "loop" /\ proc # "none"
  /\ proc' = "none" /\ alive' = FALSE
  /\ queue' = {} /\ current' = NoCmd /\ raw' = {} /\ stopped' = FALSE
  /\ settling' = FALSE
  /\ FreshProcess
  /\ UNCHANGED <<pc, owed, awaiting, cwi, boundVars, answer>>

(* The process's finished signal: QProcess hands over what is left in the   *)
(* pipes first.  The settle timer keeps running; current is gone.           *)
ProcessFinished ==
  /\ pc = "loop" /\ proc = "running" /\ ~alive
  /\ prompts = 0 /\ err = {} /\ banner # "pipe"
  /\ proc' = "exited"
  /\ stopped' = FALSE /\ current' = NoCmd /\ raw' = {} /\ queue' = {}
  /\ stdin' = <<>>
  /\ UNCHANGED <<pc, settling, owed, awaiting, cwi, alive, emu, job, prompts, err,
                 banner, ctl, boundVars, answer, executed, due>>

-----------------------------------------------------------------------------
(* Requests.                                                                *)

(* enqueue(), for every intent: refused without a session.                  *)
Enqueue(kind) ==
  /\ pc = "loop" /\ proc = "running" /\ nextId <= MaxCmds
  /\ nextId' = nextId + 1
  /\ queue' = queue \union {[id |-> nextId, kind |-> kind]}
  /\ pc' = "drain"
  /\ UNCHANGED <<proc, current, settling, raw, owed, awaiting, stopped, cwi,
                 emuVars, sessions, answer, executed, due>>

FinishContinue ==
  /\ cwi' = FALSE /\ stopped' = FALSE
  /\ stdin' = Append(stdin, Continue)

(* resume(): only the kept requests stay queued; `c` goes out at once when  *)
(* nothing is pending, and otherwise when the queue has drained.            *)
Resume ==
  /\ pc = "loop" /\ proc = "running" /\ ~cwi /\ stopped
  /\ queue' = {c \in queue : Keeps(c)}
  /\ due' = ArmsInHand
  /\ \/ /\ ~Have /\ queue' = {}
        /\ FinishContinue
        /\ UNCHANGED pc
     \/ /\ Have \/ queue' # {}
        /\ cwi' = TRUE
        /\ pc' = IF Have THEN pc ELSE "drain"
        /\ UNCHANGED <<stopped, stdin>>
  /\ UNCHANGED <<proc, current, settling, raw, owed, awaiting, alive, emu, job,
                 prompts, err, banner, ctl, boundVars, answer, executed>>

(* pause() with the control socket connected: ignored while stopped.        *)
Pause ==
  /\ pc = "loop" /\ proc = "running" /\ ~stopped /\ ctl < MaxPauses
  /\ ctl' = ctl + 1
  /\ UNCHANGED <<proc, pc, hostVars, alive, emu, job, stdin, prompts, err, banner,
                 boundVars, answer, executed, due>>

-----------------------------------------------------------------------------
(* Reading.                                                                 *)

Unread == err # {} \/ banner = "pipe"

(* processStderrData()'s line loop: everything readable is consumed.  The   *)
(* banner announces the first stop unless its prompt was seen before it;    *)
(* any other line belongs to the command in flight.                         *)
ConsumeLines ==
  /\ err' = {}
  /\ raw' = IF Have THEN raw \union err ELSE raw
  /\ banner' = IF banner = "pipe" THEN "read" ELSE banner
  /\ IF banner = "pipe" /\ ~stopped
     THEN stopped' = TRUE /\ awaiting' = TRUE
     ELSE UNCHANGED <<stopped, awaiting>>

(* The prompt at the end of what was just read from stderr, if the build    *)
(* puts it there, is handled at `after`, before anything else.              *)
TakeErrPrompt(after, otherwise) ==
  IF PromptOnStderr /\ prompts = 1
  THEN prompts' = 0 /\ pc' = after
  ELSE pc' = otherwise /\ UNCHANGED prompts

ReadStderr ==
  /\ pc = "loop" /\ proc = "running"
  /\ Unread \/ (PromptOnStderr /\ prompts = 1)
  /\ ConsumeLines
  /\ TakeErrPrompt("prompt", "loop")
  /\ UNCHANGED <<proc, queue, current, settling, owed, cwi, alive, emu, job,
                 stdin, ctl, boundVars, answer, executed, due>>

(* Faults: the owed count is tested off by one, or never paid back; a stop  *)
(* is only recorded when nothing is queued; the entry prompt starts nothing.*)
SwallowOwed_OffByOne(done) ==
  /\ owed >= 0 /\ owed' = owed - 1
  /\ ConsumeLines
  /\ pc' = IF Have THEN done ELSE "drain"
  /\ UNCHANGED <<queue, current, settling, cwi>>

SwallowOwed_Unpaid(done) ==
  /\ owed > 0
  /\ ConsumeLines
  /\ pc' = IF Have THEN done ELSE "drain"
  /\ UNCHANGED <<queue, current, settling, owed, cwi>>

StopPrompt_OnlyIfIdle(done) ==
  /\ owed = 0 /\ ~awaiting /\ ~Have
  /\ stopped' = (stopped \/ queue = {})
  /\ pc' = IF stopped' /\ ~stopped THEN "drain" ELSE done
  /\ UNCHANGED <<queue, current, settling, raw, owed, awaiting, cwi, err, banner>>

EntryPrompt_Silent ==
  /\ owed = 0 /\ awaiting
  /\ awaiting' = FALSE
  /\ pc' = "loop"
  /\ UNCHANGED <<queue, current, settling, raw, owed, stopped, cwi, err, banner>>

(* onPrompt(), by what the host is waiting for.                             *)
SwallowOwed(done) ==       \* the prompt of a command that timed out
  /\ owed > 0
  /\ owed' = owed - 1
  /\ ConsumeLines
  /\ pc' = IF Have THEN done ELSE "drain"
  /\ UNCHANGED <<queue, current, settling, cwi>>

EntryPrompt ==             \* the entry dump is complete
  /\ owed = 0 /\ awaiting
  /\ awaiting' = FALSE
  /\ pc' = "drain"
  /\ UNCHANGED <<queue, current, settling, raw, owed, stopped, cwi, err, banner>>

AnswerPrompt(done) ==      \* the command in flight has run: let stderr settle
  /\ owed = 0 /\ ~awaiting /\ Have
  /\ settling' = TRUE
  /\ pc' = done
  /\ UNCHANGED <<queue, current, raw, owed, awaiting, stopped, cwi, err, banner>>

StopPrompt(done) ==        \* nothing in flight: the program has stopped
  /\ owed = 0 /\ ~awaiting /\ ~Have
  /\ stopped' = TRUE
  /\ pc' = IF stopped THEN done ELSE "drain"
  /\ UNCHANGED <<queue, current, settling, raw, owed, awaiting, cwi, err, banner>>

OnPrompt(done) ==
  /\ \/ SwallowOwed(done) \/ EntryPrompt \/ AnswerPrompt(done)
     \/ StopPrompt(done)
  /\ UNCHANGED <<proc, alive, emu, job, stdin, ctl, boundVars, answer, executed, due>>

(* handleStdoutData(), one prompt of the chunk at a time.                   *)
ReadPrompt ==
  /\ pc = "loop" /\ proc = "running" /\ ~PromptOnStderr /\ prompts > 0
  /\ prompts' = prompts - 1
  /\ OnPrompt("loop")

(* The end of processStderrData(), called from the event loop or from the   *)
(* drain that precedes a dispatch.                                          *)
ErrPrompt ==
  /\ UNCHANGED prompts
  /\ \/ pc = "prompt" /\ OnPrompt("loop")
     \/ pc = "drainPrompt" /\ OnPrompt("dispatch")

-----------------------------------------------------------------------------
(* dispatchNextOnce(): drain stderr, test again, then write.                *)

(* Faults: stderr is not drained first (MAJ-14); an owed prompt does not    *)
(* hold the queue back; the Continue does not wait for the queue.           *)
DrainBeforeDispatch_Skipped ==
  /\ pc = "drain"
  /\ pc' = "dispatch"
  /\ UNCHANGED <<proc, hostVars, emuVars, boundVars, answer, executed, due>>

DrainBeforeDispatch ==
  /\ pc = "drain"
  /\ ConsumeLines
  /\ TakeErrPrompt("drainPrompt", "dispatch")
  /\ UNCHANGED <<proc, queue, current, settling, owed, cwi, alive, emu, job,
                 stdin, ctl, boundVars, answer, executed, due>>

MayDispatch_DespiteOwed == proc = "running" /\ ~Have /\ ~awaiting

MayDispatch == proc = "running" /\ ~Have /\ ~awaiting /\ owed = 0

DispatchNothing ==
  /\ pc = "dispatch"
  /\ \/ ~MayDispatch
     \/ queue = {} /\ ~cwi
     \/ queue # {} /\ ~stopped
  /\ pc' = "loop"
  /\ UNCHANGED <<proc, hostVars, emuVars, boundVars, answer, executed, due>>

DispatchContinue_First ==
  /\ pc = "dispatch" /\ MayDispatch /\ cwi
  /\ FinishContinue
  /\ pc' = "loop"
  /\ UNCHANGED <<proc, queue, current, settling, raw, owed, awaiting, alive, emu,
                 job, prompts, err, banner, ctl, boundVars, answer, executed, due>>

DispatchContinue ==
  /\ pc = "dispatch" /\ MayDispatch /\ queue = {} /\ cwi
  /\ FinishContinue
  /\ pc' = "loop"
  /\ UNCHANGED <<proc, queue, current, settling, raw, owed, awaiting, alive, emu,
                 job, prompts, err, banner, ctl, boundVars, answer, executed, due>>

DispatchCommand ==
  /\ pc = "dispatch" /\ MayDispatch /\ stopped
  /\ \E c \in queue :
       /\ Oldest(c)
       /\ current' = c /\ queue' = queue \ {c}
       /\ stdin' = Append(stdin, c)
  /\ raw' = {}
  /\ pc' = "loop"
  /\ UNCHANGED <<proc, settling, owed, awaiting, stopped, cwi, alive, emu, job,
                 prompts, err, banner, ctl, boundVars, answer, executed, due>>

-----------------------------------------------------------------------------
(* Timers.                                                                  *)

Report(lines, inTime) ==
  answer' = [id |-> current.id, lines |-> lines, inTime |-> inTime]

(* completeCurrent(), when the settle timer fires: what is left on stderr   *)
(* is taken before the response is reported.                                *)
CompleteCurrent ==
  /\ pc = "loop" /\ settling
  /\ settling' = FALSE
  /\ IF Have
     THEN /\ Report(raw \union err, TRUE)
          /\ current' = NoCmd /\ raw' = {}
          /\ err' = {} /\ pc' = "drain"
     ELSE UNCHANGED <<answer, current, raw, err, pc>>
  /\ UNCHANGED <<proc, queue, owed, awaiting, stopped, cwi, alive, emu, job,
                 stdin, prompts, banner, ctl, boundVars, executed, due>>

(* onCommandTimeout().  "late": the timer expires only before the prompt is *)
(* read.  "racing": also in the settle period after it, which is 40 ms or   *)
(* more of the last of the ten seconds.  "never": every command is quick.   *)
CommandTimeout ==
  /\ pc = "loop" /\ Have
  /\ \/ Timeouts = "late" /\ ~settling
     \/ Timeouts = "racing"
  /\ owed' = owed + 1
  /\ settling' = FALSE
  /\ Report(raw, FALSE)
  /\ current' = NoCmd /\ raw' = {}
  /\ pc' = "drain"
  /\ UNCHANGED <<proc, queue, awaiting, stopped, cwi, emuVars, boundVars, executed, due>>

-----------------------------------------------------------------------------
(* Hatari (external).                                                       *)

(* A line written after a prompt on the same pipe hides that prompt if both *)
(* are read together: only a trailing prompt counts.                        *)
Emit(lines, p) ==
  /\ err' = err \union lines
  /\ prompts' = IF PromptOnStderr THEN p ELSE prompts + p

(* The program stops: breakpoint, exception, end of a step over.            *)
EmuStop ==
  /\ alive /\ emu = "run"
  /\ Emit({Chunk(job, 1)}, 0)
  /\ banner' = IF banner = "unprinted" THEN "pipe" ELSE banner
  /\ emu' = "print"
  /\ UNCHANGED <<proc, pc, hostVars, alive, job, stdin, boundVars, answer, executed,
                 due>>

ProgramStops == EmuStop /\ UNCHANGED ctl

PauseStops == ctl > 0 /\ ctl' = ctl - 1 /\ EmuStop

(* The rest of the output, flushed before the prompt.                       *)
EmuPrompt ==
  /\ alive /\ emu = "print"
  /\ Emit({Chunk(job, 2)}, 1)
  /\ emu' = "prompt"
  /\ UNCHANGED <<proc, pc, hostVars, alive, job, stdin, banner, ctl, boundVars, answer,
                 executed, due>>

EmuReadsContinue ==
  /\ alive /\ emu = "prompt" /\ stdin # <<>> /\ Head(stdin) = Continue
  /\ emu' = "run" /\ job' = 0 /\ stdin' = Tail(stdin)
  /\ UNCHANGED <<proc, pc, hostVars, alive, prompts, err, banner, ctl, boundVars, answer,
                 executed, due>>

EmuReadsOver ==
  /\ alive /\ emu = "prompt" /\ stdin # <<>> /\ Head(stdin).kind = "over"
  /\ emu' = "run" /\ job' = Head(stdin).id /\ stdin' = Tail(stdin)
  /\ UNCHANGED <<proc, pc, hostVars, alive, prompts, err, banner, ctl, boundVars, answer,
                 executed, due>>

EmuReadsCommand ==
  /\ alive /\ emu = "prompt" /\ stdin # <<>> /\ Head(stdin).kind \in {"read", "arm"}
  /\ emu' = "print" /\ job' = Head(stdin).id /\ stdin' = Tail(stdin)
  /\ Emit({Chunk(Head(stdin).id, 1)}, 0)
  /\ executed' = executed \union (IF Keeps(Head(stdin)) THEN {Head(stdin).id} ELSE {})
  /\ UNCHANGED <<proc, pc, hostVars, alive, banner, ctl, boundVars, answer, due>>

EmuExits ==
  /\ alive
  /\ alive' = FALSE
  /\ UNCHANGED <<proc, pc, hostVars, emu, job, stdin, prompts, err, banner, ctl,
                 boundVars, answer, executed, due>>

-----------------------------------------------------------------------------
Request == \E kind \in Kinds : Enqueue(kind)
Host    == ProcessFinished \/ ReadStderr \/ ReadPrompt \/ ErrPrompt
           \/ DrainBeforeDispatch \/ DispatchNothing \/ DispatchContinue
           \/ DispatchCommand \/ CompleteCurrent \/ CommandTimeout
Hatari  == ProgramStops \/ PauseStops \/ EmuPrompt \/ EmuReadsContinue
           \/ EmuReadsOver \/ EmuReadsCommand \/ EmuExits

Next == Start \/ Stop \/ Request \/ Resume \/ Pause \/ Host \/ Hatari

Spec == Init /\ [][Next]_vars

(* Neither Hatari running the program nor the user owes anyone a step: only *)
(* the host's event loop, its timers, and a debugger with work in hand do.  *)
Fairness ==
  /\ WF_vars(ProcessFinished) /\ WF_vars(ReadStderr) /\ WF_vars(ReadPrompt)
  /\ WF_vars(ErrPrompt) /\ WF_vars(DrainBeforeDispatch)
  /\ WF_vars(DispatchNothing \/ DispatchContinue \/ DispatchCommand)
  /\ WF_vars(CompleteCurrent)
  /\ WF_vars(PauseStops) /\ WF_vars(EmuPrompt)
  /\ WF_vars(EmuReadsContinue \/ EmuReadsOver \/ EmuReadsCommand)

FairSpec == Spec /\ Fairness

-----------------------------------------------------------------------------
(* Properties.                                                              *)

StdinEntries == Commands \union {Continue}

(* The types of the host's and the debugger's state.                        *)
HostType ==
  /\ proc \in {"none", "running", "exited"}
  /\ pc \in {"loop", "drain", "drainPrompt", "prompt", "dispatch"}
  /\ queue \subseteq Commands /\ current \in Commands \union {NoCmd}
  /\ settling \in BOOLEAN /\ cwi \in BOOLEAN
WaitType == owed \in Nat /\ awaiting \in BOOLEAN /\ stopped \in BOOLEAN
LineType ==
  /\ raw \subseteq Chunks /\ err \subseteq Chunks
  /\ banner \in {"unprinted", "pipe", "read"}
EmuType ==
  /\ alive \in BOOLEAN /\ emu \in {"run", "print", "prompt"}
  /\ job \in Nat /\ prompts \in Nat /\ ctl \in Nat
StdinType == stdin \in Seq(StdinEntries)
BookType ==
  /\ sessions \in Nat /\ nextId \in Nat
  /\ answer \in [id : Nat, lines : SUBSET Chunks, inTime : BOOLEAN]
  /\ executed \subseteq Nat /\ due \subseteq Nat

TypeOK == HostType /\ WaitType /\ LineType /\ EmuType /\ StdinType /\ BookType

(* What commandFinished reports as a command's response is that command's   *)
(* whole output and nothing else: not the entry dump, not the tail of the   *)
(* command before it (MAJ-14, MIN-1).  A timed-out one reports a part of it.*)
AnswerIsExact ==
  /\ answer.inTime => answer.lines = Response(answer.id)
  /\ answer.lines \subseteq Response(answer.id)

(* A command is written only while the debugger sits at its prompt with an  *)
(* empty stdin, so it cannot fire later, in place of another.               *)
CommandMeetsPrompt ==
  [][current = NoCmd /\ current' # NoCmd =>
       emu = "prompt" /\ stdin = <<>>]_vars

(* A Continue reaches the debugger after every arm accepted before it: a    *)
(* breakpoint set before Run is in place when the program runs.             *)
ArmsPrecedeContinue ==
  [][EmuReadsContinue => due \subseteq executed]_vars

(* A prompt that is owed is still to come: the command that timed out is    *)
(* still executing, or its prompt is unread.                                *)
OwedPromptIsToCome ==
  owed > 0 /\ proc = "running" =>
    /\ owed = 1
    /\ \/ emu \in {"run", "print"} \/ stdin # <<>>
       \/ prompts > 0 \/ pc \in {"prompt", "drainPrompt"}

(* With nothing in flight and nothing unread, isStopped() is the truth.     *)
Quiet ==
  /\ proc = "running" /\ pc = "loop" /\ ~Have /\ owed = 0
  /\ stdin = <<>> /\ prompts = 0 /\ ~Unread
StopViewIsTrue ==
  Quiet /\ emu # "print" => (stopped <=> emu = "prompt")

(* A debugger that sits at its prompt is noticed.                           *)
AtPrompt == proc = "running" /\ alive /\ emu = "prompt" /\ stdin = <<>>
StopIsNoticed ==
  AtPrompt ~> (stopped \/ ~AtPrompt)

(* The queue does not stand still while the debugger waits for a command.   *)
QueueMoves ==
  ~<>[](AtPrompt /\ queue # {})

(* pause(): "A stop follows via stoppedChanged(true)".                      *)
PauseIsFollowedByStop ==
  (ctl > 0) ~> (stopped \/ proc # "running")

(* It does in a session where no command ever times out: the one prompt a   *)
(* pause produces is then never taken for one that is owed.                 *)
PauseStopsUnlessOwed == [](owed = 0) => PauseIsFollowedByStop

(* A Continue that had to wait for the queue is sent.                       *)
ContinueIsSent ==
  cwi ~> (~cwi \/ ~alive \/ emu # "prompt")

(* The native session never stalls: a stop is noticed, the queue moves, a   *)
(* Continue that waits is sent, and a pause stops the program.              *)
SessionNeverStalls == StopIsNoticed /\ QueueMoves /\ ContinueIsSent /\ PauseStopsUnlessOwed
=============================================================================

---------------------------- MODULE DebugSession ----------------------------
(***************************************************************************)
(* A debug session as the window sees it: DebugSessionController, the      *)
(* parts of MainWindow that react to the transport (stops, states, stack   *)
(* dumps, finished commands, session ends) and the recording of stops for  *)
(* reverse debugging, over a CommandLane and the debugger behind it        *)
(* (external).  A handler runs to its end in one step, with every request  *)
(* it makes; between two steps the debugger answers, the program stops,    *)
(* the session ends, or the user acts.                                     *)
(*                                                                         *)
(* A patient user acts once the views have settled; a hasty one - a key    *)
(* held down, a script, a remote client - at any point the buttons allow.  *)
(***************************************************************************)
EXTENDS Integers, Sequences, FiniteSets, SequencesExt, CommandLane

CONSTANTS
  Users,        \* which users to consider, of "patient" and "hasty"
  Pcs,          \* the program counters stops are at
  MaxMoves,     \* bound: steps and stops
  MaxActs,      \* bound: Step, Step Out, Continue, Run/Profile To Cursor
  MaxEdits,     \* bound: edits of the breakpoints
  MaxSessions   \* bound: launches

ASSUME UsersAssumption == Users \subseteq {"patient", "hasty"}
ASSUME PcsAssumption == Pcs # {} /\ Pcs \subseteq Nat \ {0}
ASSUME BoundsAssumption ==
  MaxMoves \in Nat /\ MaxActs \in Nat /\ MaxEdits \in Nat /\ MaxSessions \in Nat

VARIABLES
  user,
  live,      \* the process runs
  lane,      \* the transport
  machine,   \* the debugger and the program
  read,      \* EmulatorHost::m_state
  ctl,       \* DebugSessionController
  win,       \* MainWindow
  model,     \* the version of the breakpoints the panel lists
  ghost,     \* what the last Continue is for, and where Step Out was asked
  acts, sessions

vars == <<user, live, lane, machine, read, ctl, win, model, ghost, acts, sessions>>

-----------------------------------------------------------------------------
(* A move is numbered, so that two stops at one program counter differ.     *)
NoState == [valid |-> FALSE, pc |-> 0, move |-> 0, bases |-> FALSE]

NewMachine == [going |-> TRUE, loaded |-> FALSE, move |-> 0, pc |-> 0,
               by |-> "stop",          \* what the last move was
               bp |-> 0, wp |-> 0,     \* the versions armed, 0 for none
               shots |-> {},           \* the one-shots armed
               done |-> {}, profiling |-> FALSE, engine |-> "uae"]

NewControl == [attached |-> FALSE,     \* m_sessionArmed
               armed |-> FALSE,        \* m_breakpointsArmedThisSession
               stepOut |-> FALSE, stopEvent |-> FALSE, stepEvent |-> FALSE,
               turbo |-> FALSE, coverage |-> FALSE,
               profileSave |-> FALSE, guided |-> FALSE]

NewWindow == [seen |-> NoState, bases |-> FALSE,
              anchors |-> <<>>,
              saving |-> 0,            \* m_reverseSaveCommand, by its anchor
              after |-> "none",        \* m_reverseAfterAnchor
              logging |-> FALSE]       \* m_inputLogStarted

Init ==
  /\ user \in Users
  /\ live = FALSE /\ lane = NewLane /\ read = NoState
  /\ machine = [NewMachine EXCEPT !.going = FALSE]
  /\ ctl = NewControl /\ win = NewWindow
  /\ model = 1
  /\ ghost = [aim |-> "continue", outAt |-> 0]
  /\ acts = 0 /\ sessions = 0

-----------------------------------------------------------------------------
(* Handlers are functions on a frame, the state a handler may change.       *)
Frame == [lane |-> lane, ctl |-> ctl, win |-> win, ghost |-> ghost, model |-> model]

Put(f, commands) == [f EXCEPT !.lane = Enqueue(@, commands)]

Continue(f, aim) ==
  IF MayResume(f.lane)
  THEN [f EXCEPT !.lane = Resume(@), !.ghost.aim = aim]
  ELSE f

(* Fault: a stop's refresh does not read the bases.                         *)
RefreshBatch_NoBases == <<Command("regs", 0), StateRead("disasm")>>

RefreshBatch == <<Command("regs", 0), Command("basepage", 0), StateRead("disasm")>>
AttachBatch  == <<Command("symbols", 0), StateRead("basepage"),
                  StateRead("regs"), StateRead("disasm")>>
ProfileBatch == <<Command("ext", 0), Command("profileSave", 0),
                  Command("profileOff", 0), Command("uae", 0)>>

(* Source breakpoints need the bases; watchpoints are addresses.            *)
Plan(f) ==
  <<Command("clear", 0)>>
    \o (IF f.win.bases THEN <<Command("arm", f.model)>> ELSE <<>>)
    \o <<Command("watch", f.model)>>

(* Fault (CRIT-4): the session counts as armed although no source line      *)
(* could be resolved.                                                       *)
ArmBreakpoints_Always(f) ==
  [Put(f, Plan(f)) EXCEPT !.ctl.armed = TRUE]

ArmBreakpoints(f) ==
  [Put(f, Plan(f)) EXCEPT !.ctl.armed = @ \/ f.win.bases]

-----------------------------------------------------------------------------
(* The user's requests.                                                     *)

Step(f) ==
  IF f.win.saving # 0 THEN [f EXCEPT !.win.after = "step"]
  ELSE [Put(f, <<Command("step", 0)>> \o RefreshBatch) EXCEPT !.ctl.stepEvent = TRUE]

StepOut(f) ==
  CASE f.win.saving # 0 -> [f EXCEPT !.win.after = "stepOut"]
    [] f.win.saving = 0 /\ f.lane.stopped /\ f.win.seen.valid /\ ~f.ctl.stepOut ->
         [Put(f, <<Command("dump", f.win.seen.move)>>)
            EXCEPT !.ctl.stepOut = TRUE, !.ghost.outAt = machine.move]
    [] OTHER -> f

Go(f) ==
  IF f.win.saving # 0 THEN [f EXCEPT !.win.after = "continue"]
  ELSE Continue(f, "continue")

RunToCursor(f) == Continue(Put(f, <<Command("once", 1)>>), "cursor")

ProfileToCursor(f) ==
  Continue([Put(f, <<Command("once", 2), Command("profileOn", 0)>>)
              EXCEPT !.ctl.guided = TRUE], "profile")

-----------------------------------------------------------------------------
(* The window's reactions to the transport.                                 *)

StopProfile(f) == [Put(f, ProfileBatch) EXCEPT !.ctl.profileSave = TRUE]

Setup(f) ==
  [Put(f, (IF f.ctl.turbo THEN <<>> ELSE <<Command("turbo", 0)>>)
            \o (IF f.ctl.coverage THEN <<>> ELSE <<Command("coverage", 0)>>))
     EXCEPT !.ctl.turbo = TRUE, !.ctl.coverage = TRUE]

(* Fault: the one-shot of a guided run that another stop ended stays armed. *)
EndGuidedRun_ShotLeft(f) ==
  IF f.ctl.guided THEN StopProfile([f EXCEPT !.ctl.guided = FALSE]) ELSE f

EndGuidedRun(f) ==
  IF f.ctl.guided THEN ArmBreakpoints(StopProfile([f EXCEPT !.ctl.guided = FALSE]))
  ELSE f

(* stoppedChanged(true): the stop event, then onDebuggerStopped().          *)
OnStopped(f) ==
  LET g == Setup([f EXCEPT !.ctl.stopEvent = TRUE])
  IN  IF g.ctl.attached THEN EndGuidedRun(Put(g, RefreshBatch))
      ELSE [Put(g, AttachBatch) EXCEPT !.ctl.attached = TRUE]

(* Fault: a stop whose state never came is not published when it ends.      *)
OnRunning_Silent(f) == f

(* stoppedChanged(false).                                                   *)
OnRunning(f) == [f EXCEPT !.ctl.stopEvent = FALSE]

(* Fault: the second register batch of a stop records it again.             *)
RememberAnchor_Twice(f, st) ==
  LET next == Len(f.win.anchors) + 1
      anchor == [pc |-> st.pc, move |-> st.move, isStop |-> ~f.ctl.stepEvent,
                 file |-> 0, filePc |-> 0]
  IN  [Put(f, <<Command("save", next)>>)
         EXCEPT !.win.anchors = Append(@, anchor), !.win.saving = next]

(* Fault: the snapshots of a session share one file.                        *)
RememberAnchor_SameFile(f, st) ==
  LET last == Len(f.win.anchors)
      slot == IF last = 0 THEN 1 ELSE last
      anchor == [pc |-> st.pc, move |-> st.move, isStop |-> ~f.ctl.stepEvent,
                 file |-> 0, filePc |-> 0]
  IN  IF last > 0 /\ f.win.anchors[last].pc = st.pc
      THEN [f EXCEPT !.win.anchors[last].move = st.move]
      ELSE [Put(f, <<Command("save", slot)>>)
              EXCEPT !.win.anchors = Append(@, anchor), !.win.saving = slot]

(* rememberReverseAnchor(): the newest anchor is the current one, as long   *)
(* as nothing goes back.                                                    *)
RememberAnchor(f, st) ==
  LET last == Len(f.win.anchors)
      anchor == [pc |-> st.pc, move |-> st.move, isStop |-> ~f.ctl.stepEvent,
                 file |-> 0, filePc |-> 0]
  IN  IF last > 0 /\ f.win.anchors[last].pc = st.pc
      THEN [f EXCEPT !.win.anchors[last].move = st.move]
      ELSE [Put(f, <<Command("save", last + 1)>>)
              EXCEPT !.win.anchors = Append(@, anchor), !.win.saving = last + 1]

StartInputLog(f) ==
  IF f.win.logging THEN f
  ELSE [Put(f, <<Command("replaylog", 0)>>) EXCEPT !.win.logging = TRUE]

(* Fault: a state without registers is published as the stop's.             *)
Publish_Early(f, st) ==
  CASE f.ctl.stopEvent -> [f EXCEPT !.ctl.stopEvent = FALSE]
    [] ~f.ctl.stopEvent /\ st.valid -> [f EXCEPT !.ctl.stepEvent = FALSE]
    [] OTHER -> f

(* The stop event and the stop hook, with the cause "step" for a step.      *)
Publish(f, st) ==
  CASE st.valid /\ f.ctl.stopEvent  -> [f EXCEPT !.ctl.stopEvent = FALSE]
    [] st.valid /\ ~f.ctl.stopEvent -> [f EXCEPT !.ctl.stepEvent = FALSE]
    [] OTHER -> f

NoteBases(f, st) ==
  IF ~st.bases THEN f
  ELSE LET g == [f EXCEPT !.win.bases = TRUE]
       IN  IF g.ctl.attached /\ ~g.ctl.armed THEN ArmBreakpoints(g) ELSE g

(* onStateUpdated().                                                        *)
OnStateUpdated(f, st) ==
  LET f1 == [f EXCEPT !.win.seen = st]
      f2 == IF st.valid /\ f.lane.stopped THEN RememberAnchor(StartInputLog(f1), st)
            ELSE f1
      f3 == NoteBases(Publish(f2, st), st)
  IN  IF st.valid THEN Put(f3, <<Command("dump", st.move)>>) ELSE f3

(* handleStackDumpForStepOut(): any dump is taken for the step-out's.       *)
OnStackDump(f, plausible) ==
  LET g == [f EXCEPT !.ctl.stepOut = FALSE]
  IN  IF f.ctl.stepOut /\ plausible
      THEN Continue(Put(g, <<Command("once", 3)>>), "stepOut")
      ELSE g

(* commandFinished: what was held for the statesave is done now.            *)
OnFinished(f, c) ==
  IF c.kind # "save" \/ c.n # f.win.saving THEN f
  ELSE LET g == [f EXCEPT !.win.saving = 0, !.win.after = "none"]
       IN  CASE f.win.after = "step"     -> Step(g)
             [] f.win.after = "stepOut"  -> StepOut(g)
             [] f.win.after = "continue" -> Go(g)
             [] OTHER -> g

(* Fault (MAJ-16): a step-out still waiting for its dump outlives its       *)
(* session.                                                                 *)
ResetControl_StepOutLeft(c) == [NewControl EXCEPT !.stepOut = c.stepOut]
(* Fault: a step event outlives its session.                                *)
ResetControl_StepLeft(c) == [NewControl EXCEPT !.stepEvent = c.stepEvent]

(* Fault: the boot's turbo counts as dropped in the next session too.       *)
ResetControl_TurboLeft(c) == [NewControl EXCEPT !.turbo = c.turbo]

(* resetSessionState().                                                     *)
ResetControl(c) == NewControl

(* Fault: the snapshot on its way outlives its session.                     *)
ResetWindow_SaveLeft(w) == [NewWindow EXCEPT !.saving = w.saving]

(* clearSessionViews().                                                     *)
ResetWindow(w) == NewWindow

-----------------------------------------------------------------------------
(* One step: the handler, then dispatchNext(), and `c` to the debugger if   *)
(* the Continue leaves.  The code dispatches at each request: the same, for *)
(* no handler queues what its own Continue would drop.                      *)
Commit(f, m) ==
  LET l == Dispatch(f.lane)
      leaves == f.lane.stopped /\ ~l.stopped
      g == IF leaves THEN OnRunning(f) ELSE f
  IN  /\ lane' = l /\ ctl' = g.ctl /\ win' = g.win /\ ghost' = g.ghost
      /\ machine' = IF leaves THEN [m EXCEPT !.going = TRUE] ELSE m

Moved(m, by, pc) == [m EXCEPT !.move = @ + 1, !.pc = pc, !.by = by]

(* What the debugger does with a command.                                   *)
Executed(m, c, pc) ==
  CASE c.kind = "step"       -> Moved(m, "step", pc)
    [] c.kind = "clear"      -> [m EXCEPT !.bp = 0, !.wp = 0, !.shots = {}]
    [] c.kind = "arm"        -> [m EXCEPT !.bp = c.n]
    [] c.kind = "watch"      -> [m EXCEPT !.wp = c.n]
    [] c.kind = "once"       -> [m EXCEPT !.shots = @ \union {c.n}]
    [] c.kind = "profileOn"  -> [m EXCEPT !.profiling = TRUE]
    [] c.kind = "profileOff" -> [m EXCEPT !.profiling = FALSE]
    [] c.kind \in {"ext", "uae"} -> [m EXCEPT !.engine = c.kind]
    [] c.kind \in {"turbo", "coverage", "symbols", "replaylog"} ->
         [m EXCEPT !.done = @ \union {c.kind}]
    [] OTHER -> m

Parsed(st, c) ==
  CASE c.kind = "regs" ->
         [st EXCEPT !.valid = TRUE, !.pc = machine.pc, !.move = machine.move]
    [] c.kind = "basepage" -> [st EXCEPT !.bases = @ \/ machine.loaded]
    [] OTHER -> st

Saved(f, c) ==
  IF c.kind = "save"
  THEN [f EXCEPT !.win.anchors[c.n].file = machine.move,
                 !.win.anchors[c.n].filePc = machine.pc]
  ELSE f

Reported(f, c, plausible) ==
  CASE c.emits              -> OnStateUpdated(f, Parsed(read, c))
    [] c.kind = "dump"        -> OnStackDump(f, plausible)
    [] c.kind = "profileSave" -> [f EXCEPT !.ctl.profileSave = FALSE]
    [] OTHER -> f

(* The response of the command in flight is complete.                       *)
Complete ==
  /\ live /\ InFlight(lane)
  /\ lane.current.kind = "step" => machine.move < MaxMoves
  /\ \E pc \in Pcs, plausible \in BOOLEAN :
       LET c == lane.current
           f == Reported(Saved(Frame, c), c, plausible)
       IN  Commit(OnFinished([f EXCEPT !.lane.current = NoCommand], c),
                  Executed(machine, c, pc))
  /\ read' = Parsed(read, lane.current)
  /\ UNCHANGED <<user, live, model, acts, sessions>>

(* The program stops, at a breakpoint, for an exception or for a Pause, and *)
(* the transport notices.  The first stop may come before the program is    *)
(* loaded; noticed by the debugger's banner, it still has its dump's prompt *)
(* to wait for, and noticed by that prompt it has none.                     *)
Stop ==
  /\ live /\ machine.going /\ machine.move < MaxMoves
  /\ \E pc \in Pcs, loaded \in {machine.loaded, TRUE}, hit \in SUBSET machine.shots,
        banner \in {FALSE, ~ctl.attached} :
       /\ Cardinality(hit) <= 1
       /\ Commit(OnStopped([Frame EXCEPT !.lane.stopped = TRUE,
                                         !.lane.entry = banner]),
                 [Moved(machine, "stop", pc) EXCEPT
                    !.going = FALSE, !.loaded = loaded, !.shots = @ \ hit])
  /\ UNCHANGED <<user, live, read, model, acts, sessions>>

EntryPrompt ==
  /\ live /\ lane.entry
  /\ Commit([Frame EXCEPT !.lane.entry = FALSE], machine)
  /\ UNCHANGED <<user, live, read, model, acts, sessions>>

-----------------------------------------------------------------------------
(* The user.                                                                *)

Settled == lane.queue = <<>> /\ ~InFlight(lane) /\ ~lane.continuing /\ ~lane.entry

MayAct == live /\ lane.stopped /\ (user = "patient" => Settled)

Ask(f) ==
  /\ MayAct /\ acts < MaxActs /\ acts' = acts + 1
  /\ Commit(f, machine)
  /\ UNCHANGED <<user, live, read, model, sessions>>

UserSteps       == Ask(Step(Frame))
UserStepsOut    == Ask(StepOut(Frame))
UserContinues   == Ask(Go(Frame))
UserRunsToCursor     == win.bases /\ Ask(RunToCursor(Frame))
UserProfilesToCursor == win.bases /\ Ask(ProfileToCursor(Frame))

(* Any edit of the tables re-arms a live session (reArmIfLive()).           *)
UserEdits ==
  /\ model <= MaxEdits /\ model' = model + 1
  /\ user = "patient" => (lane.stopped => Settled)
  /\ LET f == [Frame EXCEPT !.model = model']
     IN  Commit(IF live THEN ArmBreakpoints(f) ELSE f, machine)
  /\ UNCHANGED <<user, live, read, acts, sessions>>

-----------------------------------------------------------------------------
(* Session life.                                                            *)

(* stoppedChanged(false) and runningChanged(false), of stop() and of the    *)
(* process's end.                                                           *)
End ==
  /\ live /\ live' = FALSE
  /\ lane' = [lane EXCEPT !.queue = <<>>, !.current = NoCommand, !.stopped = FALSE]
  /\ ctl' = ResetControl(OnRunning(Frame).ctl) /\ win' = ResetWindow(win)
  /\ machine' = [machine EXCEPT !.going = FALSE]
  /\ UNCHANGED <<user, read, model, ghost, acts, sessions>>

(* launch(): the reset and start(), which over a live session ends that one *)
(* first.                                                                   *)
Launch ==
  /\ sessions < MaxSessions /\ sessions' = sessions + 1
  /\ live' = TRUE /\ lane' = NewLane /\ read' = NoState /\ machine' = NewMachine
  /\ ctl' = ResetControl(ctl) /\ win' = ResetWindow(win)
  /\ UNCHANGED <<user, model, ghost, acts>>

-----------------------------------------------------------------------------
Next ==
  \/ Complete \/ Stop \/ EntryPrompt
  \/ UserSteps \/ UserStepsOut \/ UserContinues
  \/ UserRunsToCursor \/ UserProfilesToCursor \/ UserEdits
  \/ End \/ Launch

Spec == Init /\ [][Next]_vars

-----------------------------------------------------------------------------
(* Properties.                                                              *)

Kinds == {"regs", "basepage", "disasm", "symbols", "dump", "step", "save", "replaylog",
          "turbo", "clear", "arm", "watch", "once", "coverage", "profileOn", "profileSave",
          "profileOff", "ext", "uae"}

(* Only a read reports a state, and a disassembly always does.              *)
Requests ==
  {c \in [kind : Kinds, n : Nat, emits : BOOLEAN] :
     /\ c.emits => c.kind \in {"regs", "basepage", "disasm"}
     /\ c.kind = "disasm" => c.emits
     /\ c.kind = "once" => c.n \in {1, 2, 3}}

LaneType ==
  [queue : Seq(Requests), current : Requests \union {NoCommand}, stopped : BOOLEAN,
   continuing : BOOLEAN, entry : BOOLEAN]

States == [valid : BOOLEAN, pc : Pcs \union {0}, move : Nat, bases : BOOLEAN]

MachineType ==
  [going : BOOLEAN, loaded : BOOLEAN, move : Nat, pc : Pcs \union {0}, by : {"stop", "step"},
   bp : Nat, wp : Nat, shots : SUBSET {1, 2, 3}, profiling : BOOLEAN, engine : {"ext", "uae"},
   done : SUBSET {"turbo", "coverage", "symbols", "replaylog"}]

ControlType ==
  [attached : BOOLEAN, armed : BOOLEAN, stepOut : BOOLEAN, stopEvent : BOOLEAN,
   stepEvent : BOOLEAN, turbo : BOOLEAN, coverage : BOOLEAN, profileSave : BOOLEAN,
   guided : BOOLEAN]

Anchors ==
  [pc : Pcs \union {0}, move : Nat, isStop : BOOLEAN, file : Nat, filePc : Pcs \union {0}]

WindowType ==
  [seen : States, bases : BOOLEAN, anchors : Seq(Anchors), saving : Nat,
   after : {"none", "step", "stepOut", "continue"}, logging : BOOLEAN]

GhostType == [aim : {"continue", "cursor", "profile", "stepOut"}, outAt : Nat]

(* Every part of the session keeps its type.                                *)
TypeOK ==
  /\ user \in {"patient", "hasty"} /\ live \in BOOLEAN
  /\ lane \in LaneType /\ machine \in MachineType /\ read \in States
  /\ ctl \in ControlType /\ win \in WindowType /\ ghost \in GhostType
  /\ model \in Nat \ {0} /\ acts \in Nat /\ sessions \in Nat

SameSession == live /\ live' /\ sessions' = sessions
Leaves == SameSession /\ lane.stopped /\ ~lane'.stopped

(* Once the bases are known, a program that leaves a stop has in force      *)
(* exactly the breakpoints and watchpoints the panel lists, whatever was    *)
(* edited, pressed or queued before (armBreakpoints(), resume()).           *)
BreakpointsInForce ==
  [][Leaves /\ win.bases => machine'.bp = model /\ machine'.wp = model]_vars

(* Coverage is recording before the first instruction runs, also when a     *)
(* Continue overtakes the attach (onDebuggerStopped()).                     *)
CoverageCoversTheRun ==
  [][Leaves => "coverage" \in machine'.done]_vars

(* A Run To Cursor, Profile To Cursor or Step Out of a patient user leaves  *)
(* with the one-shot that is to end it, and a profile with the profiler on. *)
RunHasItsEnd ==
  [][Leaves /\ user = "patient" =>
       /\ ghost'.aim = "cursor"  => 1 \in machine'.shots
       /\ ghost'.aim = "profile" => 2 \in machine'.shots /\ machine'.profiling
       /\ ghost'.aim = "stepOut" => 3 \in machine'.shots]_vars

(* The one-shot of a guided profile that another stop ended is gone before  *)
(* the program runs again (onDebuggerStopped()).                            *)
GuidedShotIsGone ==
  [][Leaves /\ 2 \in machine'.shots => ctl'.guided]_vars

(* A stop is published before the next one: no watcher misses one while the *)
(* session lives.                                                           *)
StopIsPublished ==
  [][SameSession /\ ~lane.stopped /\ lane'.stopped => ~ctl.stopEvent]_vars

(* A stop event published with a program counter has the one the machine    *)
(* stopped at (onStateUpdated()).                                           *)
StopEventPlace ==
  [][SameSession /\ ctl.stopEvent /\ ~ctl'.stopEvent /\ lane'.stopped =>
       win'.seen.valid /\ win'.seen.move = machine.move]_vars

(* For a patient user, what the stop hook is told was a step was one, and   *)
(* the state it is given is the machine's.                                  *)
StepEventIsAStep ==
  [][SameSession /\ user = "patient" /\ ctl.stepEvent /\ ~ctl'.stepEvent =>
       machine.by = "step" /\ win'.seen.move = machine.move]_vars

(* A step-out is decided by the dump of the stop it was asked at.           *)
TakesDump == SameSession /\ ctl.stepOut /\ ~ctl'.stepOut
DumpIsTheStops == lane.current.n = machine.move /\ ghost.outAt = machine.move
StepOutAtItsStop == [][TakesDump => DumpIsTheStops]_vars

(* That holds for a patient user, over every session end and launch.        *)
StepOutAtItsStopIfPatient ==
  [][TakesDump /\ user = "patient" => DumpIsTheStops]_vars

(* Nothing is held for a snapshot that is not on its way: of a patient user *)
(* every request held for the statesave is made.                            *)
SavePending ==
  \E c \in Range(lane.queue) \union {lane.current} :
    c.kind = "save" /\ c.n = win.saving
SaveIsPending == live /\ user = "patient" /\ win.saving # 0 => SavePending

(* No stop is recorded twice, however many register batches it has.         *)
OneAnchorPerStop ==
  \A i, j \in DOMAIN win.anchors :
    i # j => win.anchors[i].move # win.anchors[j].move

(* The snapshot of a recorded stop is of a machine at the stop's program    *)
(* counter, for a patient user.                                             *)
SnapshotIsAtItsPc ==
  user = "patient" =>
    \A a \in Range(win.anchors) : a.file # 0 => a.filePc = a.pc

(* Once the views have settled no profile save is waited for; and what PiST *)
(* asks of the debugger once a session has been done, and its disassembler  *)
(* is the default one again, when that user is patient.                     *)
SetupIsDone ==
  live /\ lane.stopped /\ Settled =>
    /\ ~ctl.profileSave
    /\ user = "patient" =>
         /\ ctl.attached => "symbols" \in machine.done
         /\ ctl.turbo => "turbo" \in machine.done
         /\ win.logging => "replaylog" \in machine.done
         /\ machine.engine = "uae"

(* At a stop with the program loaded, once what was asked has been done,    *)
(* every breakpoint and watchpoint is armed: the two-phase attach ends, at  *)
(* whichever stop the bases come.                                           *)
SettledMeansArmed ==
  live /\ lane.stopped /\ Settled /\ machine.loaded =>
    machine.bp = model /\ machine.wp = model

(* What the comment on EmulatorHost::resume() says: a breakpoint set before *)
(* the Run fires, also if Continue is pressed at once at the entry stop.    *)
BreakpointsBeforeTheRun ==
  [][Leaves /\ machine.loaded => machine'.bp = model]_vars

-----------------------------------------------------------------------------
(* What the runs check, grouped.                                            *)

(* Recorded stops and their snapshots (recordStopAnchor()): none twice, none *)
(* held for a statesave that is not coming, each of its own stop.           *)
SnapshotsAreTrue == SaveIsPending /\ OneAnchorPerStop /\ SnapshotIsAtItsPc

(* The two-phase attach ends, at whatever stop the bases come, with all of  *)
(* the setup done (onDebuggerStopped(), onBases()).                         *)
AttachCompletes == SetupIsDone /\ SettledMeansArmed

(* A program never leaves a stop without what was set for the run: the      *)
(* breakpoints, the coverage, the one-shot that ends it, and no other.      *)
ProgramRunsArmed ==
  BreakpointsInForce /\ CoverageCoversTheRun /\ RunHasItsEnd /\ GuidedShotIsGone

(* What a stop is taken for: published once, at its own place, a step only  *)
(* if it was one, and a step-out decided by its own dump.                   *)
StopsAreToldApart ==
  StopIsPublished /\ StopEventPlace /\ StepEventIsAStep /\ StepOutAtItsStopIfPatient
=============================================================================

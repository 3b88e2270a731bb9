---------------------------- MODULE ReverseDebug ----------------------------
(***************************************************************************)
(* Going back: the stops MainWindow records by itself and the ones the     *)
(* user saves, the tree they form, `reststop`, the run forward to the      *)
(* instruction a reverse names, branches, the key log, and which stop is   *)
(* on screen.  The transport is a CommandLane and a handler is a function  *)
(* on a frame, as in DebugSession, which has the forward half.             *)
(*                                                                         *)
(* The program is a sequence of program counters and the machine an index  *)
(* into it, so that "back at that stop" is an equality.  It runs the same  *)
(* way again: what it reads comes from the log of keys.                    *)
(***************************************************************************)
EXTENDS Integers, Sequences, FiniteSets, SequencesExt, CommandLane

CONSTANTS
  Program,      \* the program counters it goes through
  Users,        \* of "patient", who waits for the views, and "hasty"
  Restores,     \* whether Hatari has `reststop`: a subset of BOOLEAN
  MaxAnchors,   \* kMaxReverseAnchors
  MaxStops,     \* kMaxSavedStops
  MaxActs       \* bound: what each user does

ASSUME ProgramAssumption == Program \in Seq(Nat \ {0}) /\ Program # <<>>
ASSUME ChoicesAssumption == Users \subseteq {"patient", "hasty"} /\ Restores \subseteq BOOLEAN
ASSUME LimitsAssumption ==
  MaxAnchors \in Nat \ {0} /\ MaxStops \in Nat \ {0} /\ MaxActs \in [Users -> Nat]

VARIABLES
  user, restores,
  lane,      \* the transport
  machine,   \* the debugger and the program
  files,     \* what the snapshot files hold: a moment of the program, 0 for none
  win,       \* MainWindow
  ghost,     \* what the properties compare with
  acts

vars == <<user, restores, lane, machine, files, win, ghost, acts>>

-----------------------------------------------------------------------------
Moments == DOMAIN Program

NewMachine == [at |-> 0, going |-> TRUE,   \* 0 before the entry stop
               arriving |-> 0,            \* the file a `reststop` restores
               last |-> 0,                \* the newest entry of the history ring
               shots |-> {},              \* one-shot breakpoints
               log |-> "off"]             \* keys: off, recording or replaying

(* Indices count from 1 and 0 stands for the code's -1.                     *)
NewWindow ==
  [seen |-> 0,                  \* m_lastState.pc
   anchors |-> <<>>, index |-> 0, view |-> 0,
   stops |-> <<>>, saved |-> 0, \* m_savedStops, m_historyIndex
   serial |-> 0,                \* of both kinds of file
   restoring |-> FALSE,         \* m_restorePending
   reverse |-> FALSE,           \* m_reverseRestore
   seeking |-> FALSE, seekSent |-> FALSE, seekPc |-> 0,
   stale |-> FALSE, ready |-> FALSE, hist |-> 0,
   enabled |-> FALSE,           \* m_actReverseStep
   saving |-> 0, after |-> "none", confirmed |-> FALSE,
   asking |-> "none",           \* the branch dialog and what waits for it
   logging |-> FALSE, logRestart |-> FALSE,
   stopEvent |-> FALSE, stepEvent |-> FALSE]

Init ==
  /\ user \in Users /\ restores \in Restores
  /\ lane = NewLane /\ machine = NewMachine /\ files = <<>> /\ win = NewWindow
  /\ ghost = [by |-> "stop", missed |-> FALSE, aim |-> "none", from |-> 0]
  /\ acts = 0

Frame == [lane |-> lane, win |-> win, ghost |-> ghost, files |-> files]

(* A request is dispatched at once if nothing is in flight; what is in      *)
(* flight is until its answer has been reported.                            *)
Put(f, command) == [f EXCEPT !.lane = Dispatch(Enqueue(@, <<command>>))]

-----------------------------------------------------------------------------
(* The tree of recorded stops.                                              *)

(* currentReverseIndex().                                                   *)
Current(w) == IF w.index \in DOMAIN w.anchors THEN w.index ELSE Len(w.anchors)

Parent(w, i) == IF i \in DOMAIN w.anchors THEN w.anchors[i].parent ELSE 0

HasChild(w, i) == i > 0 /\ \E a \in Range(w.anchors) : a.parent = i

(* The stop the machine is at and the ones it ran on from.                  *)
Spine(w) ==
  LET up[i \in 0..Len(w.anchors)] ==
        IF i = 0 THEN {} ELSE {i} \union up[Parent(w, i)]
  IN  up[Current(w)]

(* Fault: the children of an evicted stop are not re-numbered.              *)
Evict_NoFix(w, drop) ==
  [w EXCEPT !.anchors = RemoveAt(@, drop), !.index = IF @ > drop THEN @ - 1 ELSE @]

(* Removing a stop hands its children to its parent.                        *)
Evict(w, drop) ==
  LET slot(i) == IF i = drop THEN Parent(w, drop) ELSE IF i > drop THEN i - 1 ELSE i
      kept == RemoveAt(w.anchors, drop)
  IN  [w EXCEPT !.anchors = [i \in DOMAIN kept |-> [kept[i] EXCEPT !.parent = slot(@)]],
                !.index = slot(@), !.view = slot(@)]

(* Fault: the oldest goes, whether the machine ran on from it or not.       *)
Victims_Oldest(w) == {1}

(* The first stop off the spine with no children; with none, the oldest.    *)
Victims(w) ==
  LET off == {i \in DOMAIN w.anchors : i \notin Spine(w) /\ ~HasChild(w, i)}
  IN  CASE off # {}                    -> {i \in off : \A j \in off : i <= j}
        [] off = {} /\ Current(w) > 1  -> {1}
        [] OTHER                       -> {}

(* evictReverseAnchor(), as often as the limit asks for.                    *)
MakeRoom(f) ==
  IF Len(f.win.anchors) < MaxAnchors \/ Victims(f.win) = {} THEN f
  ELSE LET drop == CHOOSE i \in Victims(f.win) : TRUE
       IN  [f EXCEPT !.files[f.win.anchors[drop].file] = 0, !.win = Evict(@, drop)]

(* rememberReverseAnchor(): a stop at the program counter of the one the    *)
(* machine is at is that one.                                               *)
Remember(f, pc) ==
  LET g == MakeRoom(f)
      file == g.win.serial + 1
      anchor == [pc |-> pc, file |-> file, parent |-> Current(g.win),
                 isStop |-> ~g.win.stepEvent, by |-> g.ghost.by]
  IN  IF Current(f.win) > 0 /\ f.win.anchors[Current(f.win)].pc = pc THEN f
      ELSE Put([g EXCEPT !.win.anchors = Append(@, anchor), !.win.serial = file,
                         !.win.index = Len(g.win.anchors) + 1, !.win.saving = file,
                         !.files = Append(@, 0)],
               Command("save", file))

-----------------------------------------------------------------------------
(* What is on screen.                                                       *)

Viewing(w) == w.saved > 0 \/ w.view > 0

UpdateAction(f) ==
  LET w == f.win
  IN  [f EXCEPT !.win.enabled =
         f.lane.stopped /\ ~w.seeking /\ Parent(w, Current(w)) > 0 /\ (w.stale \/ w.ready)]

ShowLive(f) == [f EXCEPT !.win.restoring = FALSE, !.win.saved = 0, !.win.view = 0]

ShowLiveIfViewing(f) == IF Viewing(f.win) THEN ShowLive(f) ELSE f

ShowSaved(f, i) == [f EXCEPT !.win.saved = i, !.win.view = 0]

ShowRecorded(f, i) == UpdateAction([f EXCEPT !.win.view = i, !.win.saved = 0])

(* Fault: the stop on screen keeps its number when an older one goes.       *)
DropOldestSaved_SameIndex(f) ==
  [f EXCEPT !.files[f.win.stops[1]] = 0, !.win.stops = Tail(@)]

DropOldestSaved(f) ==
  LET g == [f EXCEPT !.files[f.win.stops[1]] = 0, !.win.stops = Tail(@)]
  IN  IF g.win.saved = 1 THEN ShowLive(g)
      ELSE [g EXCEPT !.win.saved = IF @ > 0 THEN @ - 1 ELSE 0]

SaveStop(f) ==
  LET g == IF Len(f.win.stops) >= MaxStops THEN DropOldestSaved(f) ELSE f
      file == g.win.serial + 1
  IN  Put([g EXCEPT !.win.stops = Append(@, file), !.win.serial = file,
                    !.files = Append(@, 0)],
          Command("save", file))

-----------------------------------------------------------------------------
(* Going back.                                                              *)

ArmReplayKeys(f) ==
  IF f.win.logging
  THEN Put(Put([f EXCEPT !.win.logRestart = TRUE], Command("off", 0)), Command("keys", 0))
  ELSE f

(* Fault: the recorded stop the machine is at stays the one it left.        *)
GoBackTo_NotMoved(f, i, pc, aim) ==
  LET a == f.win.anchors[i]
      g == [f EXCEPT !.win.restoring = TRUE, !.win.reverse = TRUE,
                     !.win.seeking = FALSE, !.win.seekSent = FALSE]
  IN  Put(ArmReplayKeys(UpdateAction(g)), Command("rest", a.file))

(* Restore the recorded stop `i`; run on from there to `pc` unless it is    *)
(* the stop's own, or 0.                                                    *)
GoBackTo(f, i, pc, aim) ==
  LET a == f.win.anchors[i]
      seek == pc # 0 /\ pc # a.pc
      g == [f EXCEPT !.win.index = i, !.win.restoring = TRUE, !.win.reverse = TRUE,
                     !.win.seeking = seek, !.win.seekSent = FALSE,
                     !.win.seekPc = IF seek THEN pc ELSE @,
                     !.ghost.aim = aim, !.ghost.from = machine.at]
  IN  Put(ArmReplayKeys(UpdateAction(g)), Command("rest", a.file))

MayReverse(f) ==
  f.lane.stopped /\ ~f.win.seeking /\ Parent(f.win, Current(f.win)) > 0

(* Fault: the history ring is believed also after a restore.                *)
ReverseStep_TrustRing(f) ==
  LET origin == Parent(f.win, Current(f.win))
  IN  IF ~MayReverse(f) \/ f.win.hist = 0 THEN f
      ELSE GoBackTo(ShowLiveIfViewing(f), origin, f.win.hist, "step")

ReverseStep(f) ==
  LET origin == Parent(f.win, Current(f.win))
      previous == IF f.win.stale THEN f.win.anchors[origin].pc ELSE f.win.hist
  IN  IF ~MayReverse(f) \/ previous = 0 THEN f
      ELSE GoBackTo(ShowLiveIfViewing(f), origin, previous, "step")

(* The nearest of the stops this run came through that satisfies Test.      *)
NearestBack(w, Test(_)) ==
  LET found == {i \in Spine(w) \ {Current(w)} : Test(w.anchors[i])}
  IN  IF found = {} THEN 0 ELSE CHOOSE i \in found : \A j \in found : j <= i

Stale(f) == [f EXCEPT !.win.stale = TRUE]

ReverseContinue(f) ==
  LET target == NearestBack(f.win, LAMBDA a : a.isStop)
  IN  IF ~MayReverse(f) \/ target = 0 THEN f
      ELSE GoBackTo(Stale(ShowLiveIfViewing(f)), target, 0, "stop")

(* runBackToCursor(), previousWrite(), previousRead(): reverseToAddress().  *)
ReverseTo(f, pc) ==
  LET exact == NearestBack(f.win, LAMBDA a : a.pc = pc)
      g == ShowLiveIfViewing(f)
  IN  CASE ~MayReverse(f) -> f
        [] MayReverse(f) /\ exact > 0 -> GoBackTo(Stale(g), exact, 0, "to")
        [] OTHER -> GoBackTo(g, Parent(f.win, Current(f.win)), pc, "to")

RestoreRecorded(f) ==
  LET i == f.win.view
  IN  CASE ~f.lane.stopped \/ f.win.seeking \/ i \notin DOMAIN f.win.anchors -> f
        [] f.lane.stopped /\ i > 0 /\ i = Current(f.win) -> ShowLive(f)
        [] OTHER -> GoBackTo(Stale([f EXCEPT !.win.view = 0]), i, 0, "stop")

(* Restore Stop starts the recorded tree again.                             *)
RestoreStop(f) ==
  LET i == IF f.win.saved > 0 THEN f.win.saved ELSE Len(f.win.stops)
      g == [f EXCEPT !.win.restoring = TRUE, !.win.anchors = <<>>, !.win.index = 0,
                     !.win.view = 0, !.win.seeking = FALSE, !.win.seekSent = FALSE,
                     !.win.reverse = FALSE, !.win.stale = TRUE]
  IN  IF ~f.lane.stopped \/ f.win.stops = <<>> THEN f
      ELSE Put(UpdateAction(g), Command("rest", f.win.stops[i]))

-----------------------------------------------------------------------------
(* Going forward.  Leaving a stop that others run on from asks first.       *)

Moves == {"step", "continue", "cursor"}

Continue(f) == [f EXCEPT !.lane = Dispatch(Resume(@))]

(* step(), stepOver(); resume(); runToCursor() - past the question.         *)
Go(f, move, pc) ==
  LET g == ShowLiveIfViewing([f EXCEPT !.win.confirmed = FALSE])
  IN  CASE move = "cursor" ->
             Continue(ShowLiveIfViewing(Put([f EXCEPT !.win.confirmed = FALSE],
                                            Command("once", pc))))
        [] move # "cursor" /\ f.win.saving > 0 -> [f EXCEPT !.win.after = move]
        [] move = "step" /\ f.win.saving = 0 ->
             Put(Put([g EXCEPT !.win.stepEvent = TRUE], Command("step", 0)),
                 StateRead("regs"))
        [] OTHER -> Continue(g)

(* confirmReverseBranch() opens a dialog, and its event loop.               *)
Leave(f, move, pc) ==
  IF ~f.win.confirmed /\ HasChild(f.win, Current(f.win))
  THEN [f EXCEPT !.win.asking = move]
  ELSE Go(f, move, pc)

-----------------------------------------------------------------------------
(* The window's reactions to the transport.                                 *)

OnStopped(f) ==
  Put([f EXCEPT !.win.stopEvent = TRUE, !.win.enabled = FALSE], StateRead("regs"))

OnRunning(f) == [f EXCEPT !.win.stopEvent = FALSE, !.win.enabled = FALSE]

StartInputLog(f) ==
  IF f.win.logging THEN f ELSE Put([f EXCEPT !.win.logging = TRUE], Command("log", 0))

Publish(f) ==
  IF f.win.stopEvent THEN [f EXCEPT !.win.stopEvent = FALSE]
  ELSE [f EXCEPT !.win.stepEvent = FALSE]

(* A state is the restored stop's, a landing of the run forward, or a stop  *)
(* the machine came to.                                                     *)
Place(f, pc, fromRestore) ==
  LET landed == [f EXCEPT !.win.seeking = FALSE, !.win.seekSent = FALSE,
                          !.win.stale = FALSE, !.win.ready = FALSE]
      i == Current(f.win)
      moved == i = 0 \/ f.win.anchors[i].pc # pc
  IN  CASE f.win.seeking /\ pc = f.win.seekPc -> Remember(landed, pc)
        [] ~(f.win.seeking /\ pc = f.win.seekPc) /\ ~fromRestore /\ f.lane.stopped ->
             Remember(IF moved THEN [f EXCEPT !.win.stale = FALSE, !.win.ready = FALSE]
                      ELSE f, pc)
        [] OTHER -> f

(* Fault: the run forward is opened in the log again before it has landed.  *)
ReopenLog_Early(f) ==
  IF f.win.logRestart THEN Put([f EXCEPT !.win.logRestart = FALSE], Command("log", 0))
  ELSE f

ReopenLog(f) ==
  IF f.win.logRestart /\ ~f.win.seeking
  THEN Put([f EXCEPT !.win.logRestart = FALSE], Command("log", 0))
  ELSE f

RunForward(f, pc) ==
  IF f.win.seeking /\ pc # f.win.seekPc /\ ~f.win.seekSent
  THEN Continue(Put([f EXCEPT !.win.seekSent = TRUE], Command("once", f.win.seekPc)))
  ELSE f

OnStateUpdated(f, pc) ==
  LET f1 == [f EXCEPT !.win.seen = pc]
      back == f.win.restoring
      f2 == [f1 EXCEPT !.win.restoring = FALSE, !.win.saved = 0, !.win.view = 0]
      f3 == IF ~back /\ f.lane.stopped THEN StartInputLog(f1) ELSE f1
      f4 == Stale(f2)
      f5 == [IF f.win.reverse THEN f4 ELSE Remember(f4, pc) EXCEPT !.win.reverse = FALSE]
      f6 == Publish(ReopenLog(Place(IF back THEN f5 ELSE f3, pc, back)))
  IN  IF ~back /\ Viewing(f.win) THEN [f1 EXCEPT !.ghost.missed = TRUE]
      ELSE UpdateAction(RunForward(Put(f6, Command("hist", 0)), pc))

OnHistory(f) == UpdateAction([f EXCEPT !.win.hist = machine.last, !.win.ready = TRUE])

(* commandFinished: the statesave of the stop on screen.                    *)
OnFinished(f, c) ==
  IF c.kind # "save" \/ c.n # f.win.saving THEN f
  ELSE LET g == [f EXCEPT !.win.saving = 0, !.win.after = "none"]
       IN  IF f.win.after = "none" THEN g ELSE Leave(g, f.win.after, 0)

-----------------------------------------------------------------------------
(* Steps.                                                                   *)

Commit(f, m) ==
  LET l == Dispatch(f.lane)
      leaves == lane.stopped /\ ~l.stopped
      g == IF leaves THEN OnRunning(f) ELSE f
  IN  /\ lane' = l /\ win' = g.win /\ ghost' = g.ghost /\ files' = g.files
      /\ machine' = IF leaves THEN [m EXCEPT !.going = TRUE] ELSE m

PcAt(m) == Program[m.at]

(* The machine after a command.                                             *)
Executed(m, c) ==
  CASE c.kind = "step" -> [m EXCEPT !.last = PcAt(m), !.at = @ + 1]
    [] c.kind = "once" -> [m EXCEPT !.shots = @ \union {c.n}]
    [] c.kind = "log"  -> [m EXCEPT !.log = "recording"]
    [] c.kind = "keys" -> [m EXCEPT !.log = IF @ = "off" THEN "replaying" ELSE @]
    [] c.kind = "off"  -> [m EXCEPT !.log = "off"]
    [] OTHER -> m

Saved(f, c) ==
  IF c.kind = "save" THEN [f EXCEPT !.files[c.n] = machine.at] ELSE f

Reported(f, c) ==
  CASE c.kind = "regs" -> OnStateUpdated(f, PcAt(machine))
    [] c.kind = "hist" -> OnHistory(f)
    [] OTHER -> f

(* A restore that finds its file leaves the debugger and comes back to it.  *)
Restoring(c) == c.kind = "rest" /\ restores /\ files[c.n] # 0

Complete ==
  /\ InFlight(lane) /\ ~Restoring(lane.current)
  /\ lane.current.kind = "step" => machine.at < Len(Program)
  /\ LET c == lane.current
         f == [Frame EXCEPT !.ghost.by = IF c.kind = "step" THEN "step" ELSE @]
         g == Reported(Saved(f, c), c)
     IN  Commit(OnFinished([g EXCEPT !.lane.current = NoCommand], c), Executed(machine, c))
  /\ UNCHANGED <<user, restores, acts>>

CompleteRestore ==
  /\ InFlight(lane) /\ Restoring(lane.current)
  /\ LET c == lane.current
         f == [Frame EXCEPT !.lane.current = NoCommand, !.lane.stopped = FALSE]
     IN  Commit(OnFinished(f, c), [machine EXCEPT !.arriving = c.n])
  /\ UNCHANGED <<user, restores, acts>>

(* Back in the debugger, with the snapshot's instruction unexecuted.        *)
Arrive ==
  /\ machine.going /\ machine.arriving > 0
  /\ Commit(OnStopped([Frame EXCEPT !.lane.stopped = TRUE, !.ghost.by = "stop"]),
            [machine EXCEPT !.at = files[machine.arriving], !.arriving = 0, !.going = FALSE])
  /\ UNCHANGED <<user, restores, acts>>

(* A breakpoint, an exception or a Pause; a one-shot is not run past.       *)
Stop ==
  /\ machine.going /\ machine.arriving = 0
  /\ \E to \in Moments :
       /\ to > machine.at /\ (machine.at = 0 => to = 1)
       /\ \A t \in machine.at + 1 .. to - 1 : Program[t] \notin machine.shots
       /\ Commit(OnStopped([Frame EXCEPT !.lane.stopped = TRUE, !.ghost.by = "stop"]),
                 [machine EXCEPT !.at = to, !.going = FALSE,
                                 !.last = IF to > 1 THEN Program[to - 1] ELSE 0,
                                 !.shots = @ \ {Program[to]}])
  /\ UNCHANGED <<user, restores, acts>>

Settled == lane.queue = <<>> /\ ~InFlight(lane) /\ ~lane.continuing

MayAct == win.asking = "none" /\ (user = "patient" => Settled)

Ask(f) ==
  /\ MayAct /\ acts < MaxActs[user] /\ acts' = acts + 1
  /\ Commit(f, machine)
  /\ UNCHANGED <<user, restores>>

AskStopped(f) == lane.stopped /\ Ask(f)

UserSteps       == AskStopped(Leave(Frame, "step", 0))
UserContinues   == AskStopped(Leave(Frame, "continue", 0))
UserRunsTo      == \E pc \in Range(Program) : AskStopped(Leave(Frame, "cursor", pc))
UserSaves       == AskStopped(SaveStop(Frame))
UserRestores    == win.stops # <<>> /\ AskStopped(RestoreStop(Frame))
UserReverses    == win.enabled /\ AskStopped(ReverseStep(Frame))
UserReversesToAStop == MayReverse(Frame) /\ AskStopped(ReverseContinue(Frame))
UserReversesTo  == MayReverse(Frame) /\ \E pc \in Range(Program) : AskStopped(ReverseTo(Frame, pc))
UserRestoresRecorded == win.view > 0 /\ AskStopped(RestoreRecorded(Frame))

(* Looking needs no stop.                                                   *)
UserLooks ==
  \/ \E i \in DOMAIN win.stops : Ask(ShowSaved(Frame, i))
  \/ \E i \in DOMAIN win.anchors : Ask(ShowRecorded(Frame, i))
  \/ Viewing(win) /\ Ask(ShowLive(Frame))

(* The branch dialog is answered; the event loop ran in between.            *)
Answer ==
  /\ win.asking # "none"
  /\ LET f == [Frame EXCEPT !.win.asking = "none"]
     IN  \/ Commit(f, machine)
         \/ \E pc \in Range(Program) :
              /\ win.asking # "cursor" => pc = Program[1]
              /\ Commit(Go([f EXCEPT !.win.confirmed = TRUE], win.asking, pc), machine)
  /\ UNCHANGED <<user, restores, acts>>

Next ==
  \/ Complete \/ CompleteRestore \/ Arrive \/ Stop
  \/ UserSteps \/ UserContinues \/ UserRunsTo \/ UserSaves \/ UserRestores
  \/ UserReverses \/ UserReversesToAStop \/ UserReversesTo \/ UserRestoresRecorded
  \/ UserLooks \/ Answer

Spec == Init /\ [][Next]_vars

-----------------------------------------------------------------------------
(* Properties.                                                              *)

(* Every part keeps its type; no list outgrows its limit; and the recorded  *)
(* stops are a forest whose parents come before their children, through     *)
(* every eviction: the walks to a parent end, and the machine is at a stop  *)
(* of the list (evictReverseAnchor(), currentReverseIndex()).               *)
TypeOK ==
  /\ machine.at \in Moments \union {0} /\ machine.log \in {"off", "recording", "replaying"}
  /\ files \in Seq(0..Len(Program)) /\ Len(files) = win.serial
  /\ Len(win.anchors) <= MaxAnchors /\ Len(win.stops) <= MaxStops
  /\ win.saved \in 0..Len(win.stops) /\ win.view \in 0..Len(win.anchors)
  /\ win.saving \in 0..win.serial /\ win.asking \in Moves \union {"none"}
  /\ win.anchors # <<>> => win.index \in DOMAIN win.anchors
  /\ \A i \in DOMAIN win.anchors : win.anchors[i].parent \in 0..i - 1

Patient == user = "patient" /\ restores /\ ~ghost.missed
AtRest == lane.stopped /\ Settled

(* For a patient user with `reststop`, after any reverse, branch, restore   *)
(* or eviction: the recorded stop the window says the machine is at has the *)
(* machine's program counter; every stop that can be restored has its       *)
(* snapshot, at its program counter, or the snapshot is on its way; and     *)
(* what Reverse Continue takes for a stop was not reached by a step.        *)
OnItsWay(file) ==
  \E c \in Range(lane.queue) \union {lane.current} : c.kind = "save" /\ c.n = file
RecordIsTrue ==
  Patient =>
    /\ AtRest /\ win.anchors # <<>> => win.anchors[Current(win)].pc = PcAt(machine)
    /\ \A a \in Range(win.anchors) :
         /\ IF files[a.file] = 0 THEN OnItsWay(a.file) ELSE Program[files[a.file]] = a.pc
         /\ a.isStop <=> a.by = "stop"
    /\ \A file \in Range(win.stops) : files[file] = 0 => OnItsWay(file)

(* Reverse Step runs forward only to an instruction between the restored    *)
(* snapshot and the stop it left, so it comes back (reverseStep()).         *)
SeekIsOnThePath ==
  Patient /\ win.seeking /\ ~win.seekSent /\ ghost.aim = "step" =>
    \E t \in files[win.anchors[Current(win)].file] .. ghost.from - 1 :
      Program[t] = win.seekPc

(* At a stop with nothing left to do, and no run forward under way, keys    *)
(* are recorded: no reverse leaves the log closed or in replay.             *)
KeysAreRecorded ==
  Patient /\ AtRest /\ win.logging /\ ~win.seeking => machine.log = "recording"

(* Eviction is only the machine's way back when all there is lies on it,    *)
(* and never the stop it is at.  (Restore Stop starts a new tree.)          *)
EvictionSparesTheSpine ==
  [][\A i \in Spine(win) :
       win'.anchors # <<>> /\ win.anchors[i].file \notin {a.file : a \in Range(win'.anchors)} =>
         \/ win'.index = 1 /\ win'.anchors[1].parent = 0 /\ Len(win'.anchors) = 1
         \/ i # Current(win) /\ Spine(win) = DOMAIN win.anchors]_vars

(* The saved stop on screen is the same one until another is chosen or the  *)
(* live machine is shown (saveStop()).                                      *)
ScreenKeepsItsStop ==
  [][win.saved > 0 /\ win'.saved > 0 /\ ~UserLooks =>
       win'.stops[win'.saved] = win.stops[win.saved]]_vars

(* What the comment in onStateUpdated() says: the register batch of a stop  *)
(* publishes it.                                                            *)
StopIsPublished == AtRest => ~win.stopEvent

(* What the header says of a Hatari without `reststop`: a reverse stays     *)
(* where it is.  The window never runs the program for one.                 *)
StaysWhereItIs == ~restores => ~win.seekSent

(* A reverse comes back: with the program stopped and nothing left to do,   *)
(* none is under way, so that the next one is offered.                      *)
ReverseEnds == Patient /\ AtRest /\ ghost.aim = "step" => ~win.seeking

(* The tree of recorded stops and the stop on screen survive the window's   *)
(* own housekeeping: eviction of old stops, saving of new ones.             *)
HousekeepingKeepsTheStop == EvictionSparesTheSpine /\ ScreenKeepsItsStop

(* A reverse leaves the record true and the log recording.                  *)
ReverseKeepsTheRecord == RecordIsTrue /\ KeysAreRecorded
=============================================================================

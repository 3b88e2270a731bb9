-------------------------- MODULE DebugSessionInv --------------------------
(***************************************************************************)
(* The inductive invariant of DebugSession.  It relates what is still to   *)
(* be done - the line: the command in flight, at place 0, and the queue    *)
(* behind it - to what the debugger has done, what was read of it and what *)
(* the window waits for.  It holds of the state between events and, with   *)
(* the command `cur` that a handler is about, of every frame a handler     *)
(* passes through; m is the debugger, r what was read.                     *)
(***************************************************************************)
EXTENDS DebugSession

FrameType ==
  [lane : LaneType, ctl : ControlType, win : WindowType, ghost : GhostType, model : Nat \ {0}]

Line(cur, q) == [i \in 0..Len(q) |-> IF i = 0 THEN cur ELSE q[i]]

Holds(L, kind) == \E i \in DOMAIN L : L[i].kind = kind

-----------------------------------------------------------------------------
(* Of every user.                                                           *)

(* While the program runs nothing is in flight, and only edits are queued.  *)
Quiet(f, cur, m) ==
  /\ cur # NoCommand => f.lane.stopped
  /\ ~f.lane.stopped =>
       /\ ~f.ctl.stopEvent /\ ~f.lane.continuing
       /\ \A i \in DOMAIN f.lane.queue : f.lane.queue[i].kind \in {"clear", "arm", "watch"}
  /\ m.going => ~f.lane.stopped

(* What a session has set up at its first stop, and at a stop with bases.   *)
Attached(f, r) ==
  /\ f.lane.stopped => f.ctl.attached
  /\ f.ctl.attached => f.ctl.coverage /\ f.ctl.turbo
  /\ f.win.bases <=> f.ctl.armed
  /\ f.ctl.armed => f.ctl.attached
  /\ f.ctl.guided => f.ctl.attached
  /\ ~f.ctl.attached => ~r.valid
  /\ f.win.seen.valid => r.valid

(* The last of the commands of these kinds, or what was done when there is  *)
(* none, is n.                                                              *)
Ends(L, kinds, kind, n, done) ==
  \/ \E i \in DOMAIN L : /\ L[i].kind = kind /\ L[i].n = n
                         /\ \A j \in DOMAIN L : j > i => L[j].kind \notin kinds
  \/ done = n /\ \A i \in DOMAIN L : L[i].kind \notin kinds

(* What is armed in the end is what the panel lists.                        *)
EndsArmed(f, L, m) ==
  f.ctl.armed =>
    /\ Ends(L, {"clear", "arm"}, "arm", f.model, m.bp)
    /\ Ends(L, {"clear", "watch"}, "watch", f.model, m.wp)

EndsCovered(f, L, m) == f.ctl.coverage => "coverage" \in m.done \/ Holds(L, "coverage")

(* A one-shot of a guided run that is over will be cleared.                 *)
ShotIsCleared(f, L, m) ==
  ~f.ctl.guided =>
    /\ 2 \in m.shots => Holds(L, "clear")
    /\ \A i \in DOMAIN L : L[i].kind = "once" /\ L[i].n = 2 =>
         \E j \in DOMAIN L : j > i /\ L[j].kind = "clear"

(* A state that is reported was read since the program moved, or not yet.   *)
ReadFirst(L, i) ==
  \E j \in DOMAIN L : /\ j <= i /\ L[j].kind = "regs"
                      /\ \A k \in DOMAIN L : j < k /\ k < i => L[k].kind # "step"

ReadAlready(L, i, m, r) ==
  /\ r.valid /\ r.move = m.move
  /\ \A k \in DOMAIN L : k < i => L[k].kind # "step"

NotRead(L, i, r) ==
  /\ ~r.valid /\ L[i].kind = "basepage"
  /\ \A j \in DOMAIN L : j < i => L[j].kind # "regs"

ReportsAreFresh(L, m, r) ==
  /\ \A i \in DOMAIN L : L[i].emits => ReadFirst(L, i) \/ ReadAlready(L, i, m, r) \/ NotRead(L, i, r)
  /\ r.valid => r.move <= m.move /\ (r.move = m.move => r.pc = m.pc)

SaveIsComing(f, L) == f.ctl.profileSave => Holds(L, "profileSave")

(* At a stop with the program loaded the bases are known or will be.        *)
BasesCome(f, L, m, r) ==
  f.lane.stopped /\ ~f.lane.continuing /\ m.loaded =>
    \/ f.win.bases
    \/ r.bases /\ \E j \in DOMAIN L : L[j].emits
    \/ \E i, j \in DOMAIN L : i <= j /\ L[i].kind = "basepage" /\ L[j].emits

(* The stops recorded are stops one after another, the last of them at most *)
(* as late as what was read.                                                *)
StopsAreRecorded(f, L, r) ==
  LET anchors == f.win.anchors
      last == anchors[Len(anchors)]
  IN  /\ \A i, j \in DOMAIN anchors : i < j => anchors[i].move < anchors[j].move
      /\ anchors # <<>> =>
           /\ r.valid /\ last.move <= r.move
           /\ last.move = r.move => last.pc = r.pc
      /\ f.win.saving <= Len(anchors)
      /\ \A i \in DOMAIN L : L[i].kind = "save" => L[i].n \in DOMAIN anchors

-----------------------------------------------------------------------------
(* Of a patient user, who acts when nothing is to be done.                  *)

Has(L, kind, n) == \E i \in DOMAIN L : L[i].kind = kind /\ L[i].n = n

(* Before a Continue only what it is for is done.                           *)
ContinueHasItsEnd(f, L, m) ==
  f.lane.continuing =>
    /\ \A i \in DOMAIN L : L[i].kind \in {"none", "once", "profileOn", "dump"}
    /\ f.ghost.aim = "cursor"  => 1 \in m.shots \/ Has(L, "once", 1)
    /\ f.ghost.aim = "profile" => /\ 2 \in m.shots \/ Has(L, "once", 2)
                                  /\ m.profiling \/ Holds(L, "profileOn")
    /\ f.ghost.aim = "stepOut" => 3 \in m.shots \/ Has(L, "once", 3)

(* A step-out waits for one dump, of the stop it was asked at.              *)
StepOutWaits(f, L, m) ==
  f.ctl.stepOut =>
    /\ ~f.lane.continuing /\ f.ghost.outAt = m.move
    /\ Holds(L, "dump")
    /\ \A i \in DOMAIN L : \/ L[i].kind = "none"
                           \/ L[i].kind = "dump" /\ L[i].n = m.move

(* What is saved is the stop recorded, and nothing waits but for a save.    *)
SavesAreHere(f, L, m) ==
  /\ f.win.after = "none"
  /\ f.win.saving # 0 => Has(L, "save", f.win.saving)
  /\ \A i \in DOMAIN L : L[i].kind = "save" => f.win.anchors[L[i].n].pc = m.pc /\ ~Holds(L, "step")
  /\ \A i \in DOMAIN f.win.anchors :
       f.win.anchors[i].file # 0 => f.win.anchors[i].filePc = f.win.anchors[i].pc

(* The views show the stop, or will; a step is the first thing done.        *)
ViewsCome(f, L, m) ==
  /\ f.lane.stopped => (f.win.seen.valid /\ f.win.seen.move = m.move) \/ Holds(L, "disasm")
  /\ \A i \in DOMAIN L : L[i].kind = "step" =>
       /\ \A j \in DOMAIN L : j < i => L[j].kind = "none"
       /\ \E j \in DOMAIN L : j > i /\ L[j].kind = "disasm"

(* A stop or a step is told when the views show it.                         *)
EventsCome(f, L, m) ==
  /\ f.ctl.stopEvent \/ f.ctl.stepEvent => Holds(L, "disasm")
  /\ f.ctl.stepEvent => ~f.ctl.stopEvent /\ (m.by = "step" \/ Holds(L, "step"))

(* What is asked once is done or will be.                                   *)
SetupComes(f, L, m) ==
  /\ f.ctl.attached => "symbols" \in m.done \/ Holds(L, "symbols")
  /\ f.ctl.turbo => "turbo" \in m.done \/ Holds(L, "turbo")
  /\ f.win.logging => "replaylog" \in m.done \/ Holds(L, "replaylog")
  /\ \/ m.engine = "uae" /\ ~Holds(L, "ext")
     \/ \E i \in DOMAIN L : L[i].kind = "uae" /\ \A j \in DOMAIN L : j > i => L[j].kind # "ext"

-----------------------------------------------------------------------------
LineOK(f, L, m, r) ==
  /\ EndsArmed(f, L, m) /\ EndsCovered(f, L, m) /\ ShotIsCleared(f, L, m)
  /\ ReportsAreFresh(L, m, r) /\ SaveIsComing(f, L) /\ BasesCome(f, L, m, r)
  /\ StopsAreRecorded(f, L, r)

PatienceOK(f, L, m) ==
  user = "patient" =>
    /\ ContinueHasItsEnd(f, L, m) /\ StepOutWaits(f, L, m) /\ SavesAreHere(f, L, m)
    /\ ViewsCome(f, L, m) /\ EventsCome(f, L, m) /\ SetupComes(f, L, m)

FrameOK(f, cur, m, r) ==
  /\ f \in FrameType
  /\ Quiet(f, cur, m) /\ Attached(f, r)
  /\ LineOK(f, Line(cur, f.lane.queue), m, r)
  /\ PatienceOK(f, Line(cur, f.lane.queue), m)

(* Between sessions nothing is left of the last one.                        *)
NoSession ==
  /\ lane.queue = <<>> /\ lane.current = NoCommand /\ ~lane.stopped
  /\ ctl = NewControl /\ win = NewWindow

IInv ==
  /\ TypeOK
  /\ IF live THEN FrameOK(Frame, lane.current, machine, read) ELSE NoSession
=============================================================================

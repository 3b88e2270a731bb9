------------------------------ MODULE BuildRun ------------------------------
(***************************************************************************)
(* Build and Run: the BuildService with its one process at a time,         *)
(* MainWindow's requests and what it does when a build has finished,       *)
(* SessionLauncher, the life of a session and of its directory, and the    *)
(* remote control's `build`, `buildrelease`, `run` and `stop`.             *)
(*                                                                         *)
(* Dialogs and the remote control wait in nested event loops: `loops` is   *)
(* the stack of them, and a loop that has its answer goes on only when it  *)
(* is the innermost.  A handler is a function on a frame, the state it may *)
(* change; Commit makes the frame the next state.                          *)
(***************************************************************************)
EXTENDS Integers, Sequences, FiniteSets, SequencesExt

CONSTANTS
  Sources,      \* the source files that may be in front
  Linking,      \* whether the project has a second module: a subset of BOOLEAN
  Fates,        \* what a launch may meet, see Launch
  Questions,    \* the questions a launch may have for its user
  MaxAsks,      \* bound: builds and runs that are asked for
  MaxEvents     \* bound: sessions that end, changes of the file in front, time-outs

ASSUME BoundsAssumption ==
  /\ Linking \subseteq BOOLEAN /\ Questions \subseteq {"rom", "floppy"}
  /\ MaxAsks \in Nat /\ MaxEvents \in Nat

VARIABLES
  linking,   \* m_settings.additionalSources is not empty
  win,       \* MainWindow
  svc,       \* BuildService; `lacks`: the files themselves tell of a module that is missing
  prog,      \* the program on disk of each source
  prev,      \* the copy snapshotPreviousBuild keeps of it
  host,      \* the debug backend, its media listener and its process
  dirs,      \* the session directories on disk
  loops,     \* nested event loops, the innermost last
  due,       \* remote operations whose 0 ms timer has not fired
  used       \* against the bounds

vars == <<linking, win, svc, prog, prev, host, dirs, loops, due, used>>

-----------------------------------------------------------------------------
None == "none"
NoProgram == [id |-> 0, release |-> FALSE, whole |-> FALSE]
NoSession == [state |-> "none", src |-> None, prog |-> NoProgram, dir |-> 0,
              port |-> 0, boots |-> FALSE, over |-> FALSE]

Init ==
  /\ linking \in Linking
  /\ win \in [tab : Sources, launch : {FALSE}, quiet : {FALSE}, ok : {FALSE},
              map : {[names |-> None, lists |-> None]}, named : {None},
              dir : {0}, panel : {FALSE}]
  /\ svc = [id |-> 0, src |-> None, release |-> FALSE, steps |-> <<>>,
            next |-> 1, failed |-> FALSE, lacks |-> FALSE,
            running |-> FALSE]
  /\ prog = [s \in Sources |-> NoProgram] /\ prev = prog
  /\ host = [kind |-> "native", port |-> 0, ports |-> 0, ses |-> NoSession]
  /\ dirs = [all |-> {}, boot |-> {}, made |-> 0]
  /\ loops = <<>> /\ due = <<>>
  /\ used = [asks |-> 0, events |-> 0]

Frame == [win |-> win, svc |-> svc, prog |-> prog, prev |-> prev, host |-> host,
          dirs |-> dirs, loops |-> loops]

Commit(f) ==
  /\ win' = f.win /\ svc' = f.svc /\ prog' = f.prog /\ prev' = f.prev
  /\ host' = f.host /\ dirs' = f.dirs /\ loops' = f.loops

Use(counter, bound) == used[counter] < bound /\ used' = [used EXCEPT ![counter] = @ + 1]

-----------------------------------------------------------------------------
(* The remote control's wait hears of builds and of sessions.               *)

Hear(f, op, answer) ==
  [f EXCEPT !.loops = [i \in DOMAIN @ |->
     IF @[i].kind = "remote" /\ @[i].op = op THEN [@[i] EXCEPT !.done = answer] ELSE @[i]]]

(* buildCompleted: the answer to `build`, and if it failed to `run` too.    *)
BuildCompleted(f, ok) ==
  IF ok THEN Hear(f, "build", "ok") ELSE Hear(Hear(f, "build", "error"), "run", "error")

Push(f, loop) == [f EXCEPT !.loops = Append(@, loop)]

(* Fault: a launch refused in quiet mode tells nobody.                      *)
RefuseRun_Silent(f) ==
  IF f.win.quiet THEN f ELSE Push(f, [kind |-> "notice", done |-> "no"])

(* A refusal is a message, or news for the remote control.                  *)
RefuseRun(f) ==
  IF f.win.quiet THEN BuildCompleted(f, FALSE) ELSE Push(f, [kind |-> "notice", done |-> "no"])

(* Fault: the run that was asked for stays asked for.                       *)
RefuseBuild_KeepIntent(f) ==
  LET g == BuildCompleted(f, FALSE)
  IN  IF g.win.quiet THEN g ELSE Push(g, [kind |-> "notice", done |-> "no"])

RefuseBuild(f) ==
  LET g == BuildCompleted([f EXCEPT !.win.launch = FALSE], FALSE)
  IN  IF g.win.quiet THEN g ELSE Push(g, [kind |-> "notice", done |-> "no"])

-----------------------------------------------------------------------------
(* Sessions.                                                                *)

(* The handler of runningChanged(false).                                    *)
SessionOver(f) == [f EXCEPT !.win.named = None, !.win.panel = FALSE]

(* stop(): whatever process there was, it is reported as ended.             *)
StopBackend(f) ==
  IF f.host.ses.state = "none" THEN f
  ELSE SessionOver([f EXCEPT !.host.ses = NoSession])

(* Fault: the window still knows the directory it has removed.              *)
RemoveDir_Known(f) ==
  [f EXCEPT !.dirs.all = @ \ {f.win.dir}, !.dirs.boot = @ \ {f.win.dir}]

RemoveDir(f) ==
  [f EXCEPT !.dirs.all = @ \ {f.win.dir}, !.dirs.boot = @ \ {f.win.dir}, !.win.dir = 0]

(* Fault: the directory of the session before stays.                        *)
MakeDir_Leaves(f) ==
  LET d == f.dirs.made + 1
  IN  [f EXCEPT !.dirs.all = @ \union {d}, !.dirs.made = d, !.win.dir = d]

(* makeSessionDir().                                                        *)
MakeDir(f) ==
  LET g == RemoveDir(f)
      d == g.dirs.made + 1
  IN  [g EXCEPT !.dirs.all = @ \union {d}, !.dirs.made = d, !.win.dir = d]

SelectBackend(f, kind) ==
  IF f.host.kind = kind THEN f
  ELSE [StopBackend(f) EXCEPT !.host.kind = kind, !.host.port = 0]

(* engageMediaDisplay() or leaveMediaDisplay(): every listen is a new port. *)
Display(f, media) ==
  IF media THEN [f EXCEPT !.host.ports = @ + 1, !.host.port = f.host.ports + 1,
                          !.win.panel = TRUE]
  ELSE [f EXCEPT !.win.panel = FALSE]

(* IDebugBackend::start() and what launchAt() does with its answer.         *)
Start(f, plan, fails) ==
  LET a == StopBackend(f)
      b == [a EXCEPT !.dirs.all = @ \union {plan.dir},
                     !.host.port = IF plan.port = 0 THEN 0 ELSE @]
      up == [NoSession EXCEPT !.state = "live", !.src = plan.src, !.prog = f.prog[plan.src],
               !.dir = plan.dir, !.port = plan.port, !.boots = plan.dir \in f.dirs.boot,
               !.over = f.host.ses.state # "none"]
  IN  CASE fails = "early" -> RefuseRun([b EXCEPT !.win.named = None])
        [] fails = "late"  -> RefuseRun([SessionOver(b) EXCEPT !.win.named = None])
        [] OTHER           -> Hear([b EXCEPT !.host.ses = up], "run", "ok")

(* Fault: a session that never began leaves its program's name.             *)
Begin_NameStays(f, plan, fails) ==
  LET g == Start([f EXCEPT !.win.named = plan.src], plan, fails)
  IN  IF fails = "early" THEN [g EXCEPT !.win.named = plan.src] ELSE g

(* launchAt() from the floppy image on: the program is named before start().*)
Begin(f, plan, fails) ==
  IF plan.floppy /\ plan.dir \notin f.dirs.all THEN RefuseRun(f)
  ELSE Start([f EXCEPT !.win.named = plan.src], plan, fails)

(* launchAt().  A fate is the first thing in its way, the transport and the *)
(* media channel of the emulator it finds.  Only an interactive launch has  *)
(* questions: of a ROM that may not autostart, or that is missing.          *)
Launch(f, src, fate) ==
  LET g == MakeDir(f)
      h == [Display(SelectBackend(g, fate.kind), fate.media) EXCEPT
              !.dirs.boot = @ \union {g.win.dir}]
      plan == [src |-> src, dir |-> g.win.dir, floppy |-> fate.at = "floppy",
               port |-> IF fate.media THEN h.host.port ELSE 0]
  IN  CASE src = None \/ fate.at = "nothing"            -> RefuseRun(f)
        [] src # None /\ f.prog[src] = NoProgram        -> RefuseRun(f)
        [] fate.at = "mismatch"                         -> RefuseRun(g)
        [] fate.at = "refused"                          -> RefuseRun(h)
        [] fate.at \in Questions /\ ~f.win.quiet        ->
             Push(h, [kind |-> "question", plan |-> plan, done |-> "no"])
        [] OTHER                                        -> Begin(h, plan, fate.at)

-----------------------------------------------------------------------------
(* Builds.                                                                  *)

(* onBuildFinished().                                                       *)
BuildFinished(f, ok, fate) ==
  LET a == BuildCompleted([f EXCEPT !.win.ok = ok], ok)
      b == IF ok THEN [a EXCEPT !.win.map = [names |-> f.win.tab, lists |-> f.svc.src]] ELSE a
      c == [b EXCEPT !.win.launch = FALSE]
  IN  IF b.win.launch /\ ok THEN Launch(c, c.win.tab, fate) ELSE c

(* runNextStep(): after a failure the other modules are still assembled,    *)
(* and nothing is linked.                                                   *)
RunNextStep(f, fate) ==
  LET s == f.svc
  IN  CASE s.next > Len(s.steps)                     -> BuildFinished(f, ~s.failed, fate)
        [] s.failed /\ s.next \in DOMAIN s.steps
             /\ s.steps[s.next] = "link"             -> BuildFinished(f, FALSE, fate)
        [] OTHER                                     -> [f EXCEPT !.svc.running = TRUE]

(* Fault: the program of an earlier build stays.                            *)
StartBuild_KeepOld(f, release, plans, fate) ==
  LET steps == IF ~plans THEN <<>> ELSE IF linking THEN <<"module", "module", "link">>
               ELSE <<"direct">>
      g == [f EXCEPT !.svc = [id |-> @.id + 1, src |-> f.win.tab, release |-> release,
                              steps |-> steps, next |-> 1, failed |-> FALSE, lacks |-> FALSE,
                              running |-> FALSE]]
  IN  IF f.svc.running THEN f
      ELSE IF plans THEN RunNextStep(g, fate) ELSE BuildFinished(g, FALSE, fate)

(* BuildService::build(): nothing while a build runs.                       *)
StartBuild(f, release, plans, fate) ==
  LET steps == IF ~plans THEN <<>> ELSE IF linking THEN <<"module", "module", "link">>
               ELSE <<"direct">>
      g == [f EXCEPT !.svc = [id |-> @.id + 1, src |-> f.win.tab, release |-> release,
                              steps |-> steps, next |-> 1, failed |-> FALSE, lacks |-> FALSE,
                              running |-> FALSE],
                     !.prog[f.win.tab] = NoProgram]
  IN  IF f.svc.running THEN f
      ELSE IF plans THEN RunNextStep(g, fate) ELSE BuildFinished(g, FALSE, fate)

(* snapshotPreviousBuild().                                                 *)
Snapshot(f) ==
  IF f.prog[f.win.tab] = NoProgram THEN f
  ELSE [f EXCEPT !.prev[f.win.tab] = f.prog[f.win.tab]]

Obstacles == {"none", "unsaved", "asset", "collision"}

(* buildImpl(), for a run behind runImpl().                                 *)
Request(f, ask, obstacle, fate) ==
  LET g == [f EXCEPT !.win.quiet = ask.quiet, !.win.launch = @ \/ ask.op = "run"]
  IN  CASE g.win.tab = None \/ obstacle = "unsaved" -> RefuseBuild(g)
        [] g.win.tab # None /\ obstacle = "asset"   -> RefuseBuild(Snapshot(g))
        [] OTHER -> StartBuild(Snapshot(g), ask.release,
                               ~(linking /\ obstacle = "collision"), fate)

-----------------------------------------------------------------------------
(* What happens.                                                            *)

Asks(quiet) == [op : {"build"}, release : BOOLEAN, quiet : {quiet}]
                 \union [op : {"run"}, release : {FALSE}, quiet : {quiet}]

(* An open dialog keeps the user from the window.                           *)
Modal == \E i \in DOMAIN loops : loops[i].kind # "remote" /\ loops[i].done = "no"

UserAsks ==
  /\ ~Modal /\ Use("asks", MaxAsks)
  /\ \E ask \in Asks(FALSE), obstacle \in Obstacles, fate \in Fates :
       Commit(Request(Frame, ask, obstacle, fate))
  /\ UNCHANGED <<linking, due>>

(* Run on an analysis tab: that program, and the line map only if it is its.*)
UserRunsTheProgram ==
  /\ ~Modal /\ Use("asks", MaxAsks)
  /\ \E s \in Sources, fate \in Fates :
       Commit(Launch([Frame EXCEPT !.win.quiet = FALSE,
                        !.win.map = IF win.tab = s THEN @ ELSE [names |-> None, lists |-> None]],
                     s, fate))
  /\ UNCHANGED <<linking, due>>

(* One of them at a time; the operation itself starts on a 0 ms timer.      *)
RemoteAsks ==
  /\ \A i \in DOMAIN loops : loops[i].kind # "remote"
  /\ Use("asks", MaxAsks)
  /\ \E ask \in Asks(TRUE) :
       /\ Commit(Push(Frame, [kind |-> "remote", op |-> ask.op, done |-> "no"]))
       /\ due' = Append(due, ask)
  /\ UNCHANGED linking

RemoteStarts ==
  /\ due # <<>> /\ due' = Tail(due)
  /\ \E obstacle \in Obstacles, fate \in Fates :
       Commit(Request(Frame, Head(due), obstacle, fate))
  /\ UNCHANGED <<linking, used>>

RemoteTimesOut ==
  /\ \E i \in DOMAIN loops : loops[i].kind = "remote" /\ loops[i].done = "no"
  /\ Use("events", MaxEvents)
  /\ Commit(Hear(Hear(Frame, "build", "timeout"), "run", "timeout"))
  /\ UNCHANGED <<linking, due>>

UserAnswers ==
  \E i \in DOMAIN loops, answer \in {"yes", "declined"} :
    /\ loops[i].kind # "remote" /\ loops[i].done = "no"
    /\ loops' = [loops EXCEPT ![i].done = answer]
    /\ UNCHANGED <<linking, win, svc, prog, prev, host, dirs, due, used>>

(* The innermost loop returns to its caller.                                *)
Unwind ==
  /\ loops # <<>> /\ Last(loops).done # "no"
  /\ LET f == [Frame EXCEPT !.loops = Front(@)]
         top == Last(loops)
     IN  IF top.kind = "question" /\ top.done = "yes"
         THEN \E fails \in {"no", "early", "late"} : Commit(Begin(f, top.plan, fails))
         ELSE Commit(f)
  /\ UNCHANGED <<linking, due, used>>

(* The tool writes the program before it has ended.                         *)
StepWrites ==
  /\ svc.running /\ svc.steps[svc.next] # "module"
  /\ prog[svc.src] = NoProgram
  /\ prog' = [prog EXCEPT ![svc.src] = [id |-> svc.id, release |-> svc.release, whole |-> FALSE]]
  /\ UNCHANGED <<linking, win, svc, prev, host, dirs, loops, due, used>>

(* Fault: a failure is forgotten by the step that follows.                  *)
StepOver_Forgets(f, ok) ==
  LET s == f.svc
      done == [id |-> s.id, release |-> s.release, whole |-> ~s.lacks]
      g == [f EXCEPT !.svc.failed = ~ok, !.svc.lacks = @ \/ ~ok,
                     !.svc.running = FALSE, !.svc.next = @ + 1]
  IN  IF ok /\ s.steps[s.next] # "module" THEN [g EXCEPT !.prog[s.src] = done] ELSE g

(* The process has ended, or could not be started.                          *)
StepOver(f, ok) ==
  LET s == f.svc
      done == [id |-> s.id, release |-> s.release, whole |-> ~s.lacks]
      g == [f EXCEPT !.svc.failed = @ \/ ~ok, !.svc.lacks = @ \/ ~ok,
                     !.svc.running = FALSE, !.svc.next = @ + 1]
  IN  IF ok /\ s.steps[s.next] # "module" THEN [g EXCEPT !.prog[s.src] = done] ELSE g

StepEnds ==
  /\ svc.running
  /\ \E ok \in BOOLEAN, fate \in Fates : Commit(RunNextStep(StepOver(Frame, ok), fate))
  /\ UNCHANGED <<linking, due, used>>

(* `stop` is never refused; the Stop button only by a dialog.               *)
StopSession ==
  /\ Use("events", MaxEvents)
  /\ Commit(RemoveDir(StopBackend(Frame)))
  /\ UNCHANGED <<linking, due>>

ProcessDies ==
  /\ host.ses.state = "live" /\ Use("events", MaxEvents)
  /\ Commit(SessionOver([Frame EXCEPT !.host.ses.state = "dead"]))
  /\ UNCHANGED <<linking, due>>

(* Another document comes to the front, or the last one is closed.          *)
Switch ==
  /\ Use("events", MaxEvents)
  /\ \E t \in Sources \union {None} : t # win.tab /\ win' = [win EXCEPT !.tab = t]
  /\ UNCHANGED <<linking, svc, prog, prev, host, dirs, loops, due>>

Next ==
  \/ UserAsks \/ UserRunsTheProgram \/ RemoteAsks \/ RemoteStarts \/ RemoteTimesOut
  \/ UserAnswers \/ Unwind \/ StepWrites \/ StepEnds \/ StopSession \/ ProcessDies \/ Switch

Spec == Init /\ [][Next]_vars

(* Processes end and the event loop turns; nobody has to answer a dialog.   *)
FairSpec == Spec /\ WF_vars(StepEnds) /\ WF_vars(RemoteStarts) /\ WF_vars(Unwind)

-----------------------------------------------------------------------------
Programs == [id : 0..svc.id, release : BOOLEAN, whole : BOOLEAN]

(* The window's, the service's and the backend's state keep their types.    *)
TypeOK ==
  /\ win \in [tab : Sources \union {None}, launch : BOOLEAN, quiet : BOOLEAN, ok : BOOLEAN,
              map : [names : Sources \union {None}, lists : Sources \union {None}],
              named : Sources \union {None}, dir : dirs.all \union {0}, panel : BOOLEAN]
  /\ svc.running => svc.next \in DOMAIN svc.steps
  /\ prog \in [Sources -> Programs] /\ prev \in [Sources -> Programs]
  /\ dirs.boot \subseteq dirs.all /\ dirs.all \subseteq 1..dirs.made
  /\ host.port \in 0..host.ports /\ host.ses.state \in {"none", "live", "dead"}
  /\ Cardinality({i \in DOMAIN loops : loops[i].kind = "remote"}) <= 1

(* A run that was asked for and not yet launched has a build that decides   *)
(* it: the intent is never left armed for a later build.                    *)
IntentHasItsBuild == win.launch => svc.running

(* The window names a program only while its session is live, and names it  *)
(* as long as the session lives if it replaced no other.                    *)
SessionIsNamed ==
  /\ win.named # None => host.ses.state = "live"
  /\ host.ses.state = "live" /\ ~host.ses.over => win.named = host.ses.src

Started == host'.ses.state = "live" /\ host'.ses # host.ses

(* A build launches, with its own source still in front, the program it has *)
(* itself made, and made from modules that have all been assembled.         *)
LaunchesWhatItMade ==
  [][StepEnds /\ Started /\ win.tab = svc.src
       => host'.ses.prog.id = svc.id /\ host'.ses.prog.whole]_vars

(* The directory of a session that has been superseded is removed, if no    *)
(* launch was held up by a question meanwhile.                              *)
NoDirectoryIsLost ==
  [][dirs'.all \ {win'.dir} # {} => dirs.all \ {win.dir} # {} \/ Unwind]_vars

RemoteWaits == \E i \in DOMAIN loops : loops[i].kind = "remote"

(* While nobody asks interactively, each remote build or run is answered,   *)
(* and by more than its time-out.                                           *)
RemoteIsAnswered ==
  <>[](~Modal /\ (RemoteWaits => win.quiet \/ due # <<>>)) => (RemoteWaits ~> ~RemoteWaits)

-----------------------------------------------------------------------------
(* What the run checks, grouped.                                            *)

(* The window's two memories, of the run it was asked for and of the        *)
(* program in session, are of something that is there.                      *)
WindowKnowsItsRun == IntentHasItsBuild /\ SessionIsNamed

(* A build that is over has launched what it made, leaves no directory      *)
(* behind, and answers the remote that asked for it.                        *)
BuildsEndWell == LaunchesWhatItMade /\ NoDirectoryIsLost /\ RemoteIsAnswered

-----------------------------------------------------------------------------
(* What fails.                                                              *)

(* The program that is launched is the one the build has made: "A stale     *)
(* output from a previous successful build would be silently run".          *)
LaunchIsOfTheBuild ==
  [][StepEnds /\ Started => host'.ses.prog.id = svc.id]_vars

(* "Run is a debug session, so it always builds with the debug arguments."  *)
RunIsADebugBuild == [][StepEnds /\ Started => ~host'.ses.prog.release]_vars

(* A live session keeps its directory: snapshots, key log and saved stops.  *)
SessionKeepsItsDirectory == host.ses.state = "live" => host.ses.dir \in dirs.all

(* The window knows the program and the panel of the session that runs.     *)
LiveSessionIsNamed == host.ses.state = "live" => win.named = host.ses.src

(* The panel listens where the session was told to connect.                 *)
PanelIsFed == host.ses.state = "live" /\ host.ses.port # 0 => win.panel /\ host.port = host.ses.port

(* The copy kept for the comparison is a program that had been built.       *)
PreviousIsWhole == \A s \in Sources : prev[s] # NoProgram => prev[s].whole

(* A session is started with its bootstrap script.                          *)
SessionBoots == host.ses.state = "live" => host.ses.boots

(* A remote `run` that is answered with an error launches nothing later.    *)
ErrorEndsTheRun ==
  [][Unwind /\ Last(loops).kind = "remote" /\ Last(loops).op = "run" /\ Last(loops).done = "error"
       => ~win'.launch /\ due' = <<>>]_vars
=============================================================================

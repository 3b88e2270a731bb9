------------------------------- MODULE Traces -------------------------------
(***************************************************************************)
(* What the emulator records for the window while the program runs: the    *)
(* writes and the reads of a range of memory, the palette, and coverage.   *)
(* From src/src/ui/MainWindowDebug.cpp (the traces), MainWindow.cpp (the   *)
(* session's end), the views' lists and the parsers in src/src/analysis.   *)
(* The transport is a CommandLane; ReverseDebug has how a stop is restored *)
(* and which is on screen, of which a little is kept here.                 *)
(*                                                                         *)
(* The program's path is the sequence of its runs, numbered as they happen *)
(* and cut short by a restore.  A ring holds the runs it recorded, oldest  *)
(* first, up to its capacity; an event is abstracted to its run.           *)
(***************************************************************************)
EXTENDS Integers, Sequences, FiniteSets, SequencesExt, CommandLane

CONSTANTS
  Kinds,       \* of "write", "read" and "pal"
  RangesOf(_), \* what each may be asked to watch
  Capacity,    \* of a ring, which keeps the oldest
  Recorders,   \* whether this Hatari records: a subset of BOOLEAN
  MaxRuns, MaxSessions, MaxActs, None

TracesAssumption ==
  /\ Kinds \subseteq {"write", "read", "pal"} /\ Recorders \subseteq BOOLEAN
  /\ {Capacity, MaxRuns, MaxSessions, MaxActs} \subseteq Nat
  /\ \A k \in Kinds : None \notin RangesOf(k)

VARIABLES
  records,   \* whether the emulator has the commands
  lane,
  machine,   \* the path, where it may be restored to, the rings
  win,       \* MainWindow: one trace per kind, and coverage
  views,     \* the lists shown, and the buttons
  ghost,
  acts

vars == <<records, lane, machine, win, views, ghost, acts>>

NoRing == [on |-> FALSE, range |-> None, events |-> <<>>, dropped |-> 0]
NoRows == [range |-> None, events |-> <<>>, dropped |-> 0]

NewMachine == [path |-> <<>>, runs |-> 0, saved |-> <<>>,   \* the stop a restore goes back to: the first
               ring |-> [k \in Kinds |-> NoRing],
               coverage |-> [on |-> FALSE, ran |-> {}]]

(* m_*TraceWanted, m_*TraceRecording, m_*TraceRearm, m_*TraceLo and Hi.     *)
NoTrace == [wanted |-> FALSE, recording |-> FALSE, rearm |-> FALSE, range |-> None]

NewWindow == [session |-> 1, trace |-> [k \in Kinds |-> NoTrace],
              coverageStarted |-> FALSE, coverage |-> FALSE,
              viewing |-> FALSE,    \* historicalStopOnScreen()
              restoring |-> FALSE, seeking |-> FALSE, seekSent |-> FALSE,
              tab |-> FALSE]        \* an analysis tab of the program is open

NewViews == [rows |-> [k \in Kinds |-> NoRows], on |-> [k \in Kinds |-> FALSE],
             coverage |-> {}]

(* The program runs to its entry stop, or is at rest there.                 *)
Init ==
  /\ records \in Recorders /\ views = NewViews
  /\ \/ lane = NewLane /\ machine = NewMachine /\ win = NewWindow
     \/ /\ lane = [NewLane EXCEPT !.stopped = TRUE]
        /\ machine = [NewMachine EXCEPT !.path = <<1>>, !.runs = 1, !.saved = <<1>>,
                                        !.coverage.on = records]
        /\ win = [NewWindow EXCEPT !.coverageStarted = TRUE, !.coverage = records]
  /\ ghost = [missed |-> FALSE,      \* a stop came while another was on screen
              running |-> FALSE,     \* a trace was asked for while the program ran
              forgotten |-> FALSE]   \* the live stop was asked for during a restore
  /\ acts = 0

Frame == [lane |-> lane, win |-> win, views |-> views, ghost |-> ghost]

Put(f, command) == [f EXCEPT !.lane = Dispatch(Enqueue(@, <<command>>))]

TraceCommand(kind, k, range) ==
  [kind |-> kind, n |-> 0, emits |-> FALSE, of |-> k, range |-> range]

-----------------------------------------------------------------------------
(* A trace.                                                                 *)

(* traceWrites(), traceReads(), tracePalette().  The button that asked is   *)
(* on already: it is a toggle.                                              *)
Trace(f, k, range) ==
  IF ~f.lane.stopped THEN [f EXCEPT !.views.on[k] = FALSE]
  ELSE Put([f EXCEPT !.views.on[k] = TRUE,
                     !.win.trace[k] = [wanted |-> TRUE, recording |-> FALSE,
                                       rearm |-> FALSE, range |-> range]],
           TraceCommand("traceOn", k, range))

(* stopWriteTrace(), stopReadTrace(), stopPaletteTrace().                   *)
StopTrace(f, k) ==
  Put([f EXCEPT !.win.trace[k].wanted = FALSE, !.win.trace[k].recording = FALSE,
                !.win.trace[k].rearm = FALSE, !.views.on[k] = FALSE, !.views.rows[k] = NoRows],
      TraceCommand("traceOff", k, None))

(* requestWriteTraceSave() and the like.                                    *)
RequestSave(f, k) ==
  IF f.win.trace[k].recording THEN Put(f, TraceCommand("traceSave", k, None)) ELSE f

(* writeTraceReady() and the like: an answer to a trace given up since is   *)
(* nothing.                                                                 *)
OnTraceReady(f, k, accepted) ==
  CASE ~f.win.trace[k].wanted -> f
    [] f.win.trace[k].wanted /\ ~accepted ->
         [f EXCEPT !.win.trace[k].wanted = FALSE, !.win.trace[k].recording = FALSE,
                   !.views.on[k] = FALSE]
    [] OTHER ->
         [f EXCEPT !.win.trace[k].recording = TRUE,
                   !.views.on[k] = IF k = "pal" THEN TRUE ELSE @]

(* What parsePalTrace(), parseReadTrace() and parseWriteTrace() take: the   *)
(* events in the order they happened and, but for the palette, of a range   *)
(* and no more than the capacity.                                           *)
InOrder(events) == \A i, j \in DOMAIN events : i < j => events[i] < events[j]

WithinCapacity(file) == file.range # None /\ Len(file.events) <= Capacity

Parses(k, file) == InOrder(file.events) /\ (k # "pal" => WithinCapacity(file))

(* setTrace() of the lists.                                                 *)
Shown(file) == [range |-> file.range, events |-> file.events, dropped |-> file.dropped]

(* writeTraceSaveFinished() and applyWriteTraceFile(), and the like.        *)
OnTraceSaved(f, k, file) ==
  IF f.win.trace[k].recording /\ Parses(k, file)
  THEN [f EXCEPT !.views.rows[k] = Shown(file)] ELSE f

(* Fault: a restore leaves the ring as it is.                               *)
ReArmOrSave_Save(f, k, seekResume) == IF seekResume THEN f ELSE RequestSave(f, k)

(* The end of onStateUpdated(), for one trace.  A reverse that has yet to   *)
(* run forward leaves it for the stop it runs to.                           *)
ReArmOrSave(f, k, seekResume) ==
  CASE seekResume -> f
    [] ~seekResume /\ f.win.trace[k].rearm ->
         Put([f EXCEPT !.win.trace[k].rearm = FALSE, !.views.rows[k] = NoRows],
             TraceCommand("traceOn", k, f.win.trace[k].range))
    [] OTHER -> RequestSave(f, k)

-----------------------------------------------------------------------------
(* Coverage, which is never armed again.                                    *)

(* requestCoverageSave().                                                   *)
RequestCoverage(f) ==
  IF f.win.coverage /\ f.win.tab THEN Put(f, Command("coverage", 1)) ELSE f

(* coverageReady(), coverageSaveFinished() and applyCoverageFile().         *)
OnCoverage(f, c, ran) ==
  CASE c.n = 0 -> LET g == [f EXCEPT !.win.coverage = records]
                  IN  IF records THEN RequestCoverage(g) ELSE g
    [] c.n = 1 -> IF f.win.coverage /\ f.win.tab THEN [f EXCEPT !.views.coverage = ran] ELSE f

-----------------------------------------------------------------------------
(* The window's reactions.                                                  *)

OnStopped(f) ==
  LET g == IF f.win.coverageStarted THEN f
           ELSE Put([f EXCEPT !.win.coverageStarted = TRUE], Command("coverage", 0))
  IN  Put(g, StateRead("regs"))

Continue(f) == [f EXCEPT !.lane = Dispatch(Resume(@))]

OverKinds(Op(_, _), f) == FoldSet(LAMBDA k, g : Op(g, k), f, Kinds)

(* onStateUpdated(), for what the emulator records.                         *)
OnStateUpdated(f) ==
  LET back == f.win.restoring
      seekResume == f.win.seeking /\ ~f.win.seekSent
      g == IF back
           THEN [f EXCEPT !.win.restoring = FALSE, !.win.viewing = FALSE,
                          !.win.trace = [k \in Kinds |-> [@[k] EXCEPT
                                           !.rearm = @ \/ f.win.trace[k].recording]]]
           ELSE f
      landed == IF f.win.seekSent
                THEN [g EXCEPT !.win.seeking = FALSE, !.win.seekSent = FALSE] ELSE g
      Finish(h, k) == ReArmOrSave(h, k, seekResume)
      done == OverKinds(Finish, RequestCoverage(landed))
  IN  CASE ~back /\ f.win.viewing -> [f EXCEPT !.ghost.missed = TRUE]
        [] seekResume /\ (back \/ ~f.win.viewing) ->
             Continue(Put([done EXCEPT !.win.seekSent = TRUE], Command("once", 0)))
        [] OTHER -> done

(* Fault: the live stop is shown again with the lists it had.               *)
ShowLive_NoSaves(f) ==
  [f EXCEPT !.win.viewing = FALSE, !.win.restoring = FALSE,
            !.ghost.forgotten = @ \/ f.win.restoring]

(* showLiveStop().                                                          *)
ShowLive(f) ==
  OverKinds(RequestSave, [f EXCEPT !.win.viewing = FALSE, !.win.restoring = FALSE,
                                   !.ghost.forgotten = @ \/ f.win.restoring])

ShowLiveIfViewing(f) == IF f.win.viewing THEN ShowLive(f) ELSE f

(* Fault: the trace of the session that ended is still wanted.              *)
ClearSessionViews_Keeps(f) ==
  [f EXCEPT !.win = [NewWindow EXCEPT !.session = f.win.session, !.tab = f.win.tab,
                                      !.trace = f.win.trace],
            !.views = NewViews]

(* clearSessionViews().                                                     *)
ClearSessionViews(f) ==
  [f EXCEPT !.win = [NewWindow EXCEPT !.session = f.win.session, !.tab = f.win.tab],
            !.views = NewViews]

-----------------------------------------------------------------------------
(* Steps.                                                                   *)

Ring(m, k, on, range) == [m EXCEPT !.ring[k] = [NoRing EXCEPT !.on = on, !.range = range]]

(* Arming empties the ring, whatever it watched.                            *)
Executed(m, c) ==
  CASE c.kind = "traceOn" /\ records  -> Ring(m, c.of, TRUE, c.range)
    [] c.kind = "traceOff" /\ records -> Ring(m, c.of, FALSE, None)
    [] c.kind = "coverage" /\ c.n = 0 -> [m EXCEPT !.coverage.on = records]
    [] c.kind = "rest"                -> [m EXCEPT !.path = m.saved]
    [] OTHER                          -> m

(* One more run, and each ring that is on records it or is full.  The first *)
(* stop is the one this model restores.                                     *)
Ran(m) ==
  LET run == m.runs + 1
      Record(r) == CASE ~r.on -> r
                     [] r.on /\ Len(r.events) < Capacity -> [r EXCEPT !.events = Append(@, run)]
                     [] OTHER -> [r EXCEPT !.dropped = @ + 1]
  IN  [m EXCEPT !.runs = run, !.path = Append(@, run),
                !.saved = IF @ = <<>> THEN <<run>> ELSE @,
                !.ring = [k \in Kinds |-> Record(@[k])],
                !.coverage.ran = IF m.coverage.on THEN @ \union {run} ELSE @]

Commit(f, m) ==
  lane' = Dispatch(f.lane) /\ win' = f.win /\ views' = f.views /\ ghost' = f.ghost /\ machine' = m

Answered == [Frame EXCEPT !.lane.current = NoCommand]

Reported(f, c) ==
  CASE c.kind = "traceOn"   -> OnTraceReady(f, c.of, records)
    [] c.kind = "traceSave" -> OnTraceSaved(f, c.of, machine.ring[c.of])
    [] c.kind = "coverage"  -> OnCoverage(f, c, machine.coverage.ran)
    [] c.kind = "regs"      -> OnStateUpdated(f)
    [] OTHER                -> f

(* The command in flight is carried out and its answer reported.  A restore *)
(* is answered by the stop it arrives at, which is read like any other.     *)
Complete ==
  /\ InFlight(lane)
  /\ LET c == lane.current
         f == Reported(Answered, c)
     IN  Commit(IF c.kind = "rest" THEN OnStopped(f) ELSE f, Executed(machine, c))
  /\ UNCHANGED <<records, acts>>

Stop ==
  /\ ~lane.stopped /\ win.session > 0 /\ machine.runs < MaxRuns
  /\ Commit(OnStopped([Frame EXCEPT !.lane = Dispatch([@ EXCEPT !.stopped = TRUE])]),
            Ran(machine))
  /\ UNCHANGED <<records, acts>>

(* The emulator exits, or is stopped.                                       *)
EndSession ==
  /\ win.session > 0
  /\ LET f == ClearSessionViews(Frame)
     IN  Commit([f EXCEPT !.lane = NewLane, !.win.session = -win.session], NewMachine)
  /\ UNCHANGED <<records, acts>>

StartSession ==
  /\ win.session < 0 /\ -win.session < MaxSessions
  /\ LET f == ClearSessionViews(Frame)
     IN  Commit([f EXCEPT !.lane = NewLane, !.win.session = 1 - win.session], NewMachine)
  /\ UNCHANGED <<records, acts>>

Act(f) ==
  acts < MaxActs /\ acts' = acts + 1 /\ win.session > 0 /\ Commit(f, machine) /\ UNCHANGED records

UserTraces ==
  \E k \in Kinds : \E range \in RangesOf(k) :
    Act([Trace(Frame, k, range) EXCEPT
           !.ghost.running = @ \/ (~lane.stopped /\ win.trace[k].wanted)])

UserStopsTrace == \E k \in Kinds : views.on[k] /\ Act(StopTrace(Frame, k))

UserContinues == lane.stopped /\ Act(Continue(ShowLiveIfViewing(Frame)))

(* restoreRecordedStop(), and reverseStep() which runs forward again, by a  *)
(* user who waits for the views; ReverseDebug has the one who does not.     *)
UserRestores ==
  /\ MayResume(lane) /\ ~InFlight(lane) /\ lane.queue = <<>> /\ machine.saved # <<>> /\ ~win.seeking
  /\ \E forward \in BOOLEAN :
       Act(Put([ShowLiveIfViewing(Frame) EXCEPT !.win.restoring = TRUE,
                                                !.win.seeking = forward],
               Command("rest", 0)))

UserLooksBack ==
  \/ Act([Frame EXCEPT !.win.viewing = TRUE])
  \/ win.viewing /\ Act(ShowLive(Frame))

(* addAnalysisTab() on the program that is running.                         *)
UserOpensTab == ~win.tab /\ Act(RequestCoverage([Frame EXCEPT !.win.tab = TRUE]))

Next ==
  \/ Complete \/ Stop \/ EndSession \/ StartSession \/ UserTraces \/ UserStopsTrace
  \/ UserContinues \/ UserRestores \/ UserLooksBack \/ UserOpensTab

Spec == Init /\ [][Next]_vars

-----------------------------------------------------------------------------
(* Properties.                                                              *)

AtRest == win.session > 0 /\ lane.stopped /\ lane.queue = <<>> /\ ~InFlight(lane) /\ ~lane.continuing

AtRestLive == AtRest /\ ~win.viewing /\ ~win.restoring

(* Once at rest at a stop that is on screen, a list holds what its ring     *)
(* holds if anything was recorded, and the coverage marks what ran.         *)
ListsAreUpToDate ==
  AtRestLive =>
    /\ \A k \in Kinds :
         win.trace[k].recording /\ machine.ring[k].events # <<>> =>
           /\ views.rows[k].events = machine.ring[k].events
           /\ views.rows[k].range = machine.ring[k].range
           /\ views.rows[k].dropped = machine.ring[k].dropped
    /\ win.coverage /\ win.tab /\ ~ghost.missed => views.coverage = machine.coverage.ran

(* A list never shows what was recorded on a path a restore has left: the   *)
(* ring is not rewound, so it has to be emptied by arming it again.  Left   *)
(* out: a reverse that lands while another stop is on screen, and "Live"    *)
(* clicked during a restore, which makes the window forget it.              *)
ListsAreOfThePath ==
  AtRestLive /\ ~ghost.missed /\ ~ghost.forgotten => \A k \in Kinds :
    win.trace[k].recording /\ machine.ring[k].events # <<>> =>
      Range(views.rows[k].events) \subseteq Range(machine.path)

(* At rest, the window knows what the emulator records; and the button is   *)
(* on while it does, unless a trace was asked for while the program ran: it *)
(* is refused, and puts out the button of the one that is recording.        *)
RecordingIsKnown ==
  AtRest => \A k \in Kinds :
    /\ machine.ring[k].on = win.trace[k].recording
    /\ machine.ring[k].on => machine.ring[k].range = win.trace[k].range
    /\ ~ghost.running => views.on[k] = machine.ring[k].on
=============================================================================

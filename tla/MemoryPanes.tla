----------------------------- MODULE MemoryPanes -----------------------------
(***************************************************************************)
(* The memory panes (src/src/ui/MemoryView.cpp) and what MainWindow does   *)
(* with their dumps: which pane one goes to, the picture it leaves with    *)
(* the live stop and the recorded one, and saving bytes to a file.  The    *)
(* transport is a CommandLane.                                             *)
(*                                                                         *)
(* A window of memory is its region, the stop its bytes are of, and one    *)
(* byte the user may edit and the program may change.  Only the stop and   *)
(* the region of a comparison are kept, not the bytes it marks.  Left out: *)
(* following a pointer (it is GoTo), the tints, and a dump with no rows.   *)
(***************************************************************************)
EXTENDS Integers, Sequences, SequencesExt, CommandLane

CONSTANTS
  Regions, Home,   \* the windows panes show, and where they start
  Users,           \* of "patient", who waits for the views, and "hasty"
  MaxStaleDumps,   \* kMaxStaleDumps
  MaxStops, MaxActs, None

PanesAssumption ==
  /\ Home \in Regions /\ None \notin Regions /\ Users \subseteq {"patient", "hasty"}
  /\ {MaxStaleDumps, MaxStops, MaxActs} \subseteq Nat

VARIABLES
  user,
  lane,
  machine,  \* the stop it is at, whether it runs, and the byte in each region
  panes,    \* "first", which follows the stops, and "other", opened with +
  win,      \* MainWindow
  ghost,    \* what the properties leave out
  acts

vars == <<user, lane, machine, panes, win, ghost, acts>>

Typed == 9   \* a byte no run leaves behind

Window(m, b) == [base |-> b, at |-> m.at, v |-> m.bytes[b]]

NewPane(b) ==
  [open |-> TRUE, base |-> b, editing |-> FALSE,
   cells |-> None, bytes |-> None,      \* what the table shows; m_bytes, m_lastRows
   pending |-> FALSE, stale |-> 0,      \* m_pendingEdit, m_staleDumps
   mark |-> None, markAt |-> 0,         \* m_mark and its pc
   against |-> None,                    \* m_shownAgainst while m_haveShown
   compare |-> FALSE, previous |-> FALSE,
   lit |-> None,                        \* the mark the cells are lit against
   context |-> 0]                       \* m_stopPc

(* At rest at the first stop, with one pane open.                           *)
Init ==
  /\ user \in Users /\ acts = 0
  /\ lane = [NewLane EXCEPT !.stopped = TRUE]
  /\ machine = [at |-> 1, bytes |-> [b \in Regions |-> 0]]
  /\ panes = [first |-> [NewPane(Home) EXCEPT !.editing = TRUE, !.context = 1,
                                              !.cells = Window(machine, Home),
                                              !.bytes = Window(machine, Home)],
              other |-> [NewPane(Home) EXCEPT !.open = FALSE]]
  /\ win = [seen |-> 1,                                  \* m_lastState.pc
            live |-> Window(machine, Home),              \* m_livePicture.memory
            anchors |-> <<[at |-> 1, memory |-> Window(machine, Home)]>>,
            view |-> 0,                                  \* m_reverseViewIndex + 1
            saving |-> FALSE]                            \* m_saveBytesPath
  /\ ghost = [missed |-> FALSE,   \* a stop came while another was on screen
              twice |-> FALSE,    \* a byte both panes show was edited in the other one
            asked |-> FALSE]    \* a dump was asked for while the program ran or was about to

Frame == [lane |-> lane, panes |-> panes, win |-> win, ghost |-> ghost]

Put(f, command) == [f EXCEPT !.lane = Dispatch(Enqueue(@, <<command>>))]

Dump(to, b) == [kind |-> "dump", n |-> 0, emits |-> FALSE, to |-> to, base |-> b]
Write(b)    == [kind |-> "write", n |-> 0, emits |-> FALSE, base |-> b]

-----------------------------------------------------------------------------
(* A pane.                                                                  *)

(* Fault: a repaint compares with the mark, which has moved on.             *)
Compared_Mark(p, advance) == p.mark

(* What a painting compares with: a repaint keeps to what it was shown      *)
(* against.                                                                 *)
Compared(p, advance) ==
  IF ~advance /\ p.previous /\ p.against # None THEN p.against ELSE p.mark

(* Fault: a dump asked for before the window moved is painted.              *)
PaintDump_AnyBase(p, c, advance) ==
  LET lit == Compared(p, advance)
  IN  [p EXCEPT !.cells = c, !.bytes = c, !.lit = IF p.compare THEN lit ELSE None,
                !.mark = IF advance /\ p.previous THEN c ELSE @,
                !.markAt = IF advance /\ p.previous THEN p.context ELSE @,
                !.against = IF advance /\ p.previous THEN lit ELSE @]

(* paintDump(): one that is not of this window, or older than the edit, is  *)
(* dropped - but not for ever.                                              *)
PaintDump(p, c, advance) ==
  LET old == p.pending /\ c.v # Typed /\ p.stale < MaxStaleDumps
      q == [p EXCEPT !.pending = FALSE, !.stale = 0]
      lit == Compared(q, advance)
      advances == advance /\ q.previous
  IN  CASE c.base # p.base -> p
        [] c.base = p.base /\ old -> [p EXCEPT !.stale = @ + 1]
        [] OTHER ->
             [q EXCEPT !.cells = c, !.bytes = c, !.lit = IF q.compare THEN lit ELSE None,
                       !.mark = IF advances THEN c ELSE @,
                       !.markAt = IF advances THEN q.context ELSE @,
                       !.against = IF advances THEN lit ELSE @]

Repaint(p) == IF p.bytes = None THEN p ELSE PaintDump(p, p.bytes, FALSE)

(* showCaptured().                                                          *)
ShowCaptured(p, c) ==
  IF c = None THEN p
  ELSE PaintDump([p EXCEPT !.pending = FALSE, !.stale = 0, !.base = c.base], c, FALSE)

(* goToAddress(): blank until the dump comes.                               *)
MovedTo(p, b) ==
  [p EXCEPT !.base = b, !.pending = FALSE, !.stale = 0,
            !.cells = None, !.bytes = None, !.lit = None]

GoTo(f, t, b) == Put([f EXCEPT !.panes[t] = MovedTo(@, b)], Dump(t, b))

Refresh(f, t) == Put(f, Dump(t, f.panes[t].base))

(* onByteEdited() and setMemoryByte(), which only writes to a stopped       *)
(* machine.                                                                 *)
Edit(f, t) ==
  LET g == [f EXCEPT !.panes[t].pending = TRUE, !.panes[t].stale = 0,
                     !.panes[t].cells.v = Typed]
  IN  IF f.lane.stopped THEN Refresh(Put(g, Write(f.panes[t].base)), t) ELSE g

SetMark(p) ==
  Repaint([p EXCEPT !.previous = FALSE, !.against = None, !.compare = TRUE,
                    !.mark = p.bytes, !.markAt = p.context])

ToggleCompare(p) ==
  CASE ~p.compare /\ p.mark = None -> p
    [] ~p.compare /\ p.mark # None -> Repaint([p EXCEPT !.compare = TRUE])
    [] p.compare -> Repaint([p EXCEPT !.compare = FALSE, !.previous = FALSE])

TogglePrevious(p) ==
  CASE ~p.previous /\ p.bytes = None -> p
    [] p.previous -> Repaint([p EXCEPT !.previous = FALSE])
    [] OTHER -> Repaint([p EXCEPT !.previous = TRUE, !.against = None, !.compare = TRUE,
                                  !.mark = p.bytes, !.markAt = p.context])

-----------------------------------------------------------------------------
(* The window's reactions.                                                  *)

Historical(w) == w.view > 0

(* Fault: the picture is filed under the newest stop, whichever is seen.    *)
NoteLiveMemory_AnyStop(f, c) ==
  [f EXCEPT !.win.live = c, !.win.anchors[Len(f.win.anchors)].memory = c]

(* noteLiveMemory(): of the live stop, and of the recorded one it is.       *)
NoteLiveMemory(f, c) ==
  LET i == Len(f.win.anchors)
  IN  IF f.win.anchors[i].at = f.win.seen
      THEN [f EXCEPT !.win.live = c, !.win.anchors[i].memory = c]
      ELSE [f EXCEPT !.win.live = c]

(* Fault: a dump is painted over the recorded stop on screen.               *)
OnMemoryDump_Always(f, t, c) ==
  IF t = "save" THEN [f EXCEPT !.win.saving = FALSE]
  ELSE [(IF t = "first" THEN NoteLiveMemory(f, c) ELSE f)
          EXCEPT !.panes[t] = PaintDump(@, c, TRUE)]

(* Fault: the file is written and still waited for.                         *)
OnMemoryDump_KeepsPath(f, t, c) ==
  IF t = "save" THEN f
  ELSE [(IF t = "first" THEN NoteLiveMemory(f, c) ELSE f)
          EXCEPT !.panes[t] = IF Historical(f.win) THEN @ ELSE PaintDump(@, c, TRUE)]

OnMemoryDump(f, t, c) ==
  LET g == IF t = "first" THEN NoteLiveMemory(f, c) ELSE f
  IN  CASE t = "save" -> [f EXCEPT !.win.saving = FALSE]
        [] t # "save" /\ Historical(f.win) -> g
        [] OTHER -> [g EXCEPT !.panes[t] = PaintDump(@, c, TRUE)]

Remember(f, at) ==
  IF Last(f.win.anchors).at = at THEN f
  ELSE [f EXCEPT !.win.anchors = Append(@, [at |-> at, memory |-> None])]

(* Fault: the first pane keeps the bytes of the stop before.                *)
OnStateUpdated_NoRefresh(f, at) ==
  IF Historical(f.win) THEN [f EXCEPT !.win.seen = at, !.ghost.missed = TRUE]
  ELSE LET g == Remember([f EXCEPT !.win.seen = at], at)
       IN  [g EXCEPT !.panes = [t \in DOMAIN @ |-> [@[t] EXCEPT !.context = at]]]

(* onStateUpdated(): a recorded stop on screen stays there.  Every pane is  *)
(* told where the machine is, and the first is read again.                  *)
OnStateUpdated(f, at) ==
  IF Historical(f.win) THEN [f EXCEPT !.win.seen = at, !.ghost.missed = TRUE]
  ELSE LET g == Remember([f EXCEPT !.win.seen = at], at)
       IN  Refresh([g EXCEPT !.panes = [t \in DOMAIN @ |-> [@[t] EXCEPT !.context = at]]],
                   "first")

ShowLive(f) ==
  [f EXCEPT !.win.view = 0, !.panes.first = ShowCaptured(@, f.win.live)]

ShowRecorded(f, i) ==
  [f EXCEPT !.win.view = i, !.panes.first = ShowCaptured(@, f.win.anchors[i].memory)]

ShowLiveIfHistorical(f) == IF Historical(f.win) THEN ShowLive(f) ELSE f

(* stoppedChanged(): only the first pane is told.                           *)
OnStopped(f, stopped) ==
  LET g == [f EXCEPT !.panes.first.editing = stopped]
  IN  IF stopped THEN Put(g, StateRead("regs")) ELSE g

-----------------------------------------------------------------------------
(* Steps.                                                                   *)

Commit(f, m) ==
  LET l == Dispatch(f.lane)
      g == IF lane.stopped /\ ~l.stopped THEN OnStopped(f, FALSE) ELSE f
  IN  lane' = l /\ panes' = g.panes /\ win' = g.win /\ ghost' = g.ghost /\ machine' = m

(* The program moves on: the byte of every region is left or changed.       *)
Ran(m, v) == [m EXCEPT !.at = @ + 1, !.bytes = [b \in Regions |-> IF v = None THEN @[b] ELSE v]]

Answered == [Frame EXCEPT !.lane.current = NoCommand]

(* The command in flight is carried out and its answer reported.            *)
Complete ==
  /\ InFlight(lane)
  /\ LET c == lane.current
     IN  CASE c.kind = "dump"  ->
                Commit(OnMemoryDump(Answered, c.to, Window(machine, c.base)), machine)
           [] c.kind = "write" ->
                Commit(Answered, [machine EXCEPT !.bytes[c.base] = Typed])
           [] c.kind = "step"  -> \E v \in {None, 1} : Commit(Answered, Ran(machine, v))
           [] c.kind = "regs"  -> Commit(OnStateUpdated(Answered, machine.at), machine)
  /\ UNCHANGED <<user, acts>>

(* A breakpoint stops the program; what waited goes out first.              *)
Stop ==
  /\ ~lane.stopped
  /\ \E v \in {None, 1} :
       Commit(OnStopped([Frame EXCEPT !.lane = Dispatch([@ EXCEPT !.stopped = TRUE])], TRUE),
              Ran(machine, v))
  /\ UNCHANGED <<user, acts>>

Settled == lane.queue = <<>> /\ ~InFlight(lane) /\ ~lane.continuing

Act(f) ==
  /\ acts < MaxActs /\ acts' = acts + 1
  /\ user = "patient" => (lane.stopped => Settled)
  /\ Commit(f, machine) /\ UNCHANGED user

MayMove == lane.stopped /\ machine.at < MaxStops

UserContinues ==
  MayMove /\ Act(LET f == ShowLiveIfHistorical(Frame)
                 IN  [f EXCEPT !.lane = Dispatch(Resume(@))])

UserSteps ==
  MayMove /\ Act(Put(Put(ShowLiveIfHistorical(Frame), Command("step", 0)), StateRead("regs")))

Noted(f) == IF MayResume(lane) THEN f ELSE [f EXCEPT !.ghost.asked = TRUE]

UserGoesTo ==
  \E t \in DOMAIN panes, b \in Regions : panes[t].open /\ Act(Noted(GoTo(Frame, t, b)))

UserEdits ==
  \E t \in DOMAIN panes :
    /\ panes[t].open /\ panes[t].editing /\ panes[t].cells # None
    /\ LET twice == t = "other" /\ panes.first.base = panes.other.base
       IN  Act(Noted(Edit([Frame EXCEPT !.ghost.twice = @ \/ twice], t)))

UserMarks ==
  \E t \in DOMAIN panes :
    /\ panes[t].open /\ panes[t].bytes # None
    /\ \/ Act([Frame EXCEPT !.panes[t] = SetMark(@)])
       \/ Act([Frame EXCEPT !.panes[t] = ToggleCompare(@)])
       \/ Act([Frame EXCEPT !.panes[t] = TogglePrevious(@)])

(* addMemoryPane(): it asks at once only if the program is stopped.         *)
UserOpensPane ==
  /\ ~panes.other.open
  /\ LET f == [Frame EXCEPT !.panes.other = [NewPane(Home) EXCEPT !.editing = lane.stopped]]
     IN  Act(IF lane.stopped THEN Refresh(f, "other") ELSE f)

UserLooksBack ==
  \/ \E i \in DOMAIN win.anchors : Act(ShowRecorded(Frame, i))
  \/ Act(ShowLive(Frame))

(* requestSaveBytes(), past its dialogs: one at a time.                     *)
UserSavesBytes ==
  /\ lane.stopped /\ ~win.saving
  /\ Act(Put([Frame EXCEPT !.win.saving = TRUE], Dump("save", Home)))

(* applyAppearance(), and setProgramRegions() when a section moves.         *)
Recolour ==
  \E t \in DOMAIN panes : panes[t].open /\ Act([Frame EXCEPT !.panes[t] = Repaint(@)])

Next ==
  \/ Complete \/ Stop \/ UserContinues \/ UserSteps \/ UserGoesTo \/ UserEdits \/ UserMarks
  \/ UserOpensPane \/ UserLooksBack \/ UserSavesBytes \/ Recolour

Spec == Init /\ [][Next]_vars

-----------------------------------------------------------------------------
(* Properties.                                                              *)

AtRest == lane.stopped /\ Settled

(* A pane shows the window its address names, never the bytes of another    *)
(* region under it; and once a user who waits is at rest, with the live     *)
(* stop on screen, the first pane shows the memory of the machine, edits    *)
(* included.                                                                *)
PaneShowsItsWindow ==
  /\ \A t \in DOMAIN panes : panes[t].cells # None => panes[t].cells.base = panes[t].base
  /\ user = "patient" /\ AtRest /\ ~Historical(win) /\ ~ghost.missed /\ ~ghost.twice =>
       panes.first.cells = Window(machine, panes.first.base)

(* A recorded stop keeps the memory of its own stop, and a mark names the   *)
(* stop its bytes are of, in the pane that follows the stops, unless the    *)
(* user asked for a dump while the program ran.                             *)
PictureIsOfItsStop ==
  ~ghost.asked =>
    /\ \A a \in Range(win.anchors) : a.memory # None => a.memory.at = a.at
    /\ user = "patient" /\ Historical(win) /\ win.anchors[win.view].memory # None
            /\ panes.first.cells # None
         => panes.first.cells.at = win.anchors[win.view].at

(* A bytes file that was asked for is still to come: the request to the     *)
(* debugger has not been dropped while the window waits for it.             *)
SaveIsToCome ==
  user = "patient" /\ win.saving =>
    \E c \in Range(Append(lane.queue, lane.current)) : c.kind = "dump" /\ c.to = "save"

(* Colours changing, a section moving or the theme, lights the same bytes.  *)
RepaintsKeepTheHighlight ==
  [][Recolour => \A t \in DOMAIN panes : ~panes[t].pending => panes'[t].lit = panes[t].lit]_vars

(* "The stop this window was last refreshed for.  A mark records it, so the *)
(* comparison can say where the earlier bytes came from" (MemoryView.h,     *)
(* setStopContext): of every pane.                                          *)
MarkNamesItsStop ==
  \A t \in DOMAIN panes : panes[t].mark # None => panes[t].markAt = panes[t].mark.at
=============================================================================

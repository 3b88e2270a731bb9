------------------------------ MODULE MCPanes ------------------------------
(***************************************************************************)
(* Three components of the debugging window that share nothing here, one   *)
(* per behaviour: breakpoints and watchpoints, the memory panes, and the   *)
(* traces.  Those that do not move stay in one of their initial states.    *)
(***************************************************************************)
EXTENDS Breakpoints

CONSTANT None

VARIABLES moving,
          user, lane, machine, panes, win, seen, acts,
          records, tracing, recorder, window, views, noted, traced

-----------------------------------------------------------------------------
(* Programs: one module with an include; the same after a line was added;  *)
(* two linked modules; two that share their base name.                     *)

P(d, b) == [dir |-> d, base |-> b]
Src(file) == [is |-> "source", file |-> file]
Sec(i, name, end) == [is |-> "section", index |-> i, name |-> name, end |-> end]
At(i, offset, line) == [is |-> "entry", index |-> i, offset |-> offset, line |-> line]
Sized(t, d, b) == [text |-> t, data |-> d, bss |-> b]
Label(name, file, line) == [name |-> name, file |-> file, line |-> line, equate |-> FALSE]
Equate(name, file, line) == [name |-> name, file |-> file, line |-> line, equate |-> TRUE]

Main == P("/p", "main.s")
Inc == P("/p", "inc.s")
Util == P("/q", "util.s")

Alone(first) ==
  <<[source |-> Main, object |-> P("", ""),
     listing |-> <<Sec(0, "text", first + 2), Sec(1, "data", 1), Sec(2, "bss", 1), Src(Main),
                   At(0, 0, 1), At(0, first, first), At(0, first, first + 1), Src(Inc),
                   At(0, first + 1, 1), Src(Main), At(1, 0, 5), At(2, 0, 6)>>,
     labels |-> <<Label("start", Main, 1), Label("buf", Main, 4), Equate("K", Main, 2)>>,
     place |-> Sized(0, 0, 0), size |-> Sized(first + 2, 1, 1)]>>

Linked(other) ==
  <<[source |-> Main, object |-> P("/p", "main.o"),
     listing |-> <<Sec(0, "CODE", 2), Sec(1, "DATA", 1), Src(Main), At(0, 0, 1), At(1, 0, 5), At(0, 1, 2)>>,
     labels |-> <<Label("start", Main, 1), Label("buf", Main, 4)>>,
     place |-> Sized(0, 0, 0), size |-> Sized(2, 1, 0)],
    [source |-> other, object |-> P("/q", IF other.base = "main.s" THEN "main.o" ELSE "util.o"),
     listing |-> <<Sec(0, "CODE", 2), Sec(2, "BSS", 1), Src(other), At(0, 0, 1), At(0, 1, 2), At(2, 0, 3)>>,
     labels |-> <<Label("helper", other, 1)>>,
     place |-> Sized(2, 1, 0), size |-> Sized(2, 0, 1)]>>

MCPrograms == <<Alone(1), Alone(2), Linked(Util), Linked(P("/q", "main.s"))>>

MCLosses == <<[lost |-> {}, unlinked |-> FALSE], [lost |-> {1}, unlinked |-> FALSE],
             [lost |-> {}, unlinked |-> TRUE]>>

MCPlaces == {[file |-> "main.s", line |-> 1]}

MCRenames == {<<"main.s", "other.s">>}

-----------------------------------------------------------------------------
(* Panes over two regions of memoryPanes, and the three traces.                 *)

Pane == INSTANCE MemoryPanes WITH
  Regions <- {"data", "stack"}, Home <- "data", Users <- {"patient", "hasty"},
  MaxStaleDumps <- 1, MaxStops <- 3, MaxActs <- 4, ghost <- seen

RangesOf(k) == IF k = "pal" THEN {0} ELSE {1, 2}

Trace == INSTANCE Traces WITH
  Kinds <- {"write", "pal"}, Capacity <- 2, Recorders <- {TRUE, FALSE}, MaxRuns <- 4, MaxSessions <- 2, MaxActs <- 4,
  lane <- tracing, machine <- recorder, win <- window, ghost <- noted, acts <- traced

ASSUME PanesAssumption == Pane!PanesAssumption
ASSUME TracesAssumption == Trace!TracesAssumption

-----------------------------------------------------------------------------
(* One of them moves.                                                      *)

memoryPanes == <<user, lane, machine, panes, win, seen, acts>>
tracePanes == <<records, tracing, recorder, window, views, noted, traced>>
all == <<moving, vars, memoryPanes, tracePanes>>

MCInit ==
  /\ moving \in {"breakpoints", "memory", "traces"}
  /\ Init /\ (moving = "breakpoints" \/ map.build = 1)
  /\ Pane!Init /\ (moving = "memory" \/ user = "patient")
  /\ Trace!Init /\ (moving = "traces" \/ (records /\ ~tracing.stopped))

BreakpointsMove == moving = "breakpoints" /\ Next /\ UNCHANGED <<moving, memoryPanes, tracePanes>>
MemoryMoves == moving = "memory" /\ Pane!Next /\ UNCHANGED <<moving, vars, tracePanes>>
TracesMove == moving = "traces" /\ Trace!Next /\ UNCHANGED <<moving, vars, memoryPanes>>

MCSpec == MCInit /\ [][BreakpointsMove \/ MemoryMoves \/ TracesMove]_all

-----------------------------------------------------------------------------
(* The properties of the components.                                       *)

(* Breakpoints: what is armed stands where it was set, and is hit there.   *)
ArmedWhereSet == [](ArmedOnItsLine /\ GoneIsGone /\ ArmedAsItStands) /\ StopsAtItsLine
(* MemoryPanes: at rest a pane shows the machine's memory at its address, a *)
(* recorded stop that of its own stop; a save asked for is to come, and a   *)
(* repaint keeps the highlight of the last change. *)
PanesShowTheirWindow ==
  /\ [](Pane!PaneShowsItsWindow /\ Pane!PictureIsOfItsStop /\ Pane!SaveIsToCome)
  /\ Pane!RepaintsKeepTheHighlight
(* Traces: at rest a list holds what its ring holds, nothing of a path that *)
(* a restore has left, and the buttons know what is recording. *)
ListsShowTheRings ==
  Trace!ListsAreUpToDate /\ Trace!ListsAreOfThePath /\ Trace!RecordingIsKnown
=============================================================================

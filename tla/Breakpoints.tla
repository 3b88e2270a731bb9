----------------------------- MODULE Breakpoints -----------------------------
(***************************************************************************)
(* The breakpoints and watchpoints of the IDE (BreakpointWatchpointModel)  *)
(* over the map of the program (SourceMap): what the user and the remote   *)
(* control edit, what a build and a stop do to the map, and what the       *)
(* debugger is left with.                                                  *)
(*                                                                         *)
(* `wanted` is what the debugger holds once it has taken the commands it   *)
(* was sent; it takes them when it is stopped (NativeTransport), so `armed` *)
(* follows at the next stop.  A dialog waits in a nested event loop, in    *)
(* which the remote control goes on editing.                               *)
(***************************************************************************)
EXTENDS SourceMap

CONSTANTS
  Loads,       \* where GEMDOS may load a program
  Places,      \* the (base name, line) pairs that are broken at
  Names,       \* the labels that are asked for
  Renames,     \* the files that are renamed: pairs of base names
  Losses,      \* what a build may fail to give the map: a sequence of [lost, unlinked]
  MaxEdits, MaxBuilds, MaxStops

ASSUME BreakpointsAssumption ==
  /\ 0 \notin Loads /\ {MaxEdits, MaxBuilds, MaxStops} \subseteq Nat
  /\ Losses[1] = [lost |-> {}, unlinked |-> FALSE]

VARIABLES
  map,      \* m_programMap, with m_symbols
  bases,    \* m_bases
  ses,      \* the session: what runs, where, and the controller's flags
  bps,      \* m_breakpoints; each row has the `id` it was made with
  wps,      \* m_watchpoints
  dialog,   \* the condition's or the script's dialog, and the row its code holds on to
  wanted, armed, \* what the debugger has been told, and what it holds
  trigger,  \* the stop that was published: its cause, and the line it is shown at
  ghost,    \* for the properties: a dialog `strayed` to a row that it was not opened on, a build
            \* ended since the launch (`rebuilt`), a script's dialog made a row that is `unarmed`
  used      \* against the bounds, and the last `id`

vars == <<map, bases, ses, bps, wps, dialog, wanted, armed, trigger, ghost, used>>

NoSession == [on |-> FALSE, prog |-> 0, at |-> 0, running |-> FALSE, pc |-> 0,
              entered |-> FALSE, armedOnce |-> FALSE, event |-> FALSE]

NoDialog == [kind |-> "none"]

NoGhost == [strayed |-> FALSE, rebuilt |-> FALSE, unarmed |-> FALSE]

NoTrigger == [pc |-> 0, at |-> 0, where |-> {}]

Init ==
  /\ map \in {[build |-> p, loss |-> 1, of |-> 0] : p \in DOMAIN Programs}
  /\ bases = NoBases /\ ses = NoSession /\ bps = <<>> /\ wps = <<>>
  /\ dialog = NoDialog /\ wanted = {} /\ armed = {} /\ trigger = NoTrigger
  /\ ghost = NoGhost
  /\ used = [edits |-> 0, builds |-> 0, stops |-> 0, id |-> 0]

LiveBases(p, at) == [s \in Sections |-> at + SectionVa(Programs[p], s)]

\* The map as the state keeps it: what was built, what of it was lost, whose bases it was given.
\*   [build, loss, of]
Full(m) ==
  [build |-> m[1], lost |-> Losses[m[2]].lost, unlinked |-> Losses[m[2]].unlinked,
   live |-> IF m[3] = 0 THEN NoBases ELSE LiveBases(m[3], m[4])]

\* Where a program may be met.
Anywhere == UNION {at .. at + OutputSize(Programs[p], "text") - 1 : at \in Loads, p \in DOMAIN Programs}

Files == {pl.file : pl \in Places} \cup UNION {{r[1], r[2]} : r \in Renames}
         \cup UNION {{m.source.base : m \in ToSet(Programs[p])} : p \in DOMAIN Programs}

\* SourceMap's answers, worked out once for every map there may be: <<build, loss, of, at>>.
Maps == (DOMAIN Programs) \X (DOMAIN Losses) \X (0 .. Len(Programs)) \X Loads

\* The function, with all its values at hand.
WorkedOut(f) == f @@ <<>>

CodeAddress ==
  WorkedOut([m \in Maps |-> WorkedOut([f \in Files |-> WorkedOut([line \in 1 .. 9 |->
    UNION {ProgramAddressFor(pm, [dir |-> "", base |-> f], line, TRUE) : pm \in {Full(m)}}])])])

LineAt ==
  WorkedOut([m \in Maps |-> WorkedOut([address \in Anywhere |->
    UNION {ProgramLineFor(pm, address) : pm \in {Full(m)}}])])

AddressOf ==
  WorkedOut([m \in Maps |-> WorkedOut([name \in Names |->
    UNION {LabelAddress(pm, name) : pm \in {Full(m)}}])])

SiteOf ==
  WorkedOut([m \in Maps |-> WorkedOut([name \in Names |->
    UNION {LabelSite(pm, name) : pm \in {Full(m)}}])])

AtMap(answers, m, at) == answers[<<m.build, m.loss, m.of, at>>]

\* Where the session's program is, or would be.
Here == IF ses.on THEN ses.at ELSE CHOOSE at \in Loads : TRUE

-----------------------------------------------------------------------------
(* Arming.                                                                  *)

ConditionAccepted(condition) == condition # "refused"

\* planBreakpoints: the commands, each with the row it is for.
PlanBreakpoints(rows, m) ==
  UNION {{[id |-> r.id, address |-> a, condition |-> r.condition] :
            a \in AtMap(CodeAddress, m, Here)[r.file][r.line]} :
          r \in {x \in ToSet(rows) : ConditionAccepted(x.condition)}}

Watching(r, address) == [id |-> r.id, address |-> address, condition |-> "changed"]

PlanWatchpoints(rows, m) ==
  {Watching(r, r.address) : r \in {x \in ToSet(rows) : x.name = ""}}
  \cup UNION {{Watching(r, a.address) : a \in {x \in AtMap(AddressOf, m, Here)[r.name] : x.problem = "None"}} :
                r \in {x \in ToSet(rows) : x.name # ""}}

\* armBreakpoints: what the debugger is told, and whether the session counts as armed.
Arming(bs, ws, m, live) ==
  IF live["text"] = 0
    THEN [set |-> {Watching(r, r.address) : r \in {x \in ToSet(ws) : x.name = ""}}, counts |-> FALSE]
    ELSE [set |-> PlanBreakpoints(bs, m) \cup PlanWatchpoints(ws, m), counts |-> TRUE]

\* A stopped debugger takes its commands at once.
Tell(set, stopped) == wanted' = set /\ armed' = IF stopped THEN set ELSE armed

\* Fault: a running machine is left as it is.
ReArm_OnlyStopped(bs, ws) ==
  IF ses.on /\ ~ses.running
    THEN \E a \in {Arming(bs, ws, map, bases)} :
           Tell(a.set, TRUE) /\ ses' = [ses EXCEPT !.armedOnce = @ \/ a.counts]
    ELSE UNCHANGED <<wanted, armed, ses>>

\* Every edit that changes what is armed goes through the one gate: a session, running or stopped.
ReArm(bs, ws) ==
  IF ses.on
    THEN \E a \in {Arming(bs, ws, map, bases)} :
           Tell(a.set, ~ses.running) /\ ses' = [ses EXCEPT !.armedOnce = @ \/ a.counts]
    ELSE UNCHANGED <<wanted, armed, ses>>

\* The remote control edits while a dialog waits; QList has moved under its iterator.
Edit(bs, ws) ==
  /\ used.edits < MaxEdits /\ bps' = bs /\ wps' = ws /\ ReArm(bs, ws)
  /\ dialog' = IF dialog.kind # "none" /\ bs # bps THEN [dialog EXCEPT !.moved = TRUE] ELSE dialog
  /\ ghost' = [ghost EXCEPT !.unarmed = FALSE]
  /\ UNCHANGED <<map, bases, trigger>>

Count == used' = [used EXCEPT !.edits = @ + 1, !.id = @ + 1]

-----------------------------------------------------------------------------
(* The model's operations.                                                  *)

RowAt(file, line) == LET hits == {i \in DOMAIN bps : bps[i].file = file /\ bps[i].line = line}
                     IN IF hits = {} THEN 0 ELSE Min(hits)

NewRow(file, line) == [id |-> used.id + 1, file |-> file, line |-> line,
                       condition |-> "", script |-> FALSE, resolved |-> FALSE]

Toggled(file, line) ==
  LET at == RowAt(file, line)
  IN IF at # 0 THEN RemoveAt(bps, at) ELSE Append(bps, NewRow(file, line))

Toggle(file, line) == Edit(Toggled(file, line), wps) /\ Count

ToggleAtLabel(name) ==
  \E site \in AtMap(SiteOf, map, Here)[name] : Edit(Toggled(site.file, site.line), wps) /\ Count

RemoveRow(file, line) ==
  /\ RowAt(file, line) # 0 /\ Edit(RemoveAt(bps, RowAt(file, line)), wps) /\ Count

\* Run > Clear Breakpoints; the dialogs are modal for its menu.
Clear == dialog.kind = "none" /\ Edit(<<>>, wps) /\ Count

\* Fault: the panel is cleared and the debugger is not.
ClearAllTargets_Silent ==
  /\ dialog.kind = "none" /\ bps \o wps # <<>>
  /\ used.edits < MaxEdits /\ Count
  /\ bps' = <<>> /\ wps' = <<>>
  /\ UNCHANGED <<map, bases, ses, dialog, wanted, armed, trigger, ghost>>

\* The dock's Clear all tells the debugger itself, and does not arm.
ClearAllTargets ==
  /\ dialog.kind = "none" /\ bps \o wps # <<>>
  /\ used.edits < MaxEdits /\ Count
  /\ bps' = <<>> /\ wps' = <<>>
  /\ IF ses.on THEN Tell({}, ~ses.running) ELSE UNCHANGED <<wanted, armed>>
  /\ UNCHANGED <<map, bases, ses, dialog, trigger, ghost>>

\* addWatchpointAddress: by label, or an address; a label is not remembered as an address.
AddWatch(name) ==
  /\ \E a \in AtMap(AddressOf, map, Here)[name] : a.problem \in {"None", "NotLive"}
  /\ Edit(bps, Append(wps, [id |-> used.id + 1, name |-> name, address |-> 0])) /\ Count

AddWatchAddress(address) ==
  Edit(bps, Append(wps, [id |-> used.id + 1, name |-> "", address |-> address])) /\ Count

RemoveWatch(i) == dialog.kind = "none" /\ Edit(bps, RemoveAt(wps, i)) /\ Count

\* clearWatchpoints: those of a name, or all.
ClearWatches(name) ==
  LET kept == IF name = "" THEN <<>> ELSE SelectSeq(wps, LAMBDA w : w.name # name)
  IN kept # wps /\ Edit(bps, kept) /\ Count

\* followRenamedFile: the rows move over; the debugger is not told.
RenameFile(old, new) ==
  /\ used.edits < MaxEdits /\ Count
  /\ bps' = [i \in DOMAIN bps |-> IF bps[i].file = old THEN [bps[i] EXCEPT !.file = new] ELSE bps[i]]
  /\ dialog.kind = "none"
  /\ UNCHANGED <<map, bases, ses, wps, dialog, wanted, armed, trigger, ghost>>

\* editCondition and editScript find the row, then open their dialog.
OpenDialog(kind, file, line) ==
  /\ dialog.kind = "none"
  /\ dialog' = [kind |-> kind, file |-> file, line |-> line, row |-> RowAt(file, line), moved |-> FALSE]
  /\ UNCHANGED <<map, bases, ses, bps, wps, wanted, armed, trigger, ghost, used>>

CancelDialog ==
  /\ dialog.kind # "none" /\ dialog' = NoDialog
  /\ UNCHANGED <<map, bases, ses, bps, wps, wanted, armed, trigger, ghost, used>>

Write(rows, i, text) ==
  [rows EXCEPT ![i] = IF dialog.kind = "condition" THEN [@ EXCEPT !.condition = text]
                                                   ELSE [@ EXCEPT !.script = text # ""]]

\* On OK a row that was there is written through the iterator from before the dialog:
\* anywhere, if the list has moved since.  One that was not there is appended first.
AcceptDialog(text) ==
  LET rows == IF dialog.row = 0 THEN Append(bps, NewRow(dialog.file, dialog.line)) ELSE bps
      found == CHOOSE i \in DOMAIN rows : /\ rows[i].file = dialog.file /\ rows[i].line = dialog.line
                                          /\ \A j \in 1 .. i - 1 : rows[j].file # dialog.file
                                                                   \/ rows[j].line # dialog.line
      here == IF dialog.row = 0 THEN {found} ELSE {dialog.row}
  IN /\ dialog.kind # "none" /\ used.edits < MaxEdits /\ Count /\ dialog' = NoDialog
     /\ \E i \in IF dialog.row # 0 /\ dialog.moved THEN {0} \cup DOMAIN rows ELSE here :
          /\ bps' = IF i = 0 THEN rows ELSE Write(rows, i, text)
          /\ ghost' = [ghost EXCEPT !.strayed = @ \/ i = 0 \/ rows[i].file # dialog.file
                                                  \/ rows[i].line # dialog.line,
                                    !.unarmed = ses.on /\ dialog.kind = "script" /\ (@ \/ dialog.row = 0)]
     /\ IF dialog.kind = "condition" THEN ReArm(bps', wps) ELSE UNCHANGED <<ses, wanted, armed>>
     /\ UNCHANGED <<map, bases, wps, trigger>>

-----------------------------------------------------------------------------
(* Builds and sessions.                                                     *)

\* rebuildProgramMap: the new map knows no bases until a stop gives it some.
Rebuilt(p, loss) == [build |-> p, loss |-> loss, of |-> 0]

\* A build that succeeds, beside whatever runs.
Build(p, loss) ==
  /\ used.builds < MaxBuilds /\ used' = [used EXCEPT !.builds = @ + 1]
  /\ Losses[loss].lost \subseteq DOMAIN Programs[p] /\ (Losses[loss].unlinked => UsesLinker(Programs[p]))
  /\ map' = Rebuilt(p, loss) /\ ghost' = [ghost EXCEPT !.rebuilt = ses.on]
  /\ UNCHANGED <<bases, ses, bps, wps, dialog, wanted, armed, trigger>>

\* launch: the flags, the bases and the debugger begin anew with the program last built.
Launch(at) ==
  /\ ~ses.on /\ map.build # 0
  /\ ses' = [NoSession EXCEPT !.on = TRUE, !.prog = map.build, !.at = at, !.running = TRUE]
  /\ bases' = NoBases /\ wanted' = {} /\ armed' = {} 
  /\ ghost' = [ghost EXCEPT !.rebuilt = FALSE, !.unarmed = FALSE]
  /\ UNCHANGED <<map, bps, wps, dialog, trigger, used>>

SessionEnds ==
  /\ ses.on /\ ses' = NoSession /\ bases' = NoBases /\ wanted' = {} /\ armed' = {}
  /\ trigger' = NoTrigger /\ UNCHANGED <<map, bps, wps, dialog, ghost, used>>

Entry == ses.at

\* The machine stops: at its entry first, then wherever it meets what is armed, or is paused.
\* What waited for the debugger is taken now.
Stops(pc) ==
  /\ ses.on /\ ses.running /\ used.stops < MaxStops
  /\ IF ses.entered THEN TRUE ELSE pc = Entry
  /\ ses' = [ses EXCEPT !.running = FALSE, !.pc = pc, !.entered = TRUE, !.event = TRUE]
  /\ armed' = wanted /\ used' = [used EXCEPT !.stops = @ + 1]
  /\ UNCHANGED <<map, bases, bps, wps, dialog, wanted, trigger, ghost>>

\* breakpointAt: the first row of the model that is resolved at the address.
BreakpointAt(rows, pc) ==
  LET hits == {i \in DOMAIN rows : rows[i].resolved /\ pc # 0
                                   /\ \E a \in armed : a.id = rows[i].id /\ a.address = pc}
  IN IF hits = {} THEN 0 ELSE rows[Min(hits)].id

\* onStateUpdated with the registers and the base page: the stop is published with its cause,
\* the map gets the bases, the stop is shown at its line, and the session is armed if it was not.
StateUpdates ==
  /\ ses.on /\ ~ses.running /\ ses.event
  /\ LET live == LiveBases(ses.prog, ses.at)
         m == [map EXCEPT !.of = ses.prog]
         a == Arming(bps, wps, m, live)
     IN /\ bases' = live /\ map' = m
        /\ trigger' = [pc |-> ses.pc, at |-> BreakpointAt(bps, ses.pc),
                       where |-> AtMap(LineAt, m, ses.at)[ses.pc]]
        /\ IF ses.armedOnce
             THEN UNCHANGED <<wanted, armed>> /\ ses' = [ses EXCEPT !.event = FALSE]
             ELSE Tell(a.set, TRUE) /\ ses' = [ses EXCEPT !.event = FALSE, !.armedOnce = TRUE]
  /\ UNCHANGED <<bps, wps, dialog, ghost, used>>

Continue ==
  /\ ses.on /\ ~ses.running /\ ~ses.event
  /\ ses' = [ses EXCEPT !.running = TRUE, !.pc = 0] /\ trigger' = NoTrigger
  /\ UNCHANGED <<map, bases, bps, wps, dialog, wanted, armed, ghost, used>>

\* Paused anywhere in its code, or stopped by what is armed there.
MayStopAt == IF ses.on THEN ses.at .. ses.at + OutputSize(Programs[ses.prog], "text") - 1 ELSE {}

Next ==
  \/ \E pl \in Places : Toggle(pl.file, pl.line) \/ RemoveRow(pl.file, pl.line)
  \/ \E kind \in {"condition", "script"}, pl \in Places : OpenDialog(kind, pl.file, pl.line)
  \/ \E text \in {"d0 = 1", "refused"} : AcceptDialog(text)
  \/ Clear \/ ClearAllTargets \/ CancelDialog
  \/ \E name \in Names : ToggleAtLabel(name) \/ AddWatch(name) \/ ClearWatches(name)
  \/ AddWatchAddress(1) \/ ClearWatches("")
  \/ \E i \in DOMAIN wps : RemoveWatch(i)
  \/ \E r \in Renames : RenameFile(r[1], r[2])
  \/ \E p \in DOMAIN Programs, loss \in DOMAIN Losses : Build(p, loss)
  \/ \E at \in Loads : Launch(at)
  \/ \E pc \in MayStopAt : Stops(pc)
  \/ SessionEnds \/ StateUpdates \/ Continue

Spec == Init /\ [][Next]_vars

-----------------------------------------------------------------------------
(* What is really in memory while a program runs.                           *)

\* The modules that own an address, with where in their section it is.
Owners(p, at, address) ==
  {[ix |-> i, section |-> s, offset |-> address - LiveBases(p, at)[s] - Programs[p][i].place[s]] :
     i \in DOMAIN Programs[p], s \in Sections}

Inside(p, o) == o.offset \in 0 .. Programs[p][o.ix].size[o.section] - 1

\* The lines whose code or data lies at an address: of the module that owns it, those listed last
\* at or before it in its section.
TrueLines(p, at, address) ==
  UNION {LET es == {e \in ToSet(Listings[p][o.ix].entries) :
                      CanonicalSection(e.section) = o.section /\ e.offset <= o.offset}
         IN {[file |-> e.file, line |-> e.line] : e \in {x \in es : \A y \in es : y.offset <= x.offset}}
         : o \in {x \in Owners(p, at, address) : Inside(p, x)}}

Memory(p, at) == at - 1 .. at + OutputSize(Programs[p], "text") + OutputSize(Programs[p], "data")
                           + OutputSize(Programs[p], "bss")

TrueLinesAt ==
  WorkedOut([p \in DOMAIN Programs |-> WorkedOut([at \in Loads |->
    WorkedOut([address \in Memory(p, at) |-> TrueLines(p, at, address)])])])

\* The map is of the program that runs, and has not lost both a listing and the linker's map.
MapIsOfTheProgram == ses.on /\ map.build = ses.prog /\ map.of = ses.prog

LinkedOrWhole == LET l == Losses[map.loss]
                 IN l.lost = {} \/ (UsesLinker(Programs[map.build]) /\ ~l.unlinked)

-----------------------------------------------------------------------------
(* Properties.                                                              *)

\* A stop is shown at the line whose code lies there, in the module that owns the address:
\* across modules, includes, sections and relocations (LineMap::lineFor).
StopsAtItsLine ==
  [][trigger' # trigger /\ trigger'.where # {} /\ (MapIsOfTheProgram /\ LinkedOrWhole)'
     => trigger'.where \subseteq TrueLinesAt[ses.prog][ses.at][trigger'.pc]]_vars

\* A breakpoint is armed on the code of its own line or not at all, whatever was renamed, lost
\* or relocated (planBreakpoints, "a wrong guess arms a breakpoint in the wrong module").
ArmedOnItsLine ==
  ~ghost.rebuilt /\ MapIsOfTheProgram /\ LinkedOrWhole =>
    \A r \in ToSet(bps), a \in wanted :
      a.id = r.id /\ a.condition # "changed" /\ r.file \notin {x[2] : x \in Renames} =>
        /\ a.address \in Memory(ses.prog, ses.at)
        /\ \E t \in TrueLinesAt[ses.prog][ses.at][a.address] : t.file.base = r.file /\ t.line = r.line

\* What was removed from the model is gone from the debugger too, once it is stopped.
GoneIsGone ==
  \A a \in armed : ~ses.running => \E r \in ToSet(bps \o wps) : r.id = a.id

\* Once the bases are known every row that can be armed is, as it stands; a row that was made
\* before the first stop, or while the machine ran, too.
ArmedAsItStands ==
  ses.on /\ ~ses.running /\ ~ses.event /\ ~ghost.rebuilt /\ ~ghost.unarmed =>
    PlanBreakpoints(bps, map) \cup PlanWatchpoints(wps, map) \subseteq armed

\* The same, with builds beside the session.
BuildsDisarmNothing ==
  ses.on /\ ~ses.running /\ ~ses.event /\ map.build = ses.prog =>
    PlanBreakpoints(bps, map) \cup PlanWatchpoints(wps, map) \subseteq armed

\* stop-hooks-plan.md: the reason is "breakpoint" when the published PC equals an armed
\* breakpoint's resolved address.
CauseIsNamed ==
  [][trigger' # trigger /\ trigger' # NoTrigger /\ (\E a \in armed : a.address = trigger'.pc /\ a.condition # "changed"
                                            /\ \E r \in ToSet(bps) : r.id = a.id)
     => trigger'.at # 0]_vars

\* A dialog writes to the row that it was opened on.
DialogWritesItsRow == ~ghost.strayed

\* Two rows never stand for one line: one toggle would remove only one of them.
RowsAreApart == \A i, j \in DOMAIN bps : i # j => bps[i].file # bps[j].file \/ bps[i].line # bps[j].line

=============================================================================

# PiST: a TLA+ model

PiST is an IDE for Atari ST assembly: it edits and assembles a program, runs it
in the Hatari emulator, and debugs it through one of two transports. This
directory holds TLA+ modules translated from its C++ source, the TLC
configurations that check them on small instances, and theorems that TLAPS
proves about them. Source paths below are relative to `src/src/`.

## 1. Inventory

PiST is one process with one Qt event loop. Nearly all of its code runs on that
thread, so what makes it hard is not locks but *order*: signals that call back
into an object before the method that emitted them has finished, nested event
loops, timers that race an answer, and the processes and sockets at the other
end, which are truly concurrent.

| Component | State | Operations | Interacts with | Hard | What makes it correct |
|---|---|---|---|---|---|
| Native transport (`emu/EmulatorHost`) | queue, command in flight, settle and timeout timers, owed prompts, `m_stopped`, deferred Continue | intents, resume, step, pause, start, stop | stock Hatari over stdin, stdout, stderr and a control socket | two pipes without order, re-entrant drains, late prompts, exit at any point | responses are attributed exactly; every prompt is accounted for; arms precede the Continue; stops are noticed |
| HRDB transport (`emu/HrdbBackend`) | queue, command in flight, `m_ready`, `m_stopped`, owed reply, stderr tail | the same intents | the `hrdb-main` fork over TCP and stderr | requests overtake each other, stale `m_stopped`, reconnects, lost replies | each reply completes its own command, each command is answered once, the run does not overtake an arm, the session does not hang |
| Session controller (`ui/DebugSessionController`) | attach, arming, step-out, stop-event and guided-profile flags | onDebuggerStopped, armBreakpoints, stepOut, resetSessionState | a transport, the window, the breakpoint model | flags that outlive the request they wait for | breakpoints are armed when bases are known; a step-out never resumes away from a stop of the user's |
| Reverse debugging (`ui/MainWindowDebug`) | anchor tree, pending `statesave`, deferred action, seek state | rememberReverseAnchor, reverseStep, reverseContinue, branch, evict | the transport (`statesave`, `reststop`), files of the session | a queued save is dropped by a resume | every listed anchor has its file; a deferred Step is eventually made |
| Build service (`build/BuildService`) | planned steps, the process, diagnostics | build, cancel, step finished | vasm and vlink processes | build while building, cancel in flight | one `finished` per accepted build, steps in order |
| Build-and-run, launch (`ui/MainWindowBuildRun`, `ui/SessionLauncher`) | launch-after-build, variant, launched program, media panel | build, run, stop session, launch | build service, transport, window | relaunch over a live session, run during a build | what is launched is what was asked for; the window's view belongs to the live session |
| Remote control (`control/RemoteControl`) | clients, busy flag, pending command, watchers | verbs; waits in a nested event loop | everything above | re-entrancy, time-outs racing answers | a client's answer is to its own request; busy is released |
| MCP server, control client (`control/mcp`) | pending request, reconnect state | JSON-RPC tools | remote control | peer restarts | one response per request |
| Stop hooks (`hooks`) | the run of a hook, its wait for one command | run, abort | transport, Lua (third party) | session ends under a hook | a hook always finishes |
| Documents (`support/DocumentWatcher`, `FileWrite`, `ui/MainWindowDocuments`) | watched and reported sets, modified flags | open, save, external change | file system | rename, delete and recreate | a deletion is reported once, a save is atomic |
| Media server (`emu/MediaServer`) | listener, client, token | listen, accept, authenticate, frames | the fork | replacement client, listener left over | only the session's process is heard |
| Breakpoint model, profiler, RemoteStateAdapter (`ui`) | tables, collection phase | edit, arm, save | session controller | phases across stops | what is armed is what is listed |
| Floppy images (`build/FloppyImage`, `FloppyTransfer`) | a FAT12 volume | read, write, delete | file system | full disk, chains | chains are disjoint, free space is conserved |
| Maps, diff, traces, disassembler (`build`, `analysis`) | none between calls | pure functions | | | round trips |
| Git (`git/GitService`, `ui/GitPanel`) | queued git processes, ticks, selection, the rows on show | refresh, stage, commit, diff, history | git, and whoever else uses the repository | overlapping refreshes, a repository that moves under a task | the panel settles on the repository; a commit holds what was ticked |
| Image editor (`image`, `ui/ImageEditor`) | document, undo stack, stroke, phase, frames, layers, swatches | edit, stroke, undo, redo, slice, save | the tabs, the file | long edit sequences, commands taken during a stroke | undo restores the exact document; an unmodified picture is the saved one |
| Toolchain (`toolchain/ToolFetch`) | download, checksum | fetch, install | network | partial download | only a verified file is installed |
| Project and settings (`project`, `ui/MainWindowProject`) | the settings of the window, the project file | open, save, settings dialogs, new script | tabs, file system | a copy edited while another project is opened, newer and older versions | the window has the settings of its file; a project can be moved |
| Memory panes, traces (`ui/MemoryView`, `ui/MainWindowDebug`) | pending dumps, marks, comparisons, recorded rings | go to, mark, compare, edit, save, trace | the transport, the stops | answers that come a stop later | a pane shows its window; a list shows its ring |
| Crash report, editor and views | | | | | not modelled: one-file output, presentation |

`PROJECT.json` lists the hazards of each at its line.

## 2. Plan

The transports came first: everything the debugger shows or does goes through
them, and they are where two programs meet. Then the code that reacts to them,
then the components around the session. All of these exist; the table says what
each has and what would come next.

| Modules | Checked by | Proved | Next |
|---|---|---|---|
| `NativeTransport` | `native` | types, attribution of answers, owed prompts, the stop view, order of arms and Continue (prompt on stdout) | the stderr build |
| `HrdbTransport` | `hrdb` | every safety property of the run | |
| `ControlClient` | `link` | every safety property of the run | |
| `FatImage` | `disk` | both of its properties, for every tree | |
| `RemoteControl` | `remote` | every safety property of the run | |
| `BuildRun` | `build` | | `WindowKnowsItsRun` |
| `CommandLane`, `DebugSession` | `session` | every property of the run | |
| `ReverseDebug` | `reverse` | | `RecordIsTrue` |
| `Documents` | `docs` | | `CleanMatchesDisk` |
| `Floppy`, `MediaChannel` | `disk` | | transfers (`MediaChannel` is recursive over bytes and stays with TLC) |
| `Projects` | `desk` | both of its properties | |
| `GitPanel`, `ImageDocument`, `ImageEditor`, `EditHistory` | `desk` | | the refinement of `EditHistory`, step by step |
| `SourceMap`, `Breakpoints`, `MemoryPanes`, `Traces` | `panes` | | `GoneIsGone`, `ArmedAsItStands` |

## 3. Modules and the code

Three conventions hold throughout. A handler that runs to its end without
letting anything else run is one action; where it opens a nested event loop, a
dialog or a blocking read, or where a signal calls back into it, there is a
point at which others act, and the action is cut there. Handlers with many calls
are functions on a *frame*, a record of the variables (`OnStopped(f)`,
`Settle(f)`, `TryDial(f)`), and the action commits the frame the last of them
returns. Nested event loops are a stack (`loops`, `asks`): only the top one may
return, as in Qt. `PROJECT.json` maps every definition to its lines.

### The transports

**`NativeTransport`** is `emu/EmulatorHost.cpp` and the stock debugger at the
other end of its pipes. The host's variables are the members of the class
(`owed` is `m_owedPrompts`, `awaiting` is `m_awaitingEntryPrompt`, `cwi` is
`m_continueWhenIdle`); `emu`, `job`, `stdin`, `prompts` and `err` are the
debugger and the pipes. `pc` names the points inside a handler where the
debugger can take a step: `drain`, before a dispatch; `prompt`, with a prompt
found in stderr text; `dispatch`. Prompts are counted, as the code counts them.
A response is the set of its two lines, so that one cut in half, or mixed with
another's, can be told from a whole one. Requests have the three kinds the
transport tells apart: a read, an arm (kept by a Continue) and an over (a
command during which the program runs).

**`HrdbTransport`** is `emu/HrdbBackend.cpp` and the fork. The socket is two
sequences and one flag, stderr a set of who printed; `tail` is the part of
`m_stderrText` that has not been consumed. `pc` is `dispatch` before the
`dispatchNext()` that ends a handler and `expired` or `closing` where a handler
has work left after it emitted `commandFinished`: a listener called there may
make a request, which in the code goes out inside that call. Requests carry the
gating their intent states (`NeedsStop`, `Keeps`), and whether they are console
requests, whose answer is read from stderr (`Captures`): a clear, a read and the
floppy insert are; an arm's `bp`, a once, registers, memory and a poke are not,
and those that may print (`Prints`) leave it on stderr. The fork may refuse a
console request (NG), whose answer is then not read either. `spilled` is the
commands answered without a look at stderr since it was last read to its end;
what they printed joins the next console answer, as in the code (section 8), and
`AnswerIsExactUnlessSpilled` says that nothing else does. Of the kinds without a
capture the run makes arms and, by a refresh, queries; `Offered` names them.

**`CommandLane`** is what both transports give the code above them, as
functions on a record: `Enqueue`, `Resume`, `Dispatch`. It has no prompts and
no time-outs. What a Continue leaves of the queue (`Kept`) is given by the rank of
each request among those kept, which says without recursion which one stands where.

### The session

**`DebugSession`** is `ui/DebugSessionController.cpp` and the parts of
`ui/MainWindowDebug.cpp` that react to the transport. `ctl` holds the
controller's flags and `win` the window's; `machine` is what the debugger has
armed and recorded, `read` the transport's `m_state`. The breakpoints are one
version number, so that "what is armed is what is listed" is an equality; the
one-shots are 1 (Run To Cursor), 2 (Profile To Cursor) and 3 (Step Out). Stops
are numbered (`move`), so that two stops at one program counter can be told
apart where the code cannot. Two users are considered: a patient one acts once
the queue is empty, a hasty one - a held key, a script, a remote client -
whenever the buttons are enabled. A property that only holds for the patient
one says so, and each of those is a limit of the code.

**`ReverseDebug`** is the recorded stops of `ui/MainWindowDebug.cpp` and the
reverse actions on them. The program is a sequence of program counters, the
machine an index into it with the key log that brought it there, so "restored to
the stop on show" is an equality. The forest of anchors, its eviction, `reststop`
with and without the run forward, branches and the saved stops are all there.

**`SourceMap`** has `build/LineMap`, `LinkMap`, `ProgramLineMap` and
`SymbolTable` as operators on the listings of a small program, and
**`Breakpoints`** the rows, the arming plan, the dialogs that wait in nested
loops, renames, and what builds and stops do to what is armed (`wanted` is what
the user has set, `armed` what the machine has).

**`MemoryPanes`** and **`Traces`** are the panes that ask the transport for
memory and the three traces with coverage, over a lane whose answers may come
one stop late.

### Building, running, and being told to

**`BuildRun`** composes `build/BuildService`, the requests of
`ui/MainWindowBuildRun.cpp`, `ui/SessionLauncher.cpp` with its session directory
and the remote control's build, run and stop. `loops` is the stack of dialogs
and of waiting remote requests.

**`RemoteControl`** is `control/RemoteControl.cpp` for the verbs that wait for
the debugger, the menu's captures, which wait in the same way, and
`hooks/StopHookRunner.cpp`: a hook script is a sequence of operations, each of
which may wait in a loop of its own.

**`ControlClient`** is `control/mcp/ControlClient.cpp`, the calls of
`McpServer` that wait on it, and the IDE's side of the two connections
(`role` is `requests` or `events`). Each wire is ordered, in both directions; the
discovery file, tokens, versions, time-outs and the reconnect timer are there.

**`MediaChannel`** is `emu/MediaServer`: one client, its AUTH and timer, and the
parser over every way a stream of symbols can be cut up. It is the only module
with a RECURSIVE operator.

### Files and pictures

**`Documents`** is the tabs, `support/DocumentWatcher`, the saves and
`ui/MainWindowDocuments.cpp`; `asks` is the stack of modal questions. It includes
the tabs that stand for a file in a floppy image, and their write-back.
**`Projects`** is the project file, the two dialogs that edit its settings and the
question put before a project's stop hook runs. The question is a modal box, so
asking (`HookMayRunFor`) and answering (`UserAnswers`) are two actions, and the
remote side opens, runs and changes assets between them and under the dialogs:
`win.ask` holds the project asked about, the script the question named and what
its caller does with the answer. A Yes trusts whatever script the settings name
when it comes (`Granted`). `checkout` says whether PiST runs in its source tree,
whose demo is trusted by where it lies, whatever its script says
(`ShippedProject`); otherwise the demo is a copy that PiST made and trusts by a
record. The read-only directory an installation copies from is never opened
itself and is left out. `allowed` is what somebody said yes to, chose, or has
from PiST; `mistaken` what a yes was taken for that was said of another script.
`HookRunsAsAllowedUnlessReplaced` says that a hook which is on has been allowed
as it now reads, past its own question, and unless a remote open put it in the
place of the one the question named.
**`Floppy`** is what `build/FloppyTransfer` and the browser do to images and
folders, with a failure or a crash at each step; **`FatImage`** is the layout
that `FloppyImage` writes and reads: clusters, chains, directories with "..".
**`GitPanel`** is `git/GitService`, one process at a time, and the panel.
**`ImageDocument`** has the operations on a picture, **`ImageEditor`** the undo
stack and the panels, and **`EditHistory`** says what an undo stack promises: a
list of documents and a place in it. `ImageEditor` implements it under

    History == INSTANCE EditHistory WITH shown <- done + 1, document <- BaseContent

**Packs.** `MCDisk`, `MCDesk` and `MCPanes` each put components that share no state into one run: the first step
chooses one, and the others stay in an initial state, so every behaviour is a
behaviour of one component and the state space is a sum, not a product. The
other `MC` modules define the constants of one module.

## 4. Runs

| Run | Shows | Bounds |
|---|---|---|
| `native` | responses are whole and unmixed, owed prompts come, commands meet a prompt, arms precede the Continue, `isStopped()` is true when nothing is unread; on stdout no stop, queued command, Continue or pause is forgotten | 3 requests, 1 session, 1 pause; prompt on either pipe; time-outs before the prompt only (section 8) |
| `hrdb` | replies complete their own command, a console answer has its own text and of others' only what was left unread, each command gets one answer, what is owed comes, arms precede the run, the stop view is true, and the host is neither forever greeting nor holding a queue | 3 requests, 1 session, 1 reset; a slow, silent, refusing or foreign fork; with and without listeners that make requests |
| `session` | snapshots belong to their stop; attaching ends; a departure with known bases has the breakpoints, coverage and one-shot it should; a stop and a step are told apart and published at their place | 2 program counters, 3 moves, 2 actions, 1 edit, 2 sessions, both users |
| `reverse` | what is on show is on the path that was run, the record and the key log are true, and eviction spares the stops that a step back needs | a program with a loop, 3 anchors, 2 stops, with and without a Hatari that restores |
| `build` | each intent has its build, the live session has its name, what is launched is what was built, no session directory is lost, and a remote request is answered | 2 sources, 2 requests, 1 event, each step may fail |
| `remote` | one wait for each thing that is busy, one reply for each line, and an answer is the one that was asked for unless the address is asked for again | 1 client, 2 lines, 1 event, 1 time-out, one hook |
| `link` | an open call is held once and never executed twice; a reply is its own call's unless an earlier one was given up; nobody waits forever | 2 calls, 3 starts of the IDE in 2 versions, 1 fault |
| `docs` | a tab that says it is saved has what the disk has, or the news is on its way; text is lost only when the user says so or the file is moved | 2 tabs, 2 edits, 1 change from outside, questions 2 deep |
| `disk` | chains are apart and read back, transfers keep every entry on one side or the other, and the channel hears its own stream whole | 4 data clusters; every way of cutting the stream |
| `desk` | hooks run as allowed unless another replaced them under their question, settings are the project's and travel with it, the git panel shows the repository, pictures and their history are kept | 3 gestures (answers not counted), 2 directories, 1 change from outside, 1 failure; in PiST's source tree, which has its demo, or out of one; at most one project file at first |
| `panes` | what is armed is what is listed at the line it was set on; panes show their window and lists their ring | 2 edits, 1 build, 2 stops, 4 programs |
| `projects_newer` | a counterexample: a newer version's project file is refused, and overwritten by the next save | 4 gestures |

Several properties are conjunctions of named parts. `SnapshotsAreTrue` is
`SaveIsPending`, `OneAnchorPerStop` and `SnapshotIsAtItsPc`; `AttachCompletes` is
`SetupIsDone` and `SettledMeansArmed`; `ProgramRunsArmed` is
`BreakpointsInForce`, `CoverageCoversTheRun`, `RunHasItsEnd` and
`GuidedShotIsGone`; `StopsAreToldApart` is `StopIsPublished`, `StopEventPlace`,
`StepEventIsAStep` and `StepOutAtItsStopIfPatient`; `HousekeepingKeepsTheStop` is
`EvictionSparesTheSpine` and `ScreenKeepsItsStop`; `ReverseKeepsTheRecord` is
`RecordIsTrue` and `KeysAreRecorded`; `WindowKnowsItsRun` is `IntentHasItsBuild`
and `SessionIsNamed`; `BuildsEndWell` is `LaunchesWhatItMade`,
`NoDirectoryIsLost` and `RemoteIsAnswered`; `WaitsAreAccounted` is
`BusyIsOneWait`, `HookWaits` and `RepliesAreToCome`; `CallsRunOnce` is
`OpenCallsAreHeld` and `NothingRunsTwice`; `NobodyWaitsForever` is
`CallsAreAnswered`, `WatchIsAnswered` and `WatchComesBackUnlessRefused`;
`TabsAndDiskAgree` is `CleanMatchesDisk`, `NewsIsOnItsWay`, `OwnWriteIsWatched`
and `RegistryServesItsTab`; `WrittenReadsBack` is `ReadsBack` and
`ParentIsNamed`; `ArmedWhereSet` is `ArmedOnItsLine`, `GoneIsGone`,
`ArmedAsItStands` and `StopsAtItsLine`; `SettingsAreTheProjects` is
`WindowIsItsFile` and `ProjectTravels`; `AnswerIsExactUnlessSpilled` is
`AnswerHasNoOthers` and `AnswerIsWhole`.

Why these bounds are enough. A transport has one request in flight and treats
the queue as a whole, so an error needs at most one request that goes wrong, one
that is hurt by it and one behind them. In a debug session every flag is set at
one stop and consumed at it or at the next, so three moves cover a flag that is
set, survives a stop and bites; two program counters tell "the same place" from
"another". A second edit adds no case, since the version number only has to
differ. Two requests, clients' lines or calls are one and the one that overtakes
it; a third start of the IDE is one that comes back after one that refused. Two
tabs are the one in question and the one that shifts it. Four clusters hold a
folder, a file of two clusters and one that no longer fits. Three gestures are a
load whose question is open, the remote open or the dialog under it, and the
gesture that shows what came of both.

Each passing property is also violated, within the same bounds, by a plausible
fault of the code: the definitions whose comment begins with "Fault"
(`ResetControl_StepOutLeft`, ...) stand before the ones they alter, and
`PROJECT.json` lists them under `mutants`.

`CHECK_DEADLOCK FALSE` is set in every configuration: with the bounds used up and
the processes gone, the system rightly has nothing left to do.

## 5. Fairness

Fairness is weak everywhere, and stated only for what a running event loop or a
running process does by itself:

  - `NativeTransport`: the end of the process is noticed, pipes are read, owed
    handlers and dispatches continue, the debugger completes what it was told,
    polls the pause line and writes its prompt.
  - `HrdbTransport`: the handshake timer expires, socket events and the end of
    the process are handled, a fork that is there serves and runs.
  - `BuildRun`: a build step ends, a remote request's 0 ms timer fires, and a
    nested loop whose wait is over returns.
  - `ControlClient`: a dial ends one way or the other, input and closed
    connections are handled, the reply and reconnect timers fire, and an IDE that
    runs reads and answers. It also takes the IDE to be started again when it has
    stopped, within the bound: `WatchComesBackUnlessRefused` is about the client's
    part in that, which nothing but a new IDE can set off.

Nothing is assumed of the program (it may run forever), of the user, of the
command time-out, of the fork's starting to listen, of a dialog's being answered, or of a link that
may drop. Elsewhere what must eventually happen is stated of settled states
(`SettledMeansArmed`, `SaveIsPending`, `NewsIsOnItsWay`), and that the queue
settles is what the transport runs say.

## 6. Proofs

The proofs hold for every value of the constants: any number of requests,
sessions, calls, restarts, any tree and any disk.

**`FatImageProofs`.** The writer gives out clusters in order of the tree, so
that what an entry owns is an interval; intervals of different entries do not
meet (`ClustersAreApart`). Within one, each cluster names the next and the last
ends the chain, so a reader that follows it and stops after as many steps as
there are clusters meets each once (`WrittenChainsReadBack`); a folder's ".." is
its parent's first cluster, or 0 for the root (`ParentsAreNamed`).
`WrittenIsReadBack` puts these together. The assumption is that the disk is one
a FAT12 can number.

**`HrdbTransportInv`, `HrdbTransportProofs`.** The inductive invariant is
`TypeOK` with `AliveRuns` (a fork that lives has its process), `Reentry` (what
holds at each point inside a handler where a listener is called), `Session` (the
greeting comes first, and how far the session is says what may be on the wire),
`Replies` (the replies to come, read from both wires in order, are those of the
command owed and of the one in flight, and of no others), `Told` (what the host
was told last, followed by what is on the wire, is the state of the fork) and
`RunsBehind` (every arm in hand stands in front of the run that follows it).
`Replies` is why attribution is right although replies carry no name: the host
counts. `Printed` adds that what stderr holds, read or not, is of commands that
are `spilled` or of the one in flight, `Flushed` that a console command's OK is behind
its text; `AnswersAreExact` rests on both.
`AnswersAreOwn` excludes the case in which a listener answers a failed
command with a request, where the code is wrong (section 8).

**`NativeTransportInv`, `NativeTransportProofs`.** For each thing the host may
wait for - a response (`InFlight`), an owed prompt (`Owed`), the entry prompt
(`Entering`), or nothing (`AtRest`) - the invariant says exactly what the
debugger and its pipes hold, that is, which prompts have still to come. The
properties need it because a prompt carries no name: `onPrompt()` attributes
each by elimination, so attribution is right only as long as the count of what
is outstanding is. `Banner` and `Drained` add why the entry dump cannot reach a
response: it has been read before the first dispatch. `Pending` and
`ArmsAreAhead` say that an arm, once queued, stays in front of the Continue that
was asked for after it; `ContinuesFollowTheirArms` follows. Two assumptions,
named in the module (`OnStdout`), restrict these theorems: the prompt is on
stdout, and the command time-out does not expire in the settle period after the
prompt. The second is not what the code guarantees; section 8 has the failure,
and the proof shows that nothing else is wrong with the accounting.
`TypeCorrect` needs neither.

**`ControlClientInv`, `ControlClientProofs`.** A handler of the client makes
several calls that each fail, answer or send something, so the invariant is one of *frames*:
`FrameOK(f, inHand, role, ran, calls)` holds of the state between events and,
with the call a handler has `inHand`, at every point inside it. Its parts: a call
is queued, in flight or in hand, and only one of these (`HeldOnce`); what was
executed was sent, and sent once (`SentOnce`); both ends know the calls they
speak of (`Known`) and each connection carries only its own role's (`OfItsRole`);
a connection that is closed, unauthenticated or not yet admitted carries what
it then may (`Unconnected`, `Authenticating`, `Unadmitted`); the replies on the
wire are those of the requests on it, in order (`Carries`); and the lines
collected for the call in flight are its own unless one was given up before it
(`OwnAnswers`). Each handler is a lemma from frame to frame; an action is then
its handlers in turn.

**`RemoteControlInv`, `RemoteControlProofs`.** Here too a handler calls others
that reply, wait or end the session, so `FrameOK(f, held, owing, script)` holds
at every point inside one, with what the handler has in hand as parameters:
whether `m_busy` is its own (`held`), the connections it still owes a reply
(`owing`), and whether it is the script's turn (`script`). Between events
nothing is in hand. `VerbsAreAccounted` is the accounting `WaitsAreAccounted`
rests on: at most one verb waits, `m_busy` is set exactly while it does or a
handler holds it, and each reply owed to a client is that of a line not yet
read, of the wait, or in hand. `ScriptIsAccounted` is the same for the hook and
`m_running`, but for a script that was left running for good (section 8).
`LaneIsClaimed` says that requests in the lane have names of their own and that
each made by a verb or a script is that of a loop that waits, or of one that
gave it up and is remembered in `loose`; `AnswersAreOwn` follows from it, because
a reply completes the request at the head of the lane and no other. Writing the
proof showed two arms of a CASE in `Heard` to overlap, where the code has an
early return; they are now in the code's order.

**`DebugSessionInv`, `DebugSessionProofs`.** None of the four properties of a
session is inductive: each is about what has been done once the queue is empty,
or at the moment the program leaves, and by then the requests that did it are
gone. The invariant therefore speaks of the *line*, the command in flight at
place 0 and the queue behind it, together with what the debugger has done, what
was read of it and what the window waits for. What is armed in the end - by the
last arming in the line, or already, with none left in it - is what the panel
lists (`EndsArmed`); coverage is on or in the line (`EndsCovered`); a one-shot of
a guided run that is over has its clear behind it (`ShotIsCleared`); each state
that a request reports is read since the last step before it (`ReportsAreFresh`);
bases are known, or a read of them and a report after it are in the line
(`BasesCome`); the stops recorded are in their order, and no later than what was
read (`StopsAreRecorded`). For a patient user the line also says why each flag
is set: what a Continue, a step-out, a statesave, the views or an event waits
for is in it (`PatienceOK`). `FrameOK` is the conjunction, and holds of every
frame inside a handler.

A line changes in four ways: more is put behind it, its head goes out, what was
in flight is done, or a Continue thins it. The first lemmas say what each way
keeps of each part (`KeptIs` is what a Continue keeps of a queue: all that it
should, once, in its order); each handler is then a lemma from a good frame to a
good frame, and `CommitOK` says what the dispatch at the end of a handler does.
`Takes` is what a step may do to the session, `TakesKeeps` that such a step keeps
the invariant, `StepIs` that every action is one. The two state properties
follow from the invariant in a settled state; the two action properties follow
from what `CommitOK` knows when the program leaves - a Continue goes out only
when its line is empty, so what `EndsArmed` promised has been done. Where the
code's promise holds for the patient user only, so does the theorem's: the
property itself says which.

**`ProjectsInv`, `ProjectsProofs`.** A gesture is a chain of calls, each of which
takes the frame (files, scripts, windows, what is trusted) to the next, so
`FrameOK` is proved of each, also of those a remote gesture passes through while
a question is open. `HooksRunAsAllowed` rests on `HookIsAllowed` - the hook in
the window, with the contents its script has now, was allowed or mistaken for one
that was, unless the script changed since, the hook was refused, or the question
about it is still open - on `TrustedIsAllowed`, that a trusted triple is allowed
or mistaken for one that was, and on `AskedInDialog`, that a question put by the
hooks dialog finds it open when it is answered. `SettingsAreTheProjects` rests on
`OwnedIsShown`: the file of the open project is readable and loads to the
window's settings, the source apart. Between a setting that changes and the save
that follows, only `HooksOK` holds; `SaveTo` restores the rest. `Travels` is the
round trip: what `Save` writes is what `Load` reads, for every directory. The one
assumption, `NamesAssumption`, is that `None` is no value of any type, questions
included, and that a path relative to its project is no directory.

**`SequenceLemmas`** has the facts about `RemoveAt`, `Tail`, `Append`, `Front`
and `\o` element by element that the proofs of the transports, the client and
the remote control use, and that a nonempty set of naturals has a least element.

A proof follows its module: one lemma for each action or handler, one step for
each conjunct it disturbs, and a theorem at the end that is the invariant with
the temporal rule.

## 7. Model-checked only

Liveness and ENABLED are out of the prover's reach: `StdoutNeverStalls`,
`HostIsNeverStuck`, `NobodyWaitsForever`, the second half of `BuildsEndWell`.
So is induction over data with the library's theorems: `MediaChannel` (its
parser is recursive over the bytes) and what `SourceMap` computes by folding over lists. `StopsAreKnown` is
proved in its stdout part (`StopView`), checked on stderr. Refinement of
`EditHistory` and every property of the components that section 2 lists without
a proof are checked on their bounds and not proved yet.

## 8. Disagreements between code and comments

`PROJECT.json` lists each under `findings` with its line and the line it
contradicts. One has a run of its own, `projects_newer`. The others were
met while modelling, most of them as counterexamples to a stronger form of a
property; where the code's promise holds only under a condition, the property
says so in its name (`...UnlessLate`, `...UnlessRepeated`, `...IfPatient`,
`...UnlessMoved`, `...UnlessSpilled`, `...UnlessReplaced`) and the finding has the case outside it. The ones that a
maintainer would look at first:

  - Native: a command time-out that expires in the settle period owes a prompt
    that was already read, and holds the queue; a pause during a step over that
    timed out ends in one prompt, which is swallowed.
  - HRDB: a listener's request on a failed command goes out before the late
    reply is marked as owed; a break held while the machine runs keeps a Step
    Over's run from going out; text of an arm or of a refused command that is
    still unread when a console command goes out joins that one's answer.
  - Projects: while the question about a hook is open the hook is not yet
    refused, so a stop of a live session runs it; a remote open under the
    question replaces the settings, and the Yes then trusts the other project's
    script, or clears its refusal.
  - Session: Continue at the entry stop, before the bases are known, runs without
    breakpoints; Step Out can be decided by another stop's dump.
  - Reverse: a refused `reststop` leaves the seek state, and a run forward that a
    breakpoint cuts short leaves every reverse action disabled.
  - Build: a relaunch removes the live session's directory before it may refuse,
    and forgets the name of what it launched; Run during a release build launches
    the release program.
  - Remote: a hook setting cleared at the wrong moment keeps every later hook
    from running; a late answer is taken for the next request's.
  - Documents: `closeTab` removes by an index that a question in between may have
    shifted. Floppy: moving files to an image deletes the hidden files and links
    of the host folder, which it did not copy.
  - Pictures: undo restores the modified flag with the document, so a picture
    that differs from its file can say that it is saved.
  - Breakpoints: a dialog writes through an iterator that may have gone stale
    while it waited.

Behaviours that no comment contradicts, which a maintainer may want to know:
Run To Cursor and Step Out's own resume do not wait for the snapshot of the stop
and drop its `statesave`; a Step held for it is then never made. A stop at the
program counter of the one before keeps the earlier stop's file. A Profile stop
followed at once by Continue loses the command that restores the disassembler.
A Pause during boot is taken for the entry stop, so symbols are loaded before
there is a program.

## 9. Not modelled

Text: the character-level prompt scanner, the parsing of responses, of listings
and of maps, uudecoding, JSON, the layout of file formats, wording and logging.
In the transports: floppy inserts over the control socket, the 64 KiB bound on
the fork's stderr text. In the session: named watchpoints and raw commands. In
the remote control: the verbs that answer at once. In the documents: read-only
tabs. In the picture editor: the geometry of the tools, resampling, the bitplane
export. The `note` of each component in `PROJECT.json` says what it leaves out.

Whole components: the program comparison and the disassembler are sequential decoders without
state between calls; the toolchain's download is a straight line of checks
around the network; the crash report is a signal handler that writes one file;
the editor and the views are presentation.

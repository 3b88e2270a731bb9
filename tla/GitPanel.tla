------------------------------ MODULE GitPanel ------------------------------
(***************************************************************************)
(* The git panel (src/src/ui/GitPanel.cpp) over the service that runs git  *)
(* one process at a time (src/src/git/GitService.cpp): the queue of tasks, *)
(* what a finished task announces, and what the panel shows and enables.   *)
(*                                                                         *)
(* A git process reads or changes its repository at one moment (GitRuns)   *)
(* and is answered at a later one (Settle); other programs change the      *)
(* repository at any moment between. Left out: blame, a detached HEAD,     *)
(* renames, and a missing git.                                             *)
(***************************************************************************)
EXTENDS Integers, Sequences, FiniteSets, SequencesExt

CONSTANTS Folders,      \* the directories that can be opened
          Repositories, \* those that are repositories
          Paths, Branches, FirstBranch,
          Contents,     \* what the repositories may hold at the start
          MaxGestures, MaxOutside, MaxFailures, None

PanelAssumption ==
  /\ Repositories \subseteq Folders /\ FirstBranch \in Branches /\ None \notin Folders \cup Branches
  /\ Contents \subseteq [Repositories -> [Paths -> {"clean", "modified", "untracked", "staged", "both", "conflict"}]]
  /\ {MaxGestures, MaxOutside, MaxFailures} \subseteq Nat

VARIABLES ide,       \* the service and the panel: see Init
          repo,      \* the repositories themselves: path states, branch, branches, commits
          made,      \* the last commit made: what it took and what was asked
          swept,     \* another program staged a path after the index was read for this commit
          moved,     \* the folders other programs changed since their status was last read
          due,       \* and those of them whose status the user asked for since
          gestures, outside, failures \* how many there were, for the bounds

vars == <<ide, repo, made, swept, moved, due, gestures, outside, failures>>

Group(state) ==
  CASE state = "modified" -> {"unstaged"}
    [] state = "untracked" -> {"untracked"}
    [] state = "staged" -> {"staged"}
    [] state = "both" -> {"staged", "unstaged"}
    [] state = "conflict" -> {"conflict"}
    [] state = "clean" -> {}

\* The rows git status lists: a path changed in the index and in the worktree has two.
RowsOf(r) == UNION {{<<g, p>> : g \in Group(r.state[p])} : p \in Paths}

PathsIn(rows, groups) == {row[2] : row \in {x \in rows : x[1] \in groups}}

Staged(r) == PathsIn(RowsOf(r), {"staged"})

Reads == {"discover", "status", "branches", "diff", "log", "show"}

Task(name, arg, w) ==
  [name |-> name, arg |-> arg, dir |-> w.requested, gen |-> w.gen, steps |-> <<name>>,
   step |-> 1, out |-> None, selection |-> {}, stage |-> {}, listed |-> None]

NoTask == [name |-> "none"]

NoRow == <<"none", None>>

Closed == [requested |-> None, inRepo |-> FALSE, running |-> FALSE, discard |-> FALSE,
           busy |-> FALSE, gen |-> 0, queue |-> <<>>, cur |-> NoTask,
           \* the panel
           panelInRepo |-> FALSE, history |-> FALSE, rows |-> {}, ticked |-> {},
           known |-> {}, current |-> NoRow, diffRow |-> NoRow, showHash |-> 0, shown |-> None,
           branch |-> None, names |-> {}, selected |-> None, log |-> 0, message |-> FALSE,
           commitOn |-> FALSE, netOn |-> FALSE, branchOn |-> FALSE, historyOn |-> FALSE,
           listed |-> None] \* the folder whose status the rows are from: not in the code

\* A repository that was opened, and listed.
Listed(f, rows) ==
  LET ticked == {r \in rows : r[1] = "staged"}
  IN [Closed EXCEPT !.requested = f, !.inRepo = TRUE, !.gen = 1, !.cur = NoTask,
                    !.panelInRepo = TRUE, !.rows = rows, !.ticked = ticked,
                    !.known = {<<r, r \in ticked>> : r \in {x \in rows : x[1] # "conflict"}},
                    !.branch = FirstBranch, !.names = {FirstBranch}, !.selected = FirstBranch,
                    !.netOn = TRUE, !.branchOn = TRUE, !.historyOn = TRUE, !.listed = f]

Init ==
  /\ repo \in {[f \in Repositories |-> [state |-> c[f], branch |-> FirstBranch,
                                        branches |-> {FirstBranch}, commits |-> 1]] : c \in Contents}
  /\ ide \in {Closed} \cup {Listed(f, RowsOf(repo[f])) : f \in Repositories}
  /\ made = None /\ swept = FALSE
  /\ moved = {} /\ due = {}
  /\ gestures = 0 /\ outside = 0 /\ failures = 0

---------------------------------------------------------------------------
(* The panel: what is enabled, and the branch selector.                    *)

UpdateCommitEnabled(w) ==
  [w EXCEPT !.branchOn = w.panelInRepo /\ ~w.busy,
            !.commitOn = w.panelInRepo /\ ~w.busy /\ w.ticked # {} /\ w.message]

SetBusy(w, busy) ==
  IF w.busy = busy THEN w
  ELSE UpdateCommitEnabled([w EXCEPT !.busy = busy, !.netOn = w.panelInRepo /\ ~busy])

SelectCurrentBranch(w) ==
  IF w.branch = None THEN w
  ELSE [w EXCEPT !.names = @ \cup {w.branch}, !.selected = w.branch]

ClearDiff(w) == [w EXCEPT !.diffRow = NoRow, !.showHash = 0, !.shown = None]

---------------------------------------------------------------------------
(* The service's queue.                                                    *)

StartNext(w) ==
  IF w.running THEN w
  ELSE IF w.queue = <<>> THEN SetBusy(w, FALSE)
  ELSE [w EXCEPT !.cur = Head(w.queue), !.queue = Tail(w.queue), !.running = TRUE, !.discard = FALSE]

Enqueue(w, task) == StartNext([w EXCEPT !.queue = Append(@, task)])

\* What is queued under these names goes; what runs is killed, its answer discarded.
Abandon(w, names) ==
  [w EXCEPT !.queue = SelectSeq(@, LAMBDA t : t.name \notin names),
            !.discard = @ \/ (w.running /\ w.cur.name \in names)]

\* diff(), refreshLog(), showCommit(), refreshBranches(): the newest request is the only one.
Replace(w, name, arg) ==
  IF ~w.inRepo THEN w ELSE Enqueue(Abandon(w, {name}), Task(name, arg, w))

StatusPending(w) ==
  \/ w.running /\ w.cur.name = "status"
  \/ \E i \in DOMAIN w.queue : w.queue[i].name = "status"

RefreshStatus(w) ==
  IF ~w.inRepo THEN w
  ELSE Replace(IF StatusPending(w) THEN w ELSE Enqueue(w, Task("status", None, w)), "branches", None)

---------------------------------------------------------------------------
(* The panel's answers to the service.                                     *)

RequestDiff(w, row) == Replace([w EXCEPT !.diffRow = row], "diff", row)

SetHistoryMode(w, on) ==
  LET turned == [w EXCEPT !.history = on, !.shown = None, !.showHash = IF on THEN @ ELSE 0]
  IN IF w.history = on \/ ~w.panelInRepo THEN IF w.history = on THEN w ELSE turned
     ELSE IF on THEN Replace(turned, "log", None)
     ELSE IF w.current # NoRow THEN RequestDiff(turned, w.current)
     ELSE turned

OnRepositoryChanged(w, inRepo) ==
  LET told == [w EXCEPT !.panelInRepo = inRepo, !.netOn = inRepo /\ ~w.busy, !.historyOn = inRepo]
  IN UpdateCommitEnabled(IF inRepo THEN told ELSE SetHistoryMode(told, FALSE))

StatusFailed(w) ==
  UpdateCommitEnabled(ClearDiff(SetHistoryMode(
    [w EXCEPT !.panelInRepo = FALSE, !.netOn = FALSE, !.historyOn = FALSE, !.branch = None,
              !.rows = {}, !.ticked = {}, !.current = NoRow, !.log = 0,
              !.names = {}, !.selected = None, !.listed = None], FALSE)))

\* A row keeps the tick it had; one never seen is ticked when it is staged already.
Rebuilt(w, rows) ==
  LET checkable == {r \in rows : r[1] # "conflict"}
      keys == {k[1] : k \in w.known}
      ticked == {r \in checkable : IF r \in keys THEN <<r, TRUE>> \in w.known ELSE r[1] = "staged"}
  IN [w EXCEPT !.rows = rows, !.ticked = ticked,
               !.known = {k \in @ : k[1] \notin checkable} \cup {<<r, r \in ticked>> : r \in checkable},
               !.current = IF w.diffRow \in rows THEN w.diffRow ELSE NoRow,
               !.listed = w.cur.dir]

\* Fault: the row that was selected is left as it was shown before.
StatusListed_KeepsDiff(w, out) ==
  LET told == SelectCurrentBranch([w EXCEPT !.panelInRepo = TRUE, !.netOn = ~w.busy,
                                            !.historyOn = TRUE, !.branch = out.branch])
      built == Rebuilt(told, out.rows)
  IN UpdateCommitEnabled(IF w.history THEN Replace(built, "log", None) ELSE built)

StatusListed(w, out) ==
  LET told == SelectCurrentBranch([w EXCEPT !.panelInRepo = TRUE, !.netOn = ~w.busy,
                                            !.historyOn = TRUE, !.branch = out.branch])
      built == Rebuilt(told, out.rows)
  IN UpdateCommitEnabled(IF w.history THEN Replace(built, "log", None)
                         ELSE IF built.current # NoRow THEN RequestDiff(built, built.current)
                         ELSE ClearDiff(built))

ShowBranches(w, names) ==
  SelectCurrentBranch([w EXCEPT !.names = names,
                                !.selected = IF names = {} THEN None ELSE CHOOSE n \in names : TRUE])

ShowDiff(w, row, dir) ==
  IF w.history \/ row # w.diffRow THEN w ELSE [w EXCEPT !.shown = <<"diff", row, dir>>]

SelectCommit(w, hash) == Replace([w EXCEPT !.showHash = hash], "show", hash)

\* The newest commit is number log: a commit still listed stays selected, else the newest one is.
ShowLog(w, commits) ==
  IF ~w.history THEN w
  ELSE IF commits = 0 THEN [w EXCEPT !.log = 0, !.showHash = 0, !.shown = None]
  ELSE SelectCommit([w EXCEPT !.log = commits], IF w.showHash \in 1 .. commits THEN w.showHash ELSE commits)

ShowCommit(w, hash, dir) ==
  IF ~w.history \/ hash # w.showHash THEN w ELSE [w EXCEPT !.shown = <<"show", hash, dir>>]

OnOperationFinished(w, name, ok) ==
  UpdateCommitEnabled([w EXCEPT !.message = @ /\ ~(ok /\ name = "commit")])

---------------------------------------------------------------------------
(* The service: a task ends, or takes its next step.                       *)

\* Fault: the status is not read again after an operation.
FinishTask_Stale(w, ok) ==
  LET done == w.cur
  IN StartNext(
     CASE done.name \notin Reads -> OnOperationFinished(w, done.name, ok)
       [] done.gen # w.gen -> w
       [] done.name = "discover" ->
            IF ok THEN RefreshStatus(OnRepositoryChanged([w EXCEPT !.inRepo = TRUE], TRUE))
            ELSE StatusFailed(w)
       [] done.name = "status" -> IF ok THEN StatusListed(w, done.out) ELSE StatusFailed(w)
       [] done.name = "branches" -> ShowBranches(w, IF ok THEN done.out.branches ELSE {})
       [] done.name = "diff" -> ShowDiff(w, done.arg, done.dir)
       [] done.name = "log" -> ShowLog(w, IF ok THEN done.out.commits ELSE 0)
       [] done.name = "show" -> ShowCommit(w, done.arg, done.dir))

FinishTask(w, ok) ==
  LET done == w.cur
  IN StartNext(
     CASE done.name \notin Reads ->
            LET told == OnOperationFinished(w, done.name, ok)
            IN IF done.gen = w.gen THEN RefreshStatus(told) ELSE told
       [] done.name \in Reads /\ done.gen # w.gen -> w
       [] done.name = "discover" /\ done.gen = w.gen ->
            IF ok THEN RefreshStatus(OnRepositoryChanged([w EXCEPT !.inRepo = TRUE], TRUE))
            ELSE StatusFailed(w)
       [] done.name = "status" /\ done.gen = w.gen ->
            IF ok THEN StatusListed(w, done.out) ELSE StatusFailed(w)
       [] done.name = "branches" /\ done.gen = w.gen ->
            ShowBranches(w, IF ok THEN done.out.branches ELSE {})
       [] done.name = "diff" /\ done.gen = w.gen -> ShowDiff(w, done.arg, done.dir)
       [] done.name = "log" /\ done.gen = w.gen -> ShowLog(w, IF ok THEN done.out.commits ELSE 0)
       [] done.name = "show" /\ done.gen = w.gen -> ShowCommit(w, done.arg, done.dir))

\* Fault: a path staged elsewhere does not stop the commit.
CommitBlocker_OnlyConflicts(out, selection) == PathsIn(out.rows, {"conflict"}) \cap selection # {}

CommitBlocker(out, selection) ==
  \/ PathsIn(out.rows, {"conflict"}) \cap selection # {}
  \/ PathsIn(out.rows, {"staged"}) \ selection # {}

\* Fault: a killed task is forgotten, and nothing starts the next one.
SettleTask_Forgets(w) ==
  IF w.discard THEN [w EXCEPT !.discard = FALSE, !.running = FALSE]
  ELSE IF ~w.cur.out.ok THEN FinishTask([w EXCEPT !.running = FALSE], FALSE)
  ELSE IF w.cur.step < Len(w.cur.steps) THEN [w EXCEPT !.cur.step = @ + 1, !.cur.out = None]
  ELSE FinishTask([w EXCEPT !.running = FALSE], TRUE)

SettleTask(w) ==
  IF w.discard THEN StartNext([w EXCEPT !.discard = FALSE, !.running = FALSE])
  ELSE IF ~w.cur.out.ok THEN FinishTask([w EXCEPT !.running = FALSE], FALSE)
  ELSE IF w.cur.name = "commit" /\ w.cur.step = 1 /\ CommitBlocker(w.cur.out, w.cur.selection)
    THEN FinishTask([w EXCEPT !.running = FALSE], FALSE)
  ELSE IF w.cur.step < Len(w.cur.steps) THEN [w EXCEPT !.cur.step = @ + 1, !.cur.out = None]
  ELSE FinishTask([w EXCEPT !.running = FALSE], TRUE)

Settle ==
  /\ ide.running
  /\ ide.discard \/ ide.cur.out # None
  /\ ide' = SettleTask(ide)
  /\ UNCHANGED <<repo, made, swept, moved, due, gestures, outside, failures>>

---------------------------------------------------------------------------
(* Git itself, as one step of a task.                                      *)

Command == ide.cur.steps[ide.cur.step]

Answer(r) == [ok |-> TRUE, rows |-> RowsOf(r), branch |-> r.branch, branches |-> r.branches,
              commits |-> r.commits]

Reading == /\ Command \in Reads
           /\ ide.cur.dir \in Repositories
           /\ ide' = [ide EXCEPT !.cur.out = Answer(repo[ide.cur.dir])]
           /\ moved' = IF Command = "status" THEN moved \ {ide.cur.dir} ELSE moved
           /\ due' = due \ (moved \ moved')
           /\ UNCHANGED <<repo, made, failures>>

Changing(r) == /\ repo' = [repo EXCEPT ![ide.cur.dir] = r]
               /\ ide' = [ide EXCEPT !.cur.out = Answer(r)]
               /\ UNCHANGED <<moved, due, failures>>

Here == repo[ide.cur.dir]

Adding == /\ Command = "add"
          /\ Changing([Here EXCEPT !.state = [p \in Paths |->
                         IF p \in ide.cur.stage /\ @[p] # "clean" THEN "staged" ELSE @[p]]])
          /\ UNCHANGED made

\* The index is the commit; what is still unmerged, or nothing to commit, refuses it.
Committing ==
  /\ Command = "commit"
  /\ Staged(Here) # {} /\ PathsIn(RowsOf(Here), {"conflict"}) = {}
  /\ Changing([Here EXCEPT !.commits = @ + 1,
                           !.state = [p \in Paths |-> CASE @[p] = "staged" -> "clean"
                                                        [] @[p] = "both" -> "modified"
                                                        [] OTHER -> @[p]]])
  /\ made' = [took |-> Staged(Here), asked |-> ide.cur.selection, listed |-> ide.cur.listed, dir |-> ide.cur.dir,
              swept |-> swept]

Moving == /\ \/ Command = "push" /\ Changing(Here)
             \/ Command = "pull" /\ Changing([Here EXCEPT !.commits = @ + 1])
             \/ Command = "switch" /\ Changing([Here EXCEPT !.branch = ide.cur.arg])
             \/ /\ Command = "branch" /\ ide.cur.arg \notin Here.branches
                /\ Changing([Here EXCEPT !.branch = ide.cur.arg, !.branches = @ \cup {ide.cur.arg}])
          /\ UNCHANGED made

GitRuns ==
  /\ ide.running /\ ~ide.discard /\ ide.cur.out = None
  /\ Reading \/ Adding \/ Committing \/ Moving
  /\ UNCHANGED <<swept, gestures, outside>>

\* A refusal, an error, a hook that says no, a process that does not start, not a repository.
Refused ==
  \/ Command = "discover" /\ ide.cur.dir \notin Repositories
  \/ Command = "commit" /\ (Staged(Here) = {} \/ PathsIn(RowsOf(Here), {"conflict"}) # {})
  \/ Command = "branch" /\ ide.cur.arg \in Here.branches

GitFails ==
  /\ ide.running /\ ~ide.discard /\ ide.cur.out = None
  /\ Refused \/ failures < MaxFailures
  /\ failures' = IF Refused THEN failures ELSE failures + 1
  /\ ide' = [ide EXCEPT !.cur.out = [ok |-> FALSE]]
  /\ \/ UNCHANGED repo
     \* a pull that could not merge
     \/ /\ Command = "pull"
        /\ \E p \in Paths : Here.state[p] = "clean" /\ repo' = [repo EXCEPT ![ide.cur.dir].state[p] = "conflict"]
  /\ UNCHANGED <<made, swept, moved, due, gestures, outside>>

---------------------------------------------------------------------------
(* The user.                                                               *)

Gesture == gestures < MaxGestures /\ gestures' = gestures + 1

Unmoved == UNCHANGED <<repo, made, swept, moved, due, outside, failures>>

SetDirectory(w, f) ==
  LET left == OnRepositoryChanged([w EXCEPT !.requested = f, !.gen = @ + 1, !.inRepo = FALSE], FALSE)
      dropped == Abandon(left, Reads \ {"branches"})
  IN IF f = None THEN StatusFailed(dropped) ELSE Enqueue(dropped, Task("discover", None, dropped))

OpenFolder(f) ==
  /\ Gesture /\ f # ide.requested
  /\ ide' = SetDirectory(ClearDiff([ide EXCEPT !.known = {}]), f)
  /\ Unmoved

\* A save, or the dock coming up.
Refresh ==
  /\ Gesture /\ ide' = RefreshStatus(ide)
  /\ due' = due \cup (moved \cap {ide.requested})
  /\ UNCHANGED <<repo, made, swept, moved, outside, failures>>

Tick(row) ==
  /\ Gesture /\ ~ide.history /\ row \in ide.rows /\ row[1] # "conflict"
  /\ LET ticked == IF row \in ide.ticked THEN ide.ticked \ {row} ELSE ide.ticked \cup {row}
     IN ide' = UpdateCommitEnabled(
                 [ide EXCEPT !.ticked = ticked,
                             !.known = {k \in @ : k[1] # row} \cup {<<row, row \in ticked>>}])
  /\ Unmoved

WriteMessage ==
  /\ Gesture /\ ~ide.history /\ ~ide.message
  /\ ide' = UpdateCommitEnabled([ide EXCEPT !.message = TRUE]) /\ Unmoved

CommitTask(w) ==
  LET stage == PathsIn(w.ticked, {"unstaged", "untracked"})
  IN [Task("commit", None, w) EXCEPT
        !.selection = PathsIn(w.ticked, {"staged", "unstaged", "untracked"}),
        !.stage = stage,
        !.listed = w.listed,
        !.steps = IF stage = {} THEN <<"status", "commit">> ELSE <<"status", "add", "commit">>]

Unticked(w) == PathsIn(w.rows \ w.ticked, {"staged"}) \ CommitTask(w).selection

\* Fault: the panel is told nothing while a commit runs.
Commit_NotBusy(w) ==
  IF ~w.inRepo \/ ~w.message \/ w.ticked = {} \/ Unticked(w) # {}
    THEN OnOperationFinished(w, "commit", FALSE)
    ELSE Enqueue(w, CommitTask(w))

Commit(w) ==
  IF ~w.inRepo \/ ~w.message \/ w.ticked = {} \/ Unticked(w) # {}
    THEN OnOperationFinished(w, "commit", FALSE)
    ELSE SetBusy(Enqueue(w, CommitTask(w)), TRUE)

ClickCommit ==
  /\ Gesture /\ ide.commitOn /\ ~ide.history
  /\ ide' = Commit([ide EXCEPT !.commitOn = FALSE])
  /\ swept' = FALSE
  /\ UNCHANGED <<repo, made, moved, due, outside, failures>>

Operate(name, arg) ==
  /\ Gesture /\ ide.inRepo
  /\ ide' = SetBusy(Enqueue(ide, Task(name, arg, ide)), TRUE)
  /\ Unmoved

ClickPull == ide.netOn /\ Operate("pull", None)
ClickPush == ide.netOn /\ Operate("push", None)

\* The selector shows the new name at once; the name git is on comes back with the status.
PickBranch(b) ==
  /\ ide.branchOn /\ b \in ide.names /\ b # ide.selected /\ b # ide.branch
  /\ Gesture
  /\ LET shown == [ide EXCEPT !.selected = b]
     IN ide' = IF ide.inRepo THEN SetBusy(Enqueue(shown, Task("switch", b, shown)), TRUE) ELSE shown
  /\ Unmoved

NewBranch(b) == ide.branchOn /\ Operate("branch", b)

SelectRow(row) ==
  /\ Gesture /\ ~ide.history /\ row \in ide.rows /\ row # ide.current
  /\ ide' = RequestDiff([ide EXCEPT !.current = row], row)
  /\ Unmoved

PickCommit(hash) ==
  /\ Gesture /\ ide.history /\ hash \in 1 .. ide.log /\ hash # ide.showHash
  /\ ide' = SelectCommit(ide, hash) /\ Unmoved

ShowHistory(on) ==
  /\ Gesture /\ ide.history # on /\ (on => ide.historyOn)
  /\ ide' = SetHistoryMode(ide, on) /\ Unmoved

---------------------------------------------------------------------------
(* Other programs: an editor, git in a terminal.                           *)

Otherwise(f, p, state) ==
  /\ outside < MaxOutside
  /\ repo' = [repo EXCEPT ![f].state[p] = state]
  /\ moved' = moved \cup {f}
  /\ outside' = outside + 1
  /\ UNCHANGED <<ide, made, due, gestures, failures>>

EditedOutside(f, p) ==
  /\ repo[f].state[p] \in {"clean", "staged"}
  /\ Otherwise(f, p, IF repo[f].state[p] = "clean" THEN "modified" ELSE "both")
  /\ UNCHANGED swept

StagedOutside(f, p) ==
  /\ repo[f].state[p] \in {"modified", "untracked"}
  /\ Otherwise(f, p, "staged")
  /\ swept' = (swept \/ (ide.running /\ ide.cur.name = "commit" /\ ~(ide.cur.step = 1 /\ ide.cur.out = None)))

---------------------------------------------------------------------------

Next ==
  \/ Settle \/ GitRuns \/ GitFails
  \/ \E f \in Folders \cup {None} : OpenFolder(f)
  \/ Refresh \/ WriteMessage \/ ClickCommit \/ ClickPull \/ ClickPush
  \/ \E row \in ide.rows : Tick(row) \/ SelectRow(row)
  \/ \E b \in Branches : PickBranch(b) \/ NewBranch(b)
  \/ \E hash \in 1 .. ide.log : PickCommit(hash)
  \/ \E on \in BOOLEAN : ShowHistory(on)
  \/ \E f \in Repositories, p \in Paths : EditedOutside(f, p) \/ StagedOutside(f, p)

Spec == Init /\ [][Next]_vars

---------------------------------------------------------------------------
(* Properties.                                                             *)

Idle == ~ide.running /\ ide.queue = <<>>

Writes == {t \in ToSet(ide.queue) \cup (IF ide.running THEN {ide.cur} ELSE {}) : t.name \notin Reads}

\* A commit takes only the paths the user had ticked, and never another staged path,
\* whatever ran before it; except what another program stages after the index was read.
CommitTakesTheTicked == made # None /\ ~made.swept => made.took \subseteq made.asked

\* GitService.h: "a path the user staged elsewhere can never ride along".
NothingRidesAlong == made # None => made.took \subseteq made.asked

\* GitPanel.h: "The checked rows are the commit": they are rows of the repository it is made in.
CommitIsOfItsListing == made # None => made.listed = made.dir

\* A working-tree row is not ticked before the user ticked it.
RowsStartUnticked ==
  [][\A row \in ide'.rows \ ide.rows : row[1] # "staged" => row \notin ide'.ticked]_vars

\* Once nothing runs, the panel lists the repository it is in as it is, on the branch
\* it is on, whatever operations and folders were asked for meanwhile and in whatever
\* order they ended; only another program's change may be missing.
IdleShowsTheRepository ==
  Idle /\ ide.inRepo /\ ide.panelInRepo /\ ide.requested \notin moved =>
    /\ ide.rows = RowsOf(repo[ide.requested]) /\ ide.listed = ide.requested
    /\ ide.selected = repo[ide.requested].branch

\* Once nothing runs, the text beside the list is the one of what is selected in it.
IdleDiffIsOfTheSelection ==
  Idle /\ ide.inRepo /\ ide.panelInRepo =>
    IF ide.history
      THEN ide.shown = IF ide.showHash = 0 THEN None ELSE <<"show", ide.showHash, ide.requested>>
      ELSE ide.shown = IF ide.current = NoRow THEN None ELSE <<"diff", ide.current, ide.requested>>

\* Two operations that write never wait behind each other: the second could only have been
\* asked for on what the first one is about to change.
OneWriteAtATime == Cardinality(Writes) <= 1 /\ (Writes # {} => ~ide.commitOn /\ ~ide.netOn /\ ~ide.branchOn)

\* Nothing waits on a process that is not running: the queue and the buttons come back
\* with the process that ends, whether it was answered, killed or never started.
NothingIsStuck == ide.busy \/ ide.queue # <<>> => ide.running

\* A status the user asked for after another program's change shows that change.
RefreshShowsTheTree == Idle /\ ide.inRepo /\ ide.panelInRepo => ide.requested \notin due

=============================================================================

------------------------------ MODULE Projects ------------------------------
(***************************************************************************)
(* Project settings: the file beside each source                           *)
(* (src/src/project/ProjectSettings.cpp), the window's one copy of them    *)
(* and every gesture that loads, changes or saves them                     *)
(* (src/src/ui/MainWindowProject.cpp), the settings and stop-hook dialogs  *)
(* and the question put before a project's stop hook runs. Dialogs and     *)
(* question run event loops of their own, in which the remote server opens *)
(* other sources, runs and changes assets.                                 *)
(*                                                                         *)
(* A document is a name in a directory, and so is its project file; a      *)
(* directory holds at most one hook script. Of the settings, one of each   *)
(* kind is kept: a list of arguments, a path that load() rebases, a path   *)
(* that save() makes relative too, a switch, a disk, the sprite exports.   *)
(***************************************************************************)
EXTENDS Naturals, Sequences, FiniteSets

CONSTANTS Dirs,        \* the directories
          DemoDir,     \* where the demo lies: PiST's source tree, or a copy of it
          Contents,    \* what a hook script may say
          Shipped,     \* what those say that PiST brings or writes
          MaxGestures, MaxOutside, MaxFailures, None

ASSUME ProjectsAssumption ==
  /\ DemoDir \in Dirs /\ Shipped \in Contents /\ None \notin Dirs \cup Contents
  /\ {MaxGestures, MaxOutside, MaxFailures} \subseteq Nat

VARIABLES file,    \* the project file of each document; None if there is none
          script,  \* what the hook script of each directory says
          trusted, \* hooks/trustedProjects: <<document, script, content>>
          win,     \* the window: see Closed
          owner,   \* the document whose project file the settings are; None: nobody's
          allowed, \* the scripts somebody said yes to, chose, or PiST brought
          mistaken, \* those a yes was taken for that was said of another
          checkout, \* PiST runs in its source tree, whose demo is used in place
          news,    \* a script, or the project under a dialog, changed since the window last asked
          gestures, outside, failures \* how many there were, for the bounds

vars == <<file, script, trusted, win, owner, allowed, mistaken, checkout, news,
          gestures, outside, failures>>

Docs == {"hello", "renamed", "script"} \X Dirs

Dir(doc) == doc[2]

Script(d) == <<"script", d>>

Beside == "beside the project file"

Version == 2

Newer == 3

DefaultArgs == <<"quiet">>

---------------------------------------------------------------------------
(* The file. debug is None in a file from before the mode split, which has *)
(* one list (legacy) instead.                                              *)

\* Mutant: save() writes the path as it is in memory.
Relative_Verbatim(path, d) == path

Relative(path, d) == IF path = d THEN Beside ELSE path

Rebased(path, d) == IF path = Beside THEN d ELSE path

Readable(f) == f # None /\ f.version <= Version

Load(f, doc) ==
  [source |-> doc, floppy |-> f.floppy, assets |-> f.assets, on |-> f.on,
   args |-> IF f.debug = None THEN DefaultArgs \o f.legacy ELSE f.debug,
   include |-> Rebased(f.include, Dir(doc)), hook |-> Rebased(f.hook, Dir(doc))]

Save(s, doc) ==
  [version |-> Version, floppy |-> s.floppy, assets |-> s.assets, on |-> s.on,
   debug |-> s.args, legacy |-> <<>>,
   include |-> s.include, hook |-> Relative(s.hook, Dir(doc))]

NewProject == [source |-> None, floppy |-> FALSE, assets |-> {}, on |-> FALSE,
               args |-> DefaultArgs, include |-> None, hook |-> None]

\* What a hand, a repository, an older or a newer PiST may have written.
ByHand == [Save(NewProject, <<"hello", DemoDir>>) EXCEPT !.include = Beside]

Older == [ByHand EXCEPT !.debug = None, !.legacy = <<"old">>, !.on = TRUE, !.hook = Beside]

Written == {ByHand, Older, [ByHand EXCEPT !.version = Newer]}

Demo == [Save(NewProject, <<"hello", DemoDir>>) EXCEPT !.on = TRUE, !.hook = Beside]

Closed == [set |-> NewProject,  \* m_settings
           refused |-> FALSE,   \* m_stopHookRefused
           editor |-> None,     \* the document whose editor is focused
           tabs |-> <<>>,       \* the open ones
           dialog |-> None,     \* the settings' or the hooks'
           ask |-> None]        \* the question about the hook: see HookMayRunFor

Init ==
  /\ file \in [Docs -> {None}] \cup
              {[[doc \in Docs |-> None] EXCEPT ![of] = f] :
                 of \in {"hello", "script"} \X Dirs, f \in Written}
  /\ script \in [Dirs -> {None, Shipped}]
  /\ trusted = {} /\ win = Closed /\ owner = None
  /\ allowed = {<<DemoDir, Shipped>>} /\ mistaken = {} /\ news = FALSE
  /\ checkout \in BOOLEAN
  /\ gestures = 0 /\ outside = 0 /\ failures = 0

---------------------------------------------------------------------------
(* May the project's hook run? A frame is all of the state.                *)

Frame == [file |-> file, script |-> script, trusted |-> trusted, w |-> win, owner |-> owner,
          allowed |-> allowed, mistaken |-> mistaken, news |-> news]

Commit(s) ==
  /\ file' = s.file /\ script' = s.script /\ trusted' = s.trusted /\ win' = s.w /\ owner' = s.owner
  /\ allowed' = s.allowed /\ mistaken' = s.mistaken /\ news' = s.news /\ UNCHANGED checkout

\* What runs at a stop: the script and what it says.
Hook(s) == <<s.w.set.hook, s.script[s.w.set.hook]>>

\* Mutant: a record names the script and not its contents.
Record_NoContents(s, doc) == <<doc, s.w.set.hook>>

Record(s, doc) == <<doc, s.w.set.hook, s.script[s.w.set.hook]>>

\* A project in the demo of PiST's own source tree, known by its hello project.
ShippedProject(s, doc) ==
  checkout /\ s.file[<<"hello", DemoDir>>] # None /\ Dir(doc) = DemoDir

HookProjectIsTrusted(s, doc) ==
  \/ ~s.w.set.on \/ s.w.set.hook = None \/ s.file[doc] = None
  \/ ShippedProject(s, doc)
  \/ s.script[s.w.set.hook] # None /\ Record(s, doc) \in s.trusted

TrustHookProject(s, doc) ==
  IF s.file[doc] = None \/ s.w.set.hook = None \/ s.script[s.w.set.hook] = None THEN s
  ELSE [s EXCEPT !.trusted = @ \cup {Record(s, doc)}]

\* A refusal is of this load only.
\* Mutant: it switches the setting off.
Suppressed_SwitchesOff(s) == [s EXCEPT !.w.refused = TRUE, !.news = FALSE, !.w.set.on = FALSE]

Suppressed(s) == [s EXCEPT !.w.refused = TRUE, !.news = FALSE]

\* Trusted: by a record, or by where the project lies, whatever its script says now.
Cleared(s, doc) ==
  [s EXCEPT !.w.refused = FALSE, !.news = FALSE,
            !.allowed = IF s.w.set.on /\ s.w.set.hook # None /\ ShippedProject(s, doc)
                        THEN @ \cup {Hook(s)} ELSE @]

\* Somebody is asked, unless the request is the remote side's ("remote"). The
\* question names the hook as it is now, and the caller waits for the answer:
\* the project is loaded ("load", in the hooks dialog "script") or run ("run").
HookMayRunFor(s, doc, by) ==
  IF HookProjectIsTrusted(s, doc) THEN Cleared(s, doc)
  ELSE IF by = "remote" THEN Suppressed(s)
  ELSE [s EXCEPT !.w.ask = [doc |-> doc, hook |-> s.w.set.hook, then |-> by]]

\* A yes trusts the hook that the settings name when it comes; that of Run
\* clears a refusal that came in between, the others leave it.
Granted(s) ==
  LET ask == s.w.ask
  IN [TrustHookProject(s, ask.doc) EXCEPT
        !.w.ask = None, !.w.refused = ask.then # "run" /\ @, !.news = FALSE,
        !.allowed = @ \cup {<<ask.hook, s.script[ask.hook]>>},
        !.mistaken = IF s.w.set.hook \in {None, ask.hook} THEN @ ELSE @ \cup {Hook(s)}]

---------------------------------------------------------------------------
(* Loading and saving.                                                     *)

\* MainWindow::buildSourcePath
Source(w) ==
  IF w.editor # None THEN w.editor
  ELSE IF w.set.source # None THEN w.set.source
  ELSE IF w.tabs # <<>> THEN Head(w.tabs) ELSE None

Focus(s, doc) ==
  [s EXCEPT !.w.editor = doc,
            !.w.tabs = IF \E i \in DOMAIN @ : @[i] = doc THEN @ ELSE Append(@, doc)]

LoadProjectForSource(s, doc, by) ==
  IF ~Readable(s.file[doc])
  THEN [s EXCEPT !.w.set.source = doc, !.owner = IF doc = @ THEN @ ELSE None]
  ELSE HookMayRunFor([s EXCEPT !.w.set = Load(s.file[doc], doc), !.w.refused = FALSE, !.owner = doc],
                     doc, by)

OpenPath(s, doc, by) == LoadProjectForSource(Focus(s, doc), doc, by)

\* settings::save with the source the settings now name; a write may fail.
SaveTo(s, doc, fails) ==
  LET named == [s EXCEPT !.w.set.source = doc]
  IN IF fails THEN [named EXCEPT !.owner = None]
     ELSE [named EXCEPT !.file[doc] = Save(named.w.set, doc), !.owner = doc]

PersistSettings(s, fails) ==
  IF Source(s.w) = None THEN [s EXCEPT !.owner = None] ELSE SaveTo(s, Source(s.w), fails)

DeclareAsset(s, out, fails) ==
  IF Source(s.w) = None THEN s
  ELSE SaveTo([s EXCEPT !.w.set.assets = @ \cup {out}], Source(s.w), fails)

RemoveAsset(s, out, fails) ==
  IF Source(s.w) = None \/ out \notin s.w.set.assets THEN s
  ELSE SaveTo([s EXCEPT !.w.set.assets = @ \ {out}], Source(s.w), fails)

---------------------------------------------------------------------------
(* The dialogs: a copy of the settings, taken when they opened.            *)

SettingsDialog(s) == [s EXCEPT !.w.dialog = [name |-> "settings", set |-> s.w.set]]

\* MainWindow::editSettings, once accepted: saved only where an editor has the focus.
SettingsAccepted(s, fails) ==
  LET taken == [s EXCEPT !.w.set = s.w.dialog.set, !.w.dialog = None,
                         !.news = @ \/ <<s.w.dialog.set.hook, s.w.dialog.set.on>> # <<s.w.set.hook, s.w.set.on>>]
  IN IF s.w.editor = None THEN [taken EXCEPT !.owner = None] ELSE SaveTo(taken, s.w.editor, fails)

\* MainWindow::editStopHooks offers the script that lies beside the source.
HooksDialog(s) ==
  LET source == Source(s.w)
      besides == IF source # None /\ s.script[Dir(source)] # None THEN Dir(source) ELSE None
      path == IF s.w.set.hook # None THEN s.w.set.hook ELSE besides
  IN [s EXCEPT !.w.dialog = [name |-> "hooks", hook |-> path, on |-> s.w.set.on]]

\* The dialog takes the script that was made for it, and switches the hook on.
Offered(s, d) == [s EXCEPT !.w.dialog.hook = d, !.w.dialog.on = TRUE]

\* createStopHookScript(); opening the script may put the question.
NewScript(s, fails) ==
  LET d == Dir(Source(s.w))
      written == IF s.script[d] # None THEN s
                 ELSE [s EXCEPT !.script[d] = Shipped, !.allowed = @ \cup {<<d, Shipped>>}]
      opened == OpenPath(written, Script(d), "script")
  IN IF Source(s.w) = None \/ (fails /\ s.script[d] = None) THEN s
     ELSE IF opened.w.ask # None THEN opened
     ELSE Offered(opened, d)

Answered(s, yes) ==
  LET answered == IF yes THEN Granted(s) ELSE [Suppressed(s) EXCEPT !.w.ask = None]
  IN IF s.w.ask.then = "script" THEN Offered(answered, Dir(s.w.ask.doc)) ELSE answered

HooksAccepted(s, fails) ==
  LET dialog == s.w.dialog
      taken == [s EXCEPT !.w.set.hook = dialog.hook, !.w.set.on = dialog.on,
                         !.w.refused = FALSE, !.w.dialog = None, !.news = FALSE]
      chosen == IF dialog.on THEN [taken EXCEPT !.allowed = @ \cup {Hook(taken)}] ELSE taken
  IN PersistSettings(chosen, fails)

---------------------------------------------------------------------------
(* The demo, and renames.                                                  *)

\* WelcomeView::demoProjects: out of a source tree what is missing is copied,
\* and what this run copied is trusted.
CopyMissingDemoFiles(s) ==
  LET doc == <<"hello", DemoDir>>
      copied == [s EXCEPT !.file[doc] = IF @ = None THEN Demo ELSE @,
                          !.script[DemoDir] = IF @ = None THEN Shipped ELSE @]
      both == s.file[doc] = None /\ s.script[DemoDir] = None
  IN IF checkout THEN s
     ELSE IF both THEN [copied EXCEPT !.trusted = @ \cup {<<doc, DemoDir, Shipped>>}]
     ELSE copied

\* MainWindow::followRenamedFile: the project file goes along unless its new name is taken.
FollowRenamedFile(s, old, new) ==
  LET moves == s.file[old] # None /\ s.file[new] = None
      Named(doc) == IF doc = old THEN new ELSE doc
  IN [s EXCEPT !.w.set.source = Named(@), !.w.editor = Named(@),
               !.w.tabs = [i \in DOMAIN @ |-> Named(@[i])],
               !.file = IF moves THEN [@ EXCEPT ![new] = s.file[old], ![old] = None] ELSE @,
               !.owner = IF @ # old THEN @ ELSE IF moves THEN new ELSE None]

---------------------------------------------------------------------------
(* What the user, the remote side and other programs do.                   *)

Gesture ==
  /\ gestures < MaxGestures /\ gestures' = gestures + 1
  /\ UNCHANGED <<outside, failures>>

\* Fault: a save that does not reach the disk.
Saving(Op(_)) ==
  /\ gestures < MaxGestures /\ gestures' = gestures + 1 /\ UNCHANGED outside
  /\ \/ Commit(Op(FALSE)) /\ UNCHANGED failures
     \/ failures < MaxFailures /\ failures' = failures + 1 /\ Commit(Op(TRUE))

Free == win.dialog = None /\ win.ask = None

InDialog(name) == win.ask = None /\ win.dialog # None /\ win.dialog.name = name

\* The file browser, Open Recent or a jump; a remote open is quiet, and comes at any time.
UserOpens(doc) == Gesture /\ Free /\ Commit(OpenPath(Frame, doc, "load"))

RemoteOpens(doc) == Gesture /\ Commit(OpenPath(Frame, doc, "remote"))

\* The answer, however long after the question.
UserAnswers ==
  /\ win.ask # None /\ UNCHANGED <<gestures, outside, failures>>
  /\ \E yes \in BOOLEAN : Commit(Answered(Frame, yes))

\* MainWindow::onTabChanged; None is an image's tab.
UserSwitchesTab ==
  /\ Gesture /\ Free
  /\ \E doc \in {None} \cup {win.tabs[i] : i \in DOMAIN win.tabs} :
       doc # win.editor /\ Commit([Frame EXCEPT !.w.editor = doc])

\* MainWindow::openProject on the project of a source that exists
UserOpensProject(doc) ==
  LET opened == Focus(Frame, doc)
      loaded == [opened EXCEPT !.w.set = Load(file[doc], doc), !.w.refused = FALSE, !.owner = doc]
  IN Gesture /\ Free /\ Readable(file[doc]) /\ Commit(HookMayRunFor(loaded, doc, "load"))

\* Save project, or a disk put into a drive.
UserSaves ==
  /\ Free /\ Source(win) # None
  /\ LET Op(fails) == SaveTo(Frame, Source(win), fails) IN Saving(Op)

UserChangesFloppy ==
  /\ Free
  /\ LET Op(fails) == PersistSettings([Frame EXCEPT !.w.set.floppy = ~@], fails) IN Saving(Op)

RemoteAsset(out) ==
  \/ LET Op(fails) == DeclareAsset(Frame, out, fails) IN Saving(Op)
  \/ LET Op(fails) == RemoveAsset(Frame, out, fails) IN Saving(Op)

UserOpensDialog ==
  /\ Gesture /\ Free
  /\ Commit(SettingsDialog(Frame)) \/ Commit(HooksDialog(Frame))

UserEditsSettings ==
  /\ Gesture /\ InDialog("settings")
  /\ Commit([Frame EXCEPT !.w.dialog.set.args = <<"mine">>])

UserEditsHook ==
  /\ Gesture /\ InDialog("hooks")
  /\ \E d \in Dirs, on \in BOOLEAN : Commit([Frame EXCEPT !.w.dialog.hook = d, !.w.dialog.on = on])

UserMakesScript ==
  /\ InDialog("hooks")
  /\ LET Op(fails) == NewScript(Frame, fails) IN Saving(Op)

\* An enabled hook needs a script that can be read (StopHooksDialog::accept).
UserAccepts ==
  \/ InDialog("settings") /\ (LET Op(fails) == SettingsAccepted(Frame, fails) IN Saving(Op))
  \/ /\ InDialog("hooks")
     /\ win.dialog.on => win.dialog.hook # None /\ script[win.dialog.hook] # None
     /\ LET Op(fails) == HooksAccepted(Frame, fails) IN Saving(Op)

UserCancels ==
  Gesture /\ win.ask = None /\ win.dialog # None /\ Commit([Frame EXCEPT !.w.dialog = None])

\* MainWindow::runImpl asks again before the session that would run the hook,
\* if the source has a project file.
RunImpl(by) ==
  /\ Gesture /\ Source(win) # None /\ file[Source(win)] # None
  /\ Commit(HookMayRunFor(Frame, Source(win), by))

UserRuns == Free /\ RunImpl("run")

RemoteRuns == RunImpl("remote")

UserRenames(d) ==
  Gesture /\ Free /\ Commit(FollowRenamedFile(Frame, <<"hello", d>>, <<"renamed", d>>))

UserOpensDemo ==
  /\ Gesture /\ Free /\ (checkout => file[<<"hello", DemoDir>>] # None)
  /\ Commit(OpenPath(CopyMissingDemoFiles(Frame), <<"hello", DemoDir>>, "load"))

\* Another program: a pull, an editor, a deletion.
OutsideChangesScript(d) ==
  /\ outside < MaxOutside /\ outside' = outside + 1 /\ UNCHANGED <<gestures, failures>>
  /\ \E c \in Contents \cup {None} : c # script[d] /\ Commit([Frame EXCEPT !.script[d] = c, !.news = TRUE])

OutsideChangesProject(d) ==
  /\ outside < MaxOutside /\ outside' = outside + 1 /\ UNCHANGED <<gestures, failures>>
  /\ \E f \in Written \cup {None} :
       Commit([Frame EXCEPT !.file[<<"hello", d>>] = f, !.owner = IF @ = <<"hello", d>> THEN None ELSE @])

Next ==
  \/ \E doc \in {"hello"} \X Dirs : UserOpens(doc) \/ RemoteOpens(doc) \/ UserOpensProject(doc)
  \/ \E d \in Dirs : UserRenames(d) \/ OutsideChangesScript(d) \/ OutsideChangesProject(d)
  \/ UserSwitchesTab \/ UserSaves \/ UserChangesFloppy \/ RemoteAsset("out")
  \/ UserOpensDialog \/ UserEditsSettings \/ UserEditsHook \/ UserMakesScript
  \/ UserAccepts \/ UserCancels \/ UserAnswers \/ UserRuns \/ RemoteRuns \/ UserOpensDemo

Spec == Init /\ [][Next]_vars

---------------------------------------------------------------------------
(* Properties.                                                             *)

\* The settings in the window are those of the file they were loaded from or
\* saved to, whatever was opened, changed, refused, accepted and renamed
\* since: "so a settings change is not lost if the session is closed"
\* (editSettings()), and "a later unrelated save cannot rewrite the project".
WindowIsItsFile ==
  owner # None => Readable(file[owner]) /\ win.set = [Load(file[owner], owner) EXCEPT !.source = win.set.source]

\* The question about the hook in the window is open, and its project loaded.
AskedAbout(s) == s.w.ask # None /\ s.w.ask.then # "run" /\ s.w.ask.hook = s.w.set.hook

\* A hook is on only for a script somebody allowed with these contents: asked
\* about when its project was opened and again at Run, chosen in the dialog,
\* brought by this PiST or kept in its own source tree. Not so while the first
\* question is open, nor for a hook that a remote open put in the place of the
\* one the question named.
HookRunsAsAllowedUnlessReplaced ==
  win.set.on /\ ~win.refused /\ ~news /\ win.set.hook # None /\ script[win.set.hook] # None
     /\ ~AskedAbout(Frame)
    => Hook(Frame) \in allowed \cup mistaken

\* "A project that travels carries a script reference that still resolves":
\* saved here and loaded from a copy of the directory, the settings are the
\* same but for the hook, which is the copy's if it was the project's own.
ProjectTravels ==
  \A here \in {"hello"} \X Dirs, there \in {"hello"} \X Dirs :
    LET back == Load(Save(win.set, here), there)
    IN back = [win.set EXCEPT !.source = there,
                              !.hook = IF @ = Dir(here) THEN Dir(there) ELSE @]

\* The settings in the window are the project's: here, and where it travels.
SettingsAreTheProjects == WindowIsItsFile /\ ProjectTravels

\* "Bumping it is what lets a later PiST change the schema without an older
\* build dropping the fields it does not understand and then saving over
\* them": only another program replaces a newer PiST's file.
NewerIsNotSavedOver ==
  [][\A doc \in Docs : file[doc] # None /\ file[doc].version = Newer /\ outside' = outside
       => \E to \in Docs : file'[to] = file[doc]]_vars
=============================================================================

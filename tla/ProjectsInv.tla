----------------------------- MODULE ProjectsInv -----------------------------
(***************************************************************************)
(* The types of Projects and its inductive invariant, which holds of the   *)
(* state between gestures and of every frame a gesture passes through.     *)
(***************************************************************************)
EXTENDS Projects

Args == {DefaultArgs, <<"mine">>, DefaultArgs \o <<>>, DefaultArgs \o <<"old">>}

Settings ==
  [source : Docs \cup {None}, floppy : BOOLEAN, assets : SUBSET {"out"}, on : BOOLEAN,
   args : Args, include : Dirs \cup {None}, hook : Dirs \cup {None}]

Files ==
  [version : {Version, Newer}, floppy : BOOLEAN, assets : SUBSET {"out"}, on : BOOLEAN,
   debug : Args \cup {None}, legacy : {<<>>, <<"old">>},
   include : Dirs \cup {None, Beside}, hook : Dirs \cup {None, Beside}]

Dialogs ==
  [name : {"settings"}, set : Settings] \cup
  [name : {"hooks"}, hook : Dirs \cup {None}, on : BOOLEAN]

Questions == [doc : Docs, hook : Dirs, then : {"load", "run", "script"}]

Windows ==
  [set : Settings, refused : BOOLEAN, editor : Docs \cup {None}, tabs : Seq(Docs),
   dialog : Dialogs \cup {None}, ask : Questions \cup {None}]

(* None is nothing else, and a path relative to a project is no directory.  *)
ASSUME NamesAssumption ==
  /\ Beside \notin Dirs \cup {None}
  /\ None \notin Docs /\ None \notin Args /\ None \notin Files /\ None \notin Dialogs
  /\ None \notin Questions

FrameType ==
  [file : [Docs -> Files \cup {None}], script : [Dirs -> Contents \cup {None}],
   trusted : SUBSET (Docs \X Dirs \X Contents), w : Windows, owner : Docs \cup {None},
   allowed : SUBSET (Dirs \X (Contents \cup {None})),
   mistaken : SUBSET (Dirs \X (Contents \cup {None})), news : BOOLEAN]

(* The types of the variables. *)
TypeOK ==
  /\ Frame \in FrameType
  /\ checkout \in BOOLEAN /\ gestures \in Nat /\ outside \in Nat /\ failures \in Nat

(* Settings that differ at most in the source they name.                   *)
Alike(a, b) ==
  /\ a.floppy = b.floppy /\ a.assets = b.assets /\ a.on = b.on
  /\ a.args = b.args /\ a.include = b.include /\ a.hook = b.hook

(* The file of the project that is open says what the window says.          *)
OwnedIsShown(s) ==
  s.owner # None =>
    Readable(s.file[s.owner]) /\ Alike(s.w.set, Load(s.file[s.owner], s.owner))

(* A script is trusted only as somebody allowed it, or another in its place. *)
TrustedIsAllowed(s) == \A r \in s.trusted : <<r[2], r[3]>> \in s.allowed \cup s.mistaken

(* The hook in the window was allowed, or another in its place, unless      *)
(* something changed since or the question is still open.                   *)
HookIsAllowed(s) ==
  s.w.set.on /\ ~s.w.refused /\ ~s.news /\ s.w.set.hook # None /\ s.script[s.w.set.hook] # None
     /\ ~AskedAbout(s)
    => Hook(s) \in s.allowed \cup s.mistaken

(* A question that the hooks dialog put finds it open when it is answered.  *)
AskedInDialog(s) ==
  s.w.ask # None /\ s.w.ask.then = "script" => s.w.dialog # None /\ s.w.dialog.name = "hooks"

(* What PiST brings is allowed.                                             *)
DemoIsAllowed(s) == <<DemoDir, Shipped>> \in s.allowed

HooksOK(s) ==
  /\ s \in FrameType /\ TrustedIsAllowed(s) /\ HookIsAllowed(s) /\ DemoIsAllowed(s)
  /\ AskedInDialog(s)

FrameOK(s) == HooksOK(s) /\ OwnedIsShown(s)

IInv == TypeOK /\ FrameOK(Frame)
=============================================================================

--------------------------- MODULE ProjectsProofs ---------------------------
(***************************************************************************)
(* Proofs about Projects, for any directories, scripts and bounds.         *)
(***************************************************************************)
EXTENDS ProjectsInv, TLAPS

Paths == Dirs \cup {None}
Saved == Dirs \cup {None, Beside}

LEMMA SettingsIs ==
  ASSUME NEW s \in Settings
  PROVE  /\ s.source \in Docs \cup {None} /\ s.floppy \in BOOLEAN /\ s.assets \in SUBSET {"out"}
         /\ s.on \in BOOLEAN /\ s.args \in Args /\ s.include \in Paths /\ s.hook \in Paths
         /\ s = [source |-> s.source, floppy |-> s.floppy, assets |-> s.assets, on |-> s.on,
                 args |-> s.args, include |-> s.include, hook |-> s.hook]
  BY DEF Settings, Paths

LEMMA FileIs ==
  ASSUME NEW f \in Files
  PROVE  /\ f.version \in {Version, Newer} /\ f.floppy \in BOOLEAN /\ f.assets \in SUBSET {"out"}
         /\ f.on \in BOOLEAN /\ f.debug \in Args \cup {None} /\ f.legacy \in {<<>>, <<"old">>}
         /\ f.include \in Saved /\ f.hook \in Saved
  BY DEF Files, Saved

LEMMA DocsAre ==
  ASSUME NEW doc \in Docs
  PROVE  Dir(doc) \in Dirs /\ doc # None
  BY NamesAssumption DEF Docs, Dir

LEMMA RebasedIs ==
  ASSUME NEW path \in Saved, NEW d \in Dirs
  PROVE  Rebased(path, d) \in Paths
  BY DEF Rebased, Saved, Paths

LEMMA RelativeIs ==
  ASSUME NEW path \in Paths, NEW d \in Dirs, NEW e \in Dirs
  PROVE  /\ Relative(path, d) \in Saved
         /\ Rebased(Relative(path, d), e) = IF path = d THEN e ELSE path
         /\ path \in Saved /\ Rebased(path, e) = path
  BY NamesAssumption DEF Rebased, Relative, Saved, Paths

(* What a file says is a project's settings.                                *)
LEMMA LoadIs ==
  ASSUME NEW f \in Files, NEW doc \in Docs
  PROVE  Load(f, doc) \in Settings /\ Load(f, doc).source = doc
<1>1. DEFINE args == IF f.debug = None THEN DefaultArgs \o f.legacy ELSE f.debug
<1>2. args \in Args
  BY FileIs DEF Args
<1>3. Rebased(f.include, Dir(doc)) \in Paths /\ Rebased(f.hook, Dir(doc)) \in Paths
  BY FileIs, DocsAre, RebasedIs
<1>4. f.floppy \in BOOLEAN /\ f.assets \in SUBSET {"out"} /\ f.on \in BOOLEAN
  BY FileIs
<1> HIDE DEF args
<1>5. Load(f, doc) = [source |-> doc, floppy |-> f.floppy, assets |-> f.assets, on |-> f.on,
                      args |-> args, include |-> Rebased(f.include, Dir(doc)),
                      hook |-> Rebased(f.hook, Dir(doc))]
  BY DEF Load, args
<1> QED BY <1>2, <1>3, <1>4, <1>5 DEF Settings, Paths

(* What is saved can be read.                                               *)
LEMMA SaveIs ==
  ASSUME NEW s \in Settings, NEW doc \in Docs
  PROVE  Save(s, doc) \in Files /\ Readable(Save(s, doc))
<1>1. /\ s.floppy \in BOOLEAN /\ s.assets \in SUBSET {"out"} /\ s.on \in BOOLEAN /\ s.args \in Args
      /\ s.include \in Saved /\ Relative(s.hook, Dir(doc)) \in Saved
  BY SettingsIs, DocsAre, RelativeIs
<1>2. Save(s, doc) \in Files
  BY <1>1 DEF Save, Files, Saved
<1>3. Save(s, doc) # None
  BY <1>2, NamesAssumption
<1>4. Save(s, doc).version <= Version
  BY DEF Save, Version
<1> QED BY <1>2, <1>3, <1>4 DEF Readable

(* What is saved here and loaded there is the same, but for the project's   *)
(* own hook.                                                                *)
LEMMA Travels ==
  ASSUME NEW s \in Settings, NEW here \in Docs, NEW there \in Docs
  PROVE  LET back == Load(Save(s, here), there)
         IN /\ back.source = there
            /\ back.floppy = s.floppy /\ back.assets = s.assets /\ back.on = s.on
            /\ back.args = s.args /\ back.include = s.include
            /\ back.hook = IF s.hook = Dir(here) THEN Dir(there) ELSE s.hook
<1>1. s.args # None
  BY SettingsIs, NamesAssumption
<1>2. /\ Rebased(s.include, Dir(there)) = s.include
      /\ Rebased(Relative(s.hook, Dir(here)), Dir(there)) = IF s.hook = Dir(here) THEN Dir(there) ELSE s.hook
  BY SettingsIs, DocsAre, RelativeIs
<1> QED BY <1>1, <1>2 DEF Load, Save

LEMMA SavedIsAlike ==
  ASSUME NEW s \in Settings, NEW doc \in Docs
  PROVE  Alike(s, Load(Save(s, doc), doc))
<1>1. \A h : (IF h = Dir(doc) THEN Dir(doc) ELSE h) = h
  OBVIOUS
<1> QED BY <1>1, Travels DEF Alike

LEMMA ProjectsTravel ==
  ASSUME TypeOK
  PROVE  ProjectTravels
<1> SUFFICES ASSUME NEW here \in {"hello"} \X Dirs, NEW there \in {"hello"} \X Dirs
             PROVE  Load(Save(win.set, here), there)
                      = [win.set EXCEPT !.source = there,
                                        !.hook = IF @ = Dir(here) THEN Dir(there) ELSE @]
  BY DEF ProjectTravels
<1>0. here \in Docs /\ there \in Docs
  BY DEF Docs
<1> DEFINE s == win.set
           back == Load(Save(win.set, here), there)
           hook == IF win.set.hook = Dir(here) THEN Dir(there) ELSE win.set.hook
<1>1. s \in Settings
  BY DEF TypeOK, FrameType, Frame, Windows
<1>2. back \in Settings
  BY <1>0, <1>1, SaveIs, LoadIs
<1>3. /\ back.source = there /\ back.floppy = s.floppy /\ back.assets = s.assets /\ back.on = s.on
      /\ back.args = s.args /\ back.include = s.include /\ back.hook = hook
  BY <1>0, <1>1, Travels
<1>4. [win.set EXCEPT !.source = there, !.hook = IF @ = Dir(here) THEN Dir(there) ELSE @]
        = [s EXCEPT !.source = there, !.hook = hook]
  OBVIOUS
<1> HIDE DEF hook, back, s
<1>5. ASSUME NEW g, g = [s EXCEPT !.source = there, !.hook = hook]
      PROVE  g = back
  <2>1. /\ g.source = there /\ g.floppy = s.floppy /\ g.assets = s.assets /\ g.on = s.on
        /\ g.args = s.args /\ g.include = s.include /\ g.hook = hook
    BY <1>1, <1>5 DEF Settings
  <2>2. hook \in Dirs \cup {None}
    BY <1>2, <1>3 DEF Settings
  <2>3. g \in Settings
    BY <1>0, <1>1, <1>5, <2>2 DEF Settings
  <2> QED BY <1>2, <1>3, <2>1, <2>3, SettingsIs
<1> QED BY <1>4, <1>5 DEF back

-----------------------------------------------------------------------------
(* Frames.                                                                  *)

LEMMA WindowIs ==
  ASSUME NEW w \in Windows
  PROVE  /\ w.set \in Settings /\ w.refused \in BOOLEAN /\ w.editor \in Docs \cup {None}
         /\ w.tabs \in Seq(Docs) /\ w.dialog \in Dialogs \cup {None} /\ w.ask \in Questions \cup {None}
         /\ w = [set |-> w.set, refused |-> w.refused, editor |-> w.editor, tabs |-> w.tabs,
                 dialog |-> w.dialog, ask |-> w.ask]
  BY DEF Windows

LEMMA FrameIs ==
  ASSUME NEW s \in FrameType
  PROVE  /\ s.file \in [Docs -> Files \cup {None}] /\ s.script \in [Dirs -> Contents \cup {None}]
         /\ s.trusted \in SUBSET (Docs \X Dirs \X Contents) /\ s.w \in Windows
         /\ s.owner \in Docs \cup {None}
         /\ s.allowed \in SUBSET (Dirs \X (Contents \cup {None})) /\ s.news \in BOOLEAN
         /\ s.mistaken \in SUBSET (Dirs \X (Contents \cup {None}))
         /\ s = [file |-> s.file, script |-> s.script, trusted |-> s.trusted, w |-> s.w, owner |-> s.owner,
                 allowed |-> s.allowed, mistaken |-> s.mistaken, news |-> s.news]
  BY DEF FrameType

(* All of FrameOK but that the hook in the window is allowed.               *)
AwaitsHook(s) ==
  s \in FrameType /\ TrustedIsAllowed(s) /\ DemoIsAllowed(s) /\ AskedInDialog(s) /\ OwnedIsShown(s)

LEMMA AwaitsIs ==
  ASSUME NEW s
  PROVE  FrameOK(s) <=> AwaitsHook(s) /\ HookIsAllowed(s)
BY DEF AwaitsHook, FrameOK, HooksOK

(* A hook that is refused does not run.                                     *)
LEMMA SuppressedOK ==
  ASSUME NEW s, AwaitsHook(s)
  PROVE  /\ FrameOK(Suppressed(s)) /\ Suppressed(s).w.dialog = s.w.dialog
         /\ Suppressed(s).w.refused /\ Suppressed(s).w.ask = s.w.ask
<1> SUFFICES ASSUME NEW t, t = [s EXCEPT !.w.refused = TRUE, !.news = FALSE]
             PROVE  FrameOK(t) /\ t.w.dialog = s.w.dialog /\ t.w.refused /\ t.w.ask = s.w.ask
  BY DEF Suppressed
<1>1. s \in FrameType /\ s.w \in Windows
  BY FrameIs DEF AwaitsHook
<1>2. /\ t \in FrameType /\ t.file = s.file /\ t.script = s.script /\ t.trusted = s.trusted
      /\ t.owner = s.owner /\ t.allowed = s.allowed /\ t.mistaken = s.mistaken /\ t.w.set = s.w.set
      /\ t.w.refused /\ t.w.ask = s.w.ask /\ t.w.dialog = s.w.dialog
  BY <1>1 DEF FrameType, Windows
<1> QED BY <1>2 DEF AwaitsHook, FrameOK, HooksOK, TrustedIsAllowed, HookIsAllowed, DemoIsAllowed,
           AskedInDialog, OwnedIsShown

(* A hook is trusted for the record there is of it, or because the project  *)
(* is PiST's own.                                                           *)
LEMMA ClearedOK ==
  ASSUME NEW s, AwaitsHook(s), NEW doc \in Docs, s.file[doc] # None, HookProjectIsTrusted(s, doc)
  PROVE  FrameOK(Cleared(s, doc)) /\ Cleared(s, doc).w.dialog = s.w.dialog
<1> DEFINE h == s.w.set.hook
           own == s.w.set.on /\ h # None /\ ShippedProject(s, doc)
           allow == IF own THEN s.allowed \cup {Hook(s)} ELSE s.allowed
<1>1. s \in FrameType /\ s.w \in Windows /\ h \in Dirs \cup {None}
  BY FrameIs, WindowIs, SettingsIs DEF AwaitsHook, Paths
<1>2. allow \in SUBSET (Dirs \X (Contents \cup {None})) /\ s.allowed \subseteq allow
  <2>1. h # None => Hook(s) \in Dirs \X (Contents \cup {None})
    BY <1>1, FrameIs DEF Hook
  <2> QED BY <1>1, <2>1, FrameIs
<1>3. s.w.set.on /\ h # None /\ s.script[h] # None => Hook(s) \in allow \cup s.mistaken
  <2>1. CASE ShippedProject(s, doc)
    BY <2>1
  <2>2. CASE ~ShippedProject(s, doc)
    <3> SUFFICES ASSUME s.w.set.on, h # None
                 PROVE  <<h, s.script[h]>> \in s.allowed \cup s.mistaken
      BY <1>2 DEF Hook
    <3>1. <<doc, h, s.script[h]>> \in s.trusted
      BY <2>2 DEF HookProjectIsTrusted, Record
    <3> QED BY <3>1 DEF AwaitsHook, TrustedIsAllowed
  <2> QED BY <2>1, <2>2
<1>4. Cleared(s, doc) = [s EXCEPT !.w.refused = FALSE, !.news = FALSE, !.allowed = allow]
  BY DEF Cleared
<1> HIDE DEF allow
<1> SUFFICES ASSUME NEW t, t = [s EXCEPT !.w.refused = FALSE, !.news = FALSE, !.allowed = allow]
             PROVE  FrameOK(t) /\ t.w.dialog = s.w.dialog
  BY <1>4
<1>5. /\ t \in FrameType /\ t.file = s.file /\ t.script = s.script /\ t.trusted = s.trusted
      /\ t.owner = s.owner /\ t.allowed = allow /\ t.mistaken = s.mistaken /\ t.w.set = s.w.set
      /\ t.w.ask = s.w.ask /\ t.w.dialog = s.w.dialog
  BY <1>1, <1>2 DEF FrameType, Windows
<1>6. TrustedIsAllowed(t) /\ DemoIsAllowed(t)
  BY <1>2, <1>5 DEF AwaitsHook, TrustedIsAllowed, DemoIsAllowed
<1>7. HookIsAllowed(t)
  BY <1>3, <1>5 DEF HookIsAllowed, Hook
<1> QED BY <1>5, <1>6, <1>7 DEF AwaitsHook, FrameOK, HooksOK, AskedInDialog, OwnedIsShown

Callers == {"remote", "load", "script", "run"}

(* Whether the hook may run is known at once, or asked of somebody: of a    *)
(* project that is being loaded its hook waits for the answer.              *)
LEMMA MayRunOK ==
  ASSUME NEW s, AwaitsHook(s), NEW doc \in Docs, s.file[doc] # None, NEW by \in Callers,
         by = "run" => HookIsAllowed(s) /\ s.w.ask = None,
         by = "script" => s.w.dialog # None /\ s.w.dialog.name = "hooks"
  PROVE  FrameOK(HookMayRunFor(s, doc, by)) /\ HookMayRunFor(s, doc, by).w.dialog = s.w.dialog
<1>1. CASE HookProjectIsTrusted(s, doc)
  BY <1>1, ClearedOK DEF HookMayRunFor
<1>2. CASE ~HookProjectIsTrusted(s, doc) /\ by = "remote"
  BY <1>2, SuppressedOK DEF HookMayRunFor
<1>3. CASE ~HookProjectIsTrusted(s, doc) /\ by # "remote"
  <2> DEFINE q == [doc |-> doc, hook |-> s.w.set.hook, then |-> by]
  <2>1. s \in FrameType /\ s.w \in Windows /\ s.w.set.hook \in Dirs \cup {None} /\ s.w.set.hook # None
    BY <1>3, FrameIs, WindowIs, SettingsIs DEF AwaitsHook, Paths, HookProjectIsTrusted
  <2>2. q \in Questions /\ q # None /\ q.then = by /\ q.hook = s.w.set.hook
    BY <1>3, <2>1, NamesAssumption DEF Questions, Callers
  <2> HIDE DEF q
  <2> SUFFICES ASSUME NEW t, t = [s EXCEPT !.w.ask = q]
               PROVE  FrameOK(t) /\ t.w.dialog = s.w.dialog
    BY <1>3 DEF HookMayRunFor, q
  <2>3. /\ t \in FrameType /\ t.file = s.file /\ t.script = s.script /\ t.trusted = s.trusted
        /\ t.owner = s.owner /\ t.allowed = s.allowed /\ t.mistaken = s.mistaken /\ t.news = s.news
        /\ t.w.set = s.w.set /\ t.w.refused = s.w.refused /\ t.w.ask = q /\ t.w.dialog = s.w.dialog
    BY <2>1, <2>2 DEF FrameType, Windows
  <2>4. HookIsAllowed(t)
    BY <2>2, <2>3 DEF HookIsAllowed, AskedAbout, Hook
  <2> QED BY <2>2, <2>3, <2>4 DEF AwaitsHook, FrameOK, HooksOK, TrustedIsAllowed, DemoIsAllowed,
             AskedInDialog, OwnedIsShown
<1> QED BY <1>1, <1>2, <1>3

(* A yes allows the script that was asked about, and the one that is in the *)
(* window by now if that is another.                                        *)
LEMMA GrantedOK ==
  ASSUME NEW s, FrameOK(s), s.w.ask # None
  PROVE  FrameOK(Granted(s)) /\ Granted(s).w.ask = None /\ Granted(s).w.dialog = s.w.dialog
<1> DEFINE h == s.w.set.hook
           ask == s.w.ask
           asked == <<ask.hook, s.script[ask.hook]>>
           u == TrustHookProject(s, ask.doc)
           allow == s.allowed \cup {asked}
           wrong == IF h \in {None, ask.hook} THEN s.mistaken ELSE s.mistaken \cup {Hook(s)}
           still == ask.then # "run" /\ s.w.refused
<1>1. s \in FrameType /\ s.w \in Windows /\ h \in Dirs \cup {None} /\ s.w.refused \in BOOLEAN
  BY FrameIs, WindowIs, SettingsIs DEF FrameOK, HooksOK, Paths
<1>2. ask.doc \in Docs /\ ask.hook \in Dirs
  <2>1. ask \in Questions
    BY <1>1, WindowIs
  <2> QED BY <2>1 DEF Questions
<1>3. allow \in SUBSET (Dirs \X (Contents \cup {None}))
  <2>1. asked \in Dirs \X (Contents \cup {None})
    BY <1>1, <1>2, FrameIs
  <2> QED BY <1>1, <2>1, FrameIs
<1>4. wrong \in SUBSET (Dirs \X (Contents \cup {None}))
  <2>1. h # None => Hook(s) \in Dirs \X (Contents \cup {None})
    BY <1>1, FrameIs DEF Hook
  <2> QED BY <1>1, <2>1, FrameIs
<1>5. h # None => <<h, s.script[h]>> \in allow \cup wrong
  BY DEF Hook
<1>6. s.allowed \subseteq allow /\ s.mistaken \subseteq wrong /\ still \in BOOLEAN
  OBVIOUS
<1>7. /\ u \in FrameType /\ u.w = s.w /\ u.file = s.file /\ u.script = s.script
      /\ u.owner = s.owner /\ u.allowed = s.allowed /\ u.mistaken = s.mistaken
      /\ \A r \in u.trusted : r \in s.trusted \/ (h # None /\ r = <<ask.doc, h, s.script[h]>>)
  <2>1. CASE s.file[ask.doc] = None \/ h = None \/ s.script[h] = None
    BY <1>1, <2>1 DEF TrustHookProject
  <2>2. CASE ~(s.file[ask.doc] = None \/ h = None \/ s.script[h] = None)
    <3>1. u = [s EXCEPT !.trusted = @ \cup {<<ask.doc, h, s.script[h]>>}]
      BY <2>2 DEF TrustHookProject, Record
    <3>2. s.trusted \cup {<<ask.doc, h, s.script[h]>>} \in SUBSET (Docs \X Dirs \X Contents)
      BY <1>1, <1>2, <2>2, FrameIs
    <3> HIDE DEF u
    <3> QED BY <1>1, <2>2, <3>1, <3>2 DEF FrameType
  <2> QED BY <2>1, <2>2
<1>8. Granted(s) = [u EXCEPT !.w.ask = None, !.w.refused = still, !.news = FALSE,
                             !.allowed = allow, !.mistaken = wrong]
  BY <1>7 DEF Granted
<1> HIDE DEF u, allow, wrong, still, asked
<1> SUFFICES ASSUME NEW t, t = [u EXCEPT !.w.ask = None, !.w.refused = still, !.news = FALSE,
                                         !.allowed = allow, !.mistaken = wrong]
             PROVE  FrameOK(t) /\ t.w.ask = None /\ t.w.dialog = s.w.dialog
  BY <1>8
<1>9. /\ t \in FrameType /\ t.file = s.file /\ t.script = s.script /\ t.trusted = u.trusted
      /\ t.owner = s.owner /\ t.allowed = allow /\ t.mistaken = wrong /\ t.w.set = s.w.set
      /\ t.w.ask = None /\ t.w.dialog = s.w.dialog
  <2> DEFINE w == [s.w EXCEPT !.ask = None, !.refused = still]
  <2>1. w \in Windows /\ w.set = s.w.set /\ w.ask = None /\ w.dialog = s.w.dialog
    BY <1>1, <1>6 DEF Windows
  <2>2. t = [u EXCEPT !.w = w, !.news = FALSE, !.allowed = allow, !.mistaken = wrong]
    BY <1>7
  <2> HIDE DEF w
  <2> QED BY <1>3, <1>4, <1>7, <2>1, <2>2 DEF FrameType
<1>10. TrustedIsAllowed(t)
  <2> SUFFICES ASSUME NEW r \in u.trusted
               PROVE  <<r[2], r[3]>> \in allow \cup wrong
    BY <1>9 DEF TrustedIsAllowed
  <2>1. CASE r \in s.trusted
    BY <1>6, <2>1 DEF FrameOK, HooksOK, TrustedIsAllowed
  <2>2. CASE h # None /\ r = <<ask.doc, h, s.script[h]>>
    BY <1>5, <2>2
  <2> QED BY <1>7, <2>1, <2>2
<1>11. HookIsAllowed(t) /\ DemoIsAllowed(t) /\ AskedInDialog(t) /\ OwnedIsShown(t)
  BY <1>5, <1>6, <1>9 DEF FrameOK, HooksOK, HookIsAllowed, DemoIsAllowed, AskedInDialog,
                          OwnedIsShown, Hook
<1> QED BY <1>9, <1>10, <1>11 DEF FrameOK, HooksOK

(* A frame in which nothing but the window was touched, and of the window   *)
(* neither the hook nor what its file says.                                 *)
LEMMA LookedOK ==
  ASSUME NEW s, FrameOK(s), NEW t \in FrameType,
         t.file = s.file, t.script = s.script, t.trusted = s.trusted, t.owner = s.owner,
         t.allowed = s.allowed, t.mistaken = s.mistaken, t.news = s.news, Alike(t.w.set, s.w.set),
         t.w.refused = s.w.refused, t.w.ask = s.w.ask, t.w.dialog = s.w.dialog
      /\ t.w.ask = s.w.ask /\ t.w.dialog = s.w.dialog
  PROVE  FrameOK(t)
BY DEF FrameOK, HooksOK, TrustedIsAllowed, HookIsAllowed, DemoIsAllowed, AskedInDialog, AskedAbout,
       OwnedIsShown, Hook, Alike

LEMMA FocusOK ==
  ASSUME NEW s, FrameOK(s), NEW doc \in Docs
  PROVE  FrameOK(Focus(s, doc)) /\ Focus(s, doc).file = s.file /\ Focus(s, doc).w.dialog = s.w.dialog
<1>1. s \in FrameType /\ s.w \in Windows
  BY FrameIs DEF FrameOK, HooksOK
<1> DEFINE tabs == IF \E i \in DOMAIN s.w.tabs : s.w.tabs[i] = doc THEN s.w.tabs ELSE Append(s.w.tabs, doc)
<1>2. tabs \in Seq(Docs)
  BY <1>1, WindowIs
<1>3. Focus(s, doc) = [s EXCEPT !.w.editor = doc, !.w.tabs = tabs]
  BY DEF Focus
<1> HIDE DEF tabs
<1> SUFFICES ASSUME NEW t, t = [s EXCEPT !.w.editor = doc, !.w.tabs = tabs]
             PROVE  FrameOK(t) /\ t.file = s.file /\ t.w.dialog = s.w.dialog
  BY <1>3
<1>4. t \in FrameType
  <2> DEFINE w == [s.w EXCEPT !.editor = doc, !.tabs = tabs]
  <2>1. w \in Windows
    BY <1>1, <1>2 DEF Windows
  <2>2. t = [s EXCEPT !.w = w]
    OBVIOUS
  <2> HIDE DEF w
  <2> QED BY <1>1, <2>1, <2>2 DEF FrameType
<1>5. /\ t.file = s.file /\ t.script = s.script /\ t.trusted = s.trusted /\ t.owner = s.owner
      /\ t.allowed = s.allowed /\ t.mistaken = s.mistaken /\ t.news = s.news
      /\ t.w.set = s.w.set /\ t.w.refused = s.w.refused
      /\ t.w.ask = s.w.ask /\ t.w.dialog = s.w.dialog
  BY <1>1 DEF FrameType, Windows
<1> QED BY <1>4, <1>5, LookedOK DEF Alike

(* A project that was read is the window's, but for its hook.               *)
Opening(s, set, doc) == [s EXCEPT !.w.set = set, !.w.refused = FALSE, !.owner = doc]

LEMMA OpeningOK ==
  ASSUME NEW s, FrameOK(s), NEW doc \in Docs, NEW set \in Settings,
         Readable(s.file[doc]), Alike(set, Load(s.file[doc], doc))
  PROVE  /\ AwaitsHook(Opening(s, set, doc)) /\ Opening(s, set, doc).file = s.file
         /\ Opening(s, set, doc).w.dialog = s.w.dialog
<1> SUFFICES ASSUME NEW t, t = [s EXCEPT !.w.set = set, !.w.refused = FALSE, !.owner = doc]
             PROVE  AwaitsHook(t) /\ t.file = s.file /\ t.w.dialog = s.w.dialog
  BY DEF Opening
<1>1. s \in FrameType /\ s.w \in Windows
  BY FrameIs DEF FrameOK, HooksOK
<1>2. /\ t \in FrameType /\ t.file = s.file /\ t.trusted = s.trusted /\ t.owner = doc
      /\ t.allowed = s.allowed /\ t.mistaken = s.mistaken /\ t.w.set = set
      /\ t.w.ask = s.w.ask /\ t.w.dialog = s.w.dialog
  BY <1>1 DEF FrameType, Windows
<1> QED BY <1>2 DEF AwaitsHook, FrameOK, HooksOK, TrustedIsAllowed, DemoIsAllowed, AskedInDialog,
                    OwnedIsShown

(* A file of no project, or one that cannot be read, is taken as the source *)
(* and nothing else; another replaces the settings, and its hook waits. A   *)
(* dialog that is open stays as it is.                                      *)
LEMMA LoadedOK ==
  ASSUME NEW s, FrameOK(s), NEW doc \in Docs, NEW by \in Callers \ {"run"},
         by = "script" => s.w.dialog # None /\ s.w.dialog.name = "hooks"
  PROVE  /\ FrameOK(LoadProjectForSource(s, doc, by))
         /\ LoadProjectForSource(s, doc, by).w.dialog = s.w.dialog
<1>1. s \in FrameType /\ s.w \in Windows /\ s.w.set \in Settings /\ s.file[doc] \in Files \cup {None}
  BY FrameIs, WindowIs DEF FrameOK, HooksOK
<1>2. CASE ~Readable(s.file[doc])
  <2> DEFINE named == IF doc = s.owner THEN s.owner ELSE None
  <2>1. named \in Docs \cup {None} /\ (named # None => named = s.owner)
    OBVIOUS
  <2>2. LoadProjectForSource(s, doc, by) = [s EXCEPT !.w.set.source = doc, !.owner = named]
    BY <1>2 DEF LoadProjectForSource
  <2> HIDE DEF named
  <2> SUFFICES ASSUME NEW t, t = [s EXCEPT !.w.set.source = doc, !.owner = named]
               PROVE  FrameOK(t) /\ t.w.dialog = s.w.dialog
    BY <2>2
  <2>3. t \in FrameType
    <3>1. [s.w.set EXCEPT !.source = doc] \in Settings
      BY <1>1 DEF Settings
    <3> QED BY <1>1, <2>1, <3>1 DEF FrameType, Windows
  <2>4. /\ t.file = s.file /\ t.script = s.script /\ t.trusted = s.trusted /\ t.owner = named
        /\ t.allowed = s.allowed /\ t.mistaken = s.mistaken /\ t.news = s.news
        /\ Alike(t.w.set, s.w.set) /\ t.w.refused = s.w.refused
        /\ t.w.ask = s.w.ask /\ t.w.dialog = s.w.dialog
    BY <1>1 DEF FrameType, Windows, Settings, Alike
  <2> QED BY <2>1, <2>3, <2>4 DEF FrameOK, HooksOK, TrustedIsAllowed, HookIsAllowed, DemoIsAllowed,
             AskedInDialog, AskedAbout, OwnedIsShown, Hook, Alike
<1>3. CASE Readable(s.file[doc])
  <2> DEFINE set == Load(s.file[doc], doc)
             o == Opening(s, set, doc)
  <2>1. s.file[doc] # None /\ set \in Settings
    BY <1>1, <1>3, LoadIs DEF Readable
  <2>2. LoadProjectForSource(s, doc, by) = HookMayRunFor(o, doc, by)
    BY <1>3 DEF LoadProjectForSource, Opening
  <2>3. Alike(set, Load(s.file[doc], doc))
    BY DEF Alike
  <2> HIDE DEF set
  <2>4. AwaitsHook(o) /\ o.file = s.file /\ o.w.dialog = s.w.dialog
    BY <1>3, <2>1, <2>3, OpeningOK
  <2> HIDE DEF o
  <2>5. FrameOK(HookMayRunFor(o, doc, by)) /\ HookMayRunFor(o, doc, by).w.dialog = o.w.dialog
    BY <2>1, <2>4, MayRunOK
  <2> QED BY <2>2, <2>4, <2>5
<1> QED BY <1>2, <1>3

LEMMA OpenedOK ==
  ASSUME NEW s, FrameOK(s), NEW doc \in Docs, NEW by \in Callers \ {"run"},
         by = "script" => s.w.dialog # None /\ s.w.dialog.name = "hooks"
  PROVE  FrameOK(OpenPath(s, doc, by)) /\ OpenPath(s, doc, by).w.dialog = s.w.dialog
BY FocusOK, LoadedOK DEF OpenPath

LEMMA SourceIs ==
  ASSUME NEW w \in Windows
  PROVE  Source(w) \in Docs \cup {None}
<1>1. w.editor \in Docs \cup {None} /\ w.set.source \in Docs \cup {None} /\ w.tabs \in Seq(Docs)
  BY WindowIs, SettingsIs
<1>2. w.tabs # <<>> => Head(w.tabs) \in Docs
  BY <1>1
<1> QED BY <1>1, <1>2 DEF Source

(* A save makes the window's settings those of the file it writes, whatever *)
(* they were before; one that fails leaves no file that is the window's.    *)
LEMMA SavedOK ==
  ASSUME NEW s, HooksOK(s), NEW doc \in Docs, NEW fails \in BOOLEAN
  PROVE  FrameOK(SaveTo(s, doc, fails))
<1>1. s \in FrameType /\ s.w \in Windows /\ s.w.set \in Settings
  BY FrameIs, WindowIs DEF HooksOK
<1> SUFFICES ASSUME NEW n, n = [s EXCEPT !.w.set.source = doc]
             PROVE  FrameOK(IF fails THEN [n EXCEPT !.owner = None]
                            ELSE [n EXCEPT !.file[doc] = Save(n.w.set, doc), !.owner = doc])
  BY DEF SaveTo
<1>2. /\ n \in FrameType /\ n.w \in Windows /\ n.w.set \in Settings
      /\ n.file = s.file /\ n.script = s.script /\ n.trusted = s.trusted /\ n.owner = s.owner
      /\ n.allowed = s.allowed /\ n.mistaken = s.mistaken /\ n.news = s.news
      /\ Alike(n.w.set, s.w.set) /\ n.w.refused = s.w.refused
      /\ n.w.ask = s.w.ask /\ n.w.dialog = s.w.dialog
  <2> DEFINE set == [s.w.set EXCEPT !.source = doc]
             w == [s.w EXCEPT !.set = set]
  <2>1. set \in Settings /\ Alike(set, s.w.set)
    BY <1>1 DEF Settings, Alike
  <2> HIDE DEF set
  <2>2. /\ w \in Windows /\ w.set = set /\ w.refused = s.w.refused
        /\ w.ask = s.w.ask /\ w.dialog = s.w.dialog
    BY <1>1, <2>1 DEF Windows
  <2>3. n = [s EXCEPT !.w = w]
    BY DEF set
  <2> HIDE DEF w
  <2> QED BY <1>1, <2>1, <2>2, <2>3 DEF FrameType
<1>3. HooksOK(n)
  BY <1>2 DEF HooksOK, TrustedIsAllowed, HookIsAllowed, DemoIsAllowed, AskedInDialog, AskedAbout,
              Hook, Alike
<1>4. CASE fails
  <2> SUFFICES ASSUME NEW t, t = [n EXCEPT !.owner = None]
               PROVE  FrameOK(t)
    BY <1>4
  <2>1. /\ t \in FrameType /\ t.owner = None /\ t.w = n.w /\ t.script = n.script /\ t.trusted = n.trusted
        /\ t.allowed = n.allowed /\ t.mistaken = n.mistaken /\ t.news = n.news
    BY <1>2 DEF FrameType
  <2> QED BY <1>3, <2>1 DEF FrameOK, HooksOK, TrustedIsAllowed, HookIsAllowed, DemoIsAllowed,
                            AskedInDialog, AskedAbout,
             OwnedIsShown, Hook
<1>5. CASE ~fails
  <2> DEFINE f == Save(n.w.set, doc)
  <2>1. f \in Files /\ Readable(f) /\ Alike(n.w.set, Load(f, doc))
    BY <1>2, SaveIs, SavedIsAlike
  <2> HIDE DEF f
  <2> SUFFICES ASSUME NEW t, t = [n EXCEPT !.file[doc] = f, !.owner = doc]
               PROVE  FrameOK(t)
    BY <1>5 DEF f
  <2>2. /\ t \in FrameType /\ t.owner = doc /\ t.w = n.w /\ t.script = n.script /\ t.trusted = n.trusted
        /\ t.allowed = n.allowed /\ t.mistaken = n.mistaken /\ t.news = n.news /\ t.file[doc] = f
    BY <1>2, <2>1 DEF FrameType
  <2> QED BY <1>3, <2>1, <2>2 DEF FrameOK, HooksOK, TrustedIsAllowed, HookIsAllowed, DemoIsAllowed,
                                  AskedInDialog, AskedAbout,
             OwnedIsShown, Hook
<1> QED BY <1>4, <1>5

LEMMA DisownedOK ==
  ASSUME NEW s, HooksOK(s), NEW t, t = [s EXCEPT !.owner = None]
  PROVE  FrameOK(t)
<1>1. /\ t \in FrameType /\ t.owner = None /\ t.w = s.w /\ t.script = s.script /\ t.trusted = s.trusted
      /\ t.allowed = s.allowed /\ t.mistaken = s.mistaken /\ t.news = s.news
  BY DEF HooksOK, FrameType
<1> QED BY <1>1 DEF FrameOK, HooksOK, TrustedIsAllowed, HookIsAllowed, DemoIsAllowed, AskedInDialog,
                    AskedAbout, OwnedIsShown, Hook

LEMMA PersistedOK ==
  ASSUME NEW s, HooksOK(s), NEW fails \in BOOLEAN
  PROVE  FrameOK(PersistSettings(s, fails))
<1>1. Source(s.w) \in Docs \cup {None}
  BY SourceIs, FrameIs DEF HooksOK
<1> QED BY <1>1, SavedOK, DisownedOK DEF PersistSettings

LEMMA AssetsOK ==
  ASSUME NEW s, FrameOK(s), NEW fails \in BOOLEAN
  PROVE  FrameOK(DeclareAsset(s, "out", fails)) /\ FrameOK(RemoveAsset(s, "out", fails))
<1>1. s \in FrameType /\ s.w \in Windows /\ s.w.set \in Settings /\ s.w.set.assets \in SUBSET {"out"}
  BY FrameIs, WindowIs, SettingsIs DEF FrameOK, HooksOK
<1>2. Source(s.w) \in Docs \cup {None}
  BY <1>1, SourceIs
<1>3. ASSUME NEW assets \in SUBSET {"out"}, NEW t, t = [s EXCEPT !.w.set.assets = assets]
      PROVE  HooksOK(t)
  <2> DEFINE set == [s.w.set EXCEPT !.assets = assets]
  <2>1. set \in Settings /\ set.hook = s.w.set.hook /\ set.on = s.w.set.on
    BY <1>1, <1>3 DEF Settings
  <2>2. t = [s EXCEPT !.w.set = set]
    BY <1>3
  <2> HIDE DEF set
  <2>3. /\ t \in FrameType /\ t.script = s.script /\ t.trusted = s.trusted
        /\ t.allowed = s.allowed /\ t.mistaken = s.mistaken /\ t.news = s.news
        /\ t.w.refused = s.w.refused
        /\ t.w.ask = s.w.ask /\ t.w.dialog = s.w.dialog /\ t.w.set = set
    BY <1>1, <2>1, <2>2 DEF FrameType, Windows
  <2> QED BY <2>1, <2>3 DEF FrameOK, HooksOK, TrustedIsAllowed, HookIsAllowed, DemoIsAllowed,
                            AskedInDialog, AskedAbout, Hook
<1>4. /\ s.w.set.assets \cup {"out"} \in SUBSET {"out"} /\ s.w.set.assets \ {"out"} \in SUBSET {"out"}
  BY <1>1
<1>5. FrameOK(DeclareAsset(s, "out", fails))
  BY <1>2, <1>3, <1>4, SavedOK DEF DeclareAsset
<1>6. FrameOK(RemoveAsset(s, "out", fails))
  BY <1>2, <1>3, <1>4, SavedOK DEF RemoveAsset
<1> QED BY <1>5, <1>6

-----------------------------------------------------------------------------
(* The dialogs.                                                             *)

LEMMA DialogOK ==
  ASSUME NEW s, FrameOK(s), s.w.ask = None,
         NEW x \in Dialogs \cup {None}, NEW t, t = [s EXCEPT !.w.dialog = x]
  PROVE  FrameOK(t)
<1>1. s \in FrameType /\ s.w \in Windows
  BY FrameIs DEF FrameOK, HooksOK
<1>2. /\ t \in FrameType /\ t.file = s.file /\ t.script = s.script /\ t.trusted = s.trusted
      /\ t.owner = s.owner /\ t.allowed = s.allowed /\ t.mistaken = s.mistaken /\ t.news = s.news
      /\ t.w.set = s.w.set
      /\ t.w.refused = s.w.refused
      /\ t.w.ask = None
  BY <1>1 DEF FrameType, Windows
<1> QED BY <1>2 DEF FrameOK, HooksOK, TrustedIsAllowed, HookIsAllowed, DemoIsAllowed, AskedInDialog,
           AskedAbout, OwnedIsShown, Hook

LEMMA SettingsDialogOK ==
  ASSUME NEW s, FrameOK(s), s.w.ask = None
  PROVE  FrameOK(SettingsDialog(s))
<1>1. s.w.set \in Settings
  BY FrameIs, WindowIs DEF FrameOK, HooksOK
<1>2. [name |-> "settings", set |-> s.w.set] \in Dialogs
  BY <1>1 DEF Dialogs
<1> QED BY <1>2, DialogOK DEF SettingsDialog

LEMMA HooksDialogOK ==
  ASSUME NEW s, FrameOK(s), s.w.ask = None
  PROVE  FrameOK(HooksDialog(s))
<1>1. s \in FrameType /\ s.w \in Windows /\ s.w.set \in Settings
      /\ s.w.set.hook \in Paths /\ s.w.set.on \in BOOLEAN
  BY FrameIs, WindowIs, SettingsIs DEF FrameOK, HooksOK
<1> DEFINE besides == IF Source(s.w) # None /\ s.script[Dir(Source(s.w))] # None
                      THEN Dir(Source(s.w)) ELSE None
           path == IF s.w.set.hook # None THEN s.w.set.hook ELSE besides
<1>2. besides \in Paths
  BY <1>1, SourceIs, DocsAre DEF Paths
<1>3. path \in Paths
  BY <1>1, <1>2
<1>4. HooksDialog(s) = [s EXCEPT !.w.dialog = [name |-> "hooks", hook |-> path, on |-> s.w.set.on]]
  BY DEF HooksDialog
<1> HIDE DEF path
<1>5. [name |-> "hooks", hook |-> path, on |-> s.w.set.on] \in Dialogs
  BY <1>1, <1>3 DEF Dialogs, Paths
<1> QED BY <1>4, <1>5, DialogOK

LEMMA SettingsAcceptedOK ==
  ASSUME NEW s, FrameOK(s), s.w.ask = None, s.w.dialog # None, s.w.dialog.name = "settings",
         NEW fails \in BOOLEAN
  PROVE  FrameOK(SettingsAccepted(s, fails))
<1>1. s \in FrameType /\ s.w \in Windows /\ s.w.set \in Settings /\ s.w.editor \in Docs \cup {None}
      /\ s.w.dialog \in Dialogs /\ s.news \in BOOLEAN /\ s.w.refused \in BOOLEAN
  BY FrameIs, WindowIs DEF FrameOK, HooksOK
<1>2. s.w.dialog.set \in Settings
  BY <1>1 DEF Dialogs
<1> DEFINE set == s.w.dialog.set
           changed == s.news \/ <<set.hook, set.on>> # <<s.w.set.hook, s.w.set.on>>
<1>3. changed \in BOOLEAN
  BY <1>1
<1> SUFFICES ASSUME NEW t, t = [s EXCEPT !.w.set = set, !.w.dialog = None, !.news = changed]
             PROVE  FrameOK(IF s.w.editor = None THEN [t EXCEPT !.owner = None]
                            ELSE SaveTo(t, s.w.editor, fails))
  BY DEF SettingsAccepted
<1>4. ~changed => s.w.set.hook = set.hook /\ s.w.set.on = set.on /\ ~s.news
  OBVIOUS
<1> HIDE DEF set, changed
<1>5. /\ t \in FrameType /\ t.script = s.script /\ t.trusted = s.trusted
      /\ t.allowed = s.allowed /\ t.mistaken = s.mistaken /\ t.news = changed
      /\ t.w.set = set /\ t.w.refused = s.w.refused /\ t.w.ask = None
  <2> DEFINE w == [s.w EXCEPT !.set = set, !.dialog = None]
  <2>1. w \in Windows /\ w.set = set /\ w.refused = s.w.refused /\ w.ask = None
    BY <1>1, <1>2 DEF Windows, set
  <2>2. t = [s EXCEPT !.w = w, !.news = changed]
    OBVIOUS
  <2> HIDE DEF w
  <2> QED BY <1>1, <1>3, <2>1, <2>2 DEF FrameType
<1>6. HooksOK(t)
  BY <1>4, <1>5 DEF FrameOK, HooksOK, TrustedIsAllowed, HookIsAllowed, DemoIsAllowed, AskedInDialog,
                    AskedAbout, Hook
<1> QED BY <1>1, <1>6, SavedOK, DisownedOK

(* The dialog takes a script that was made for it.                          *)
LEMMA OfferedOK ==
  ASSUME NEW s, FrameOK(s), s.w.ask = None, s.w.dialog # None, s.w.dialog.name = "hooks", NEW d \in Dirs
  PROVE  FrameOK(Offered(s, d))
<1> DEFINE half == [s.w.dialog EXCEPT !.hook = d]
           dialog == [half EXCEPT !.on = TRUE]
<1>1. s \in FrameType /\ s.w \in Windows /\ s.w.dialog \in Dialogs
  BY FrameIs, WindowIs DEF FrameOK, HooksOK
<1>2. half \in Dialogs /\ dialog \in Dialogs
  BY <1>1 DEF Dialogs
<1>3. PICK a : a = [s EXCEPT !.w.dialog = half]
  OBVIOUS
<1>4. Offered(s, d) = [a EXCEPT !.w.dialog.on = TRUE]
  BY <1>3 DEF Offered
<1> HIDE DEF half
<1>5. a.w.dialog = half /\ a.w.ask = None /\ FrameOK(a)
  <2>1. a.w.dialog = half /\ a.w.ask = None
    BY <1>1, <1>3 DEF FrameType, Windows
  <2> QED BY <1>2, <1>3, <2>1, DialogOK
<1>6. [a EXCEPT !.w.dialog.on = TRUE] = [a EXCEPT !.w.dialog = dialog]
  BY <1>5
<1> HIDE DEF dialog
<1> QED BY <1>2, <1>4, <1>5, <1>6, DialogOK

(* Whoever asked goes on with the answer.                                   *)
LEMMA AnsweredOK ==
  ASSUME NEW s, FrameOK(s), s.w.ask # None, NEW yes \in BOOLEAN
  PROVE  FrameOK(Answered(s, yes))
<1> DEFINE no == Suppressed(s)
           answered == IF yes THEN Granted(s) ELSE [Suppressed(s) EXCEPT !.w.ask = None]
<1>1. s \in FrameType /\ s.w \in Windows
  BY FrameIs DEF FrameOK, HooksOK
<1>2. ASSUME NEW t, t = [no EXCEPT !.w.ask = None]
      PROVE  FrameOK(t) /\ t.w.ask = None /\ t.w.dialog = s.w.dialog
  <2>1. FrameOK(no) /\ no.w.refused /\ no.w.dialog = s.w.dialog
    BY AwaitsIs, SuppressedOK
  <2>2. no \in FrameType /\ no.w \in Windows
    BY <2>1, FrameIs DEF FrameOK, HooksOK
  <2> HIDE DEF no
  <2>3. /\ t \in FrameType /\ t.file = no.file /\ t.script = no.script /\ t.trusted = no.trusted
        /\ t.owner = no.owner /\ t.allowed = no.allowed /\ t.mistaken = no.mistaken
        /\ t.w.set = no.w.set
        /\ t.w.refused = no.w.refused /\ t.w.ask = None /\ t.w.dialog = no.w.dialog
    BY <1>2, <2>2 DEF FrameType, Windows
  <2> QED BY <2>1, <2>3 DEF FrameOK, HooksOK, TrustedIsAllowed, HookIsAllowed, DemoIsAllowed,
             AskedInDialog, OwnedIsShown
<1>3. FrameOK(answered) /\ answered.w.ask = None /\ answered.w.dialog = s.w.dialog
  BY <1>2, GrantedOK
<1> HIDE DEF answered
<1>4. CASE s.w.ask.then # "script"
  BY <1>3, <1>4 DEF Answered, answered
<1>5. CASE s.w.ask.then = "script"
  <2>1. s.w.dialog # None /\ s.w.dialog.name = "hooks"
    BY <1>5 DEF FrameOK, HooksOK, AskedInDialog
  <2>2. s.w.ask \in Questions
    BY <1>1, WindowIs
  <2>3. Dir(s.w.ask.doc) \in Dirs
    BY <2>2, DocsAre DEF Questions
  <2> QED BY <1>3, <1>5, <2>1, <2>3, OfferedOK DEF Answered, answered
<1> QED BY <1>4, <1>5

(* The dialog writes the script where there is none, and opens it.          *)
LEMMA NewScriptOK ==
  ASSUME NEW s, FrameOK(s), NEW fails \in BOOLEAN, s.w.dialog # None, s.w.dialog.name = "hooks"
  PROVE  FrameOK(NewScript(s, fails))
<1> DEFINE source == Source(s.w)
           d == Dir(source)
<1>1. s \in FrameType /\ s.w \in Windows /\ s.w.dialog \in Dialogs
      /\ source \in Docs \cup {None}
  BY FrameIs, WindowIs, SourceIs DEF FrameOK, HooksOK
<1>2. CASE source = None \/ (fails /\ s.script[d] = None)
  BY <1>2 DEF NewScript
<1>3. CASE ~(source = None \/ (fails /\ s.script[d] = None))
  <2>1. source \in Docs /\ d \in Dirs
    BY <1>1, <1>3, DocsAre
  <2> DEFINE w == IF s.script[d] # None THEN s
                  ELSE [s EXCEPT !.script[d] = Shipped, !.allowed = @ \cup {<<d, Shipped>>}]
           o == OpenPath(w, Script(d), "script")
  <2>2. NewScript(s, fails) = IF o.w.ask # None THEN o ELSE Offered(o, d)
    BY <1>3 DEF NewScript
  <2> HIDE DEF d, source, o
  <2>3. FrameOK(w) /\ w.w = s.w
    <3>1. CASE s.script[d] # None
      BY <3>1
    <3>2. CASE s.script[d] = None
      <4> DEFINE allow == s.allowed \cup {<<d, Shipped>>}
      <4>1. allow \in SUBSET (Dirs \X (Contents \cup {None}))
        BY <1>1, <2>1, FrameIs, ProjectsAssumption
      <4>2. s.allowed \subseteq allow /\ <<d, Shipped>> \in allow
        OBVIOUS
      <4> SUFFICES ASSUME NEW t, t = [s EXCEPT !.script[d] = Shipped, !.allowed = allow]
                   PROVE  FrameOK(t) /\ t.w = s.w
        BY <3>2
      <4> HIDE DEF allow
      <4>3. t \in FrameType
        BY <1>1, <2>1, <4>1, ProjectsAssumption DEF FrameType
      <4>4. /\ t.file = s.file /\ t.script = [s.script EXCEPT ![d] = Shipped] /\ t.trusted = s.trusted
            /\ t.owner = s.owner /\ t.allowed = allow /\ t.mistaken = s.mistaken
            /\ t.news = s.news /\ t.w = s.w
        BY <1>1 DEF FrameType
      <4>5. TrustedIsAllowed(t) /\ DemoIsAllowed(t) /\ AskedInDialog(t) /\ OwnedIsShown(t)
        BY <4>2, <4>4 DEF FrameOK, HooksOK, TrustedIsAllowed, DemoIsAllowed, AskedInDialog,
             OwnedIsShown
      <4>6. HookIsAllowed(t)
        <5>1. s.script \in [Dirs -> Contents \cup {None}] /\ s.w.set.hook \in Dirs \cup {None}
          BY <1>1, FrameIs, WindowIs, SettingsIs DEF Paths
        <5> QED BY <4>2, <4>4, <5>1 DEF FrameOK, HooksOK, HookIsAllowed, AskedAbout, Hook
      <4> QED BY <4>3, <4>4, <4>5, <4>6 DEF FrameOK, HooksOK
    <3> QED BY <3>1, <3>2
  <2>4. Script(d) \in Docs
    BY <2>1 DEF Script, Docs
  <2> HIDE DEF w
  <2>5. FrameOK(o) /\ o.w.dialog = s.w.dialog
    BY <2>3, <2>4, OpenedOK DEF o, Callers
  <2>6. CASE o.w.ask # None
    BY <2>2, <2>5, <2>6
  <2>7. CASE o.w.ask = None
    BY <2>1, <2>2, <2>5, <2>7, OfferedOK
  <2> QED BY <2>6, <2>7
<1> QED BY <1>2, <1>3

(* A choice in the dialog is a yes to the script as it stands.              *)
LEMMA HooksAcceptedOK ==
  ASSUME NEW s, FrameOK(s), s.w.ask = None, NEW fails \in BOOLEAN,
         s.w.dialog # None, s.w.dialog.name = "hooks",
         s.w.dialog.on => s.w.dialog.hook # None /\ s.script[s.w.dialog.hook] # None
  PROVE  FrameOK(HooksAccepted(s, fails))
<1>1. s \in FrameType /\ s.w \in Windows /\ s.w.set \in Settings /\ s.w.dialog \in Dialogs
  BY FrameIs, WindowIs DEF FrameOK, HooksOK
<1> DEFINE hook == s.w.dialog.hook
           on == s.w.dialog.on
           set == [s.w.set EXCEPT !.hook = hook, !.on = on]
           hooked == <<hook, s.script[hook]>>
           allow == IF on THEN s.allowed \cup {hooked} ELSE s.allowed
           taken == [s EXCEPT !.w.set.hook = hook, !.w.set.on = on,
                              !.w.refused = FALSE, !.w.dialog = None, !.news = FALSE]
           chosen == IF on THEN [taken EXCEPT !.allowed = @ \cup {Hook(taken)}] ELSE taken
<1>2. hook \in Dirs \cup {None} /\ on \in BOOLEAN
  BY <1>1 DEF Dialogs
<1>3. HooksAccepted(s, fails) = PersistSettings(chosen, fails)
  BY DEF HooksAccepted
<1>4. allow \in SUBSET (Dirs \X (Contents \cup {None}))
  <2>1. on => hook \in Dirs /\ s.script[hook] \in Contents
    BY <1>1, <1>2, FrameIs
  <2> QED BY <1>1, <2>1, FrameIs
<1>5. set \in Settings /\ set.hook = hook /\ set.on = on
  BY <1>1, <1>2 DEF Settings
<1>6. ASSUME NEW t, t = taken
      PROVE  /\ t \in FrameType /\ t.script = s.script /\ t.trusted = s.trusted /\ t.w.set = set
             /\ t.allowed = s.allowed /\ t.mistaken = s.mistaken /\ ~t.news /\ t.w \in Windows
             /\ t.w.ask = None
  <2>1. PICK a : a = [s EXCEPT !.w.set.hook = hook]
    OBVIOUS
  <2>2. PICK b : b = [a EXCEPT !.w.set.on = on]
    OBVIOUS
  <2>3. t = [b EXCEPT !.w.refused = FALSE, !.w.dialog = None, !.news = FALSE]
    BY <1>6, <2>1, <2>2
  <2> DEFINE half == [s.w.set EXCEPT !.hook = hook]
  <2>4. half \in Settings /\ set = [half EXCEPT !.on = on]
    BY <1>1, <1>2 DEF Settings
  <2>5. a = [s EXCEPT !.w.set = half]
    BY <2>1
  <2> HIDE DEF half, taken, set
  <2>6. /\ a \in FrameType /\ a.script = s.script /\ a.trusted = s.trusted /\ a.w.set = half
        /\ a.allowed = s.allowed /\ a.mistaken = s.mistaken /\ a.w \in Windows /\ a.w.ask = None
    BY <1>1, <2>4, <2>5 DEF FrameType, Windows
  <2>7. b = [a EXCEPT !.w.set = set]
    BY <2>2, <2>4, <2>6
  <2>8. /\ b \in FrameType /\ b.script = s.script /\ b.trusted = s.trusted /\ b.w.set = set
        /\ b.allowed = s.allowed /\ b.mistaken = s.mistaken /\ b.w \in Windows /\ b.w.ask = None
    BY <1>5, <2>6, <2>7 DEF FrameType, Windows
  <2> QED BY <2>3, <2>8 DEF FrameType, Windows
<1>7. ASSUME NEW t, t = chosen
      PROVE  HooksOK(t)
  <2>1. PICK n : n = taken
    OBVIOUS
  <2>2. t = IF on THEN [n EXCEPT !.allowed = @ \cup {Hook(n)}] ELSE n
    BY <1>7, <2>1
  <2>3. /\ n \in FrameType /\ n.script = s.script /\ n.trusted = s.trusted /\ n.w.set = set
        /\ n.allowed = s.allowed /\ n.mistaken = s.mistaken /\ ~n.news /\ n.w.ask = None
    BY <1>6, <2>1
  <2>4. Hook(n) = hooked
    BY <1>5, <2>3 DEF Hook
  <2>5. on => n.allowed \cup {Hook(n)} = allow
    BY <2>3, <2>4
  <2>6. ~on => n.allowed = allow
    BY <2>3
  <2>7. s.allowed \subseteq allow /\ (on => hooked \in allow)
    OBVIOUS
  <2> HIDE DEF set, hooked, allow, on
  <2>8. /\ t \in FrameType /\ t.script = s.script /\ t.trusted = s.trusted /\ t.w.set = set
        /\ t.allowed = allow /\ t.mistaken = s.mistaken /\ ~t.news /\ t.w.ask = None
    BY <1>4, <2>2, <2>3, <2>5, <2>6 DEF FrameType
  <2>9. HookIsAllowed(t)
    BY <1>5, <2>7, <2>8 DEF HookIsAllowed, Hook, hooked
  <2> QED BY <2>7, <2>8, <2>9 DEF FrameOK, HooksOK, TrustedIsAllowed, DemoIsAllowed, AskedInDialog,
                                  AskedAbout
<1> HIDE DEF chosen
<1>8. HooksOK(chosen)
  BY <1>7
<1> QED BY <1>3, <1>8, PersistedOK

-----------------------------------------------------------------------------
(* The demo, renames and other programs.                                    *)

LEMMA WrittenAre ==
  Written \subseteq Files /\ Demo \in Files
<1> DEFINE f == Save(NewProject, <<"hello", DemoDir>>)
<1>1. NewProject \in Settings
  BY DEF NewProject, Settings, Args
<1>2. f \in Files
  BY <1>1, SaveIs, ProjectsAssumption DEF Docs
<1> HIDE DEF f
<1>3. Demo \in Files /\ ByHand \in Files
  BY <1>2 DEF Demo, ByHand, f, Files
<1>4. Older \in Files
  BY <1>3 DEF Older, Files
<1>5. [ByHand EXCEPT !.version = Newer] \in Files
  BY <1>3 DEF Files
<1> QED BY <1>3, <1>4, <1>5 DEF Written

LEMMA DemoCopiedOK ==
  ASSUME NEW s, FrameOK(s)
  PROVE  FrameOK(CopyMissingDemoFiles(s))
<1> DEFINE doc == <<"hello", DemoDir>>
           file1 == [s.file EXCEPT ![doc] = IF @ = None THEN Demo ELSE @]
           script1 == [s.script EXCEPT ![DemoDir] = IF @ = None THEN Shipped ELSE @]
           both == s.file[doc] = None /\ s.script[DemoDir] = None
           trust == IF both THEN s.trusted \cup {<<doc, DemoDir, Shipped>>} ELSE s.trusted
<1>1. s \in FrameType /\ s.w.set.hook \in Dirs \cup {None} /\ doc \in Docs
  BY FrameIs, WindowIs, SettingsIs, ProjectsAssumption DEF FrameOK, HooksOK, Paths, Docs
<1>2. file1 \in [Docs -> Files \cup {None}] /\ (\A e \in Docs : s.file[e] # None => file1[e] = s.file[e])
  BY <1>1, FrameIs, WrittenAre
<1>3. /\ script1 \in [Dirs -> Contents \cup {None}]
      /\ \A d \in Dirs : script1[d] = s.script[d] \/ <<d, script1[d]>> = <<DemoDir, Shipped>>
  BY <1>1, FrameIs, ProjectsAssumption
<1>4. /\ trust \in SUBSET (Docs \X Dirs \X Contents)
      /\ \A r \in trust : r \in s.trusted \/ r = <<doc, DemoDir, Shipped>>
  BY <1>1, FrameIs, ProjectsAssumption
<1>5. CopyMissingDemoFiles(s)
        = IF checkout THEN s
          ELSE IF both THEN [[s EXCEPT !.file = file1, !.script = script1] EXCEPT !.trusted = trust]
          ELSE [s EXCEPT !.file = file1, !.script = script1]
  <2>1. PICK c : c = [s EXCEPT !.file = file1, !.script = script1]
    OBVIOUS
  <2>2. c = [s EXCEPT !.file[doc] = IF @ = None THEN Demo ELSE @,
                      !.script[DemoDir] = IF @ = None THEN Shipped ELSE @]
    BY <2>1
  <2>3. both => [c EXCEPT !.trusted = @ \cup {<<doc, DemoDir, Shipped>>}] = [c EXCEPT !.trusted = trust]
    <3> HIDE DEF both, file1, script1
    <3>1. c.trusted = s.trusted
      BY <1>1, <2>1 DEF FrameType
    <3> QED BY <3>1
  <2> QED BY <2>1, <2>2, <2>3 DEF CopyMissingDemoFiles
<1>6. ~both => trust = s.trusted
  OBVIOUS
<1> HIDE DEF both, file1, script1, trust
<1> SUFFICES ASSUME NEW t, t = IF both THEN [[s EXCEPT !.file = file1, !.script = script1] EXCEPT !.trusted = trust]
                               ELSE [s EXCEPT !.file = file1, !.script = script1]
             PROVE  FrameOK(t)
  BY <1>5
<1>7. /\ t \in FrameType /\ t.file = file1 /\ t.script = script1 /\ t.trusted = trust /\ t.w = s.w
      /\ t.owner = s.owner /\ t.allowed = s.allowed /\ t.mistaken = s.mistaken /\ t.news = s.news
  BY <1>1, <1>2, <1>3, <1>4, <1>6 DEF FrameType
<1>8. TrustedIsAllowed(t)
  <2> SUFFICES ASSUME NEW r \in trust
               PROVE  <<r[2], r[3]>> \in s.allowed \cup s.mistaken
    BY <1>7 DEF TrustedIsAllowed
  <2>1. CASE r \in s.trusted
    BY <2>1 DEF FrameOK, HooksOK, TrustedIsAllowed
  <2>2. CASE r = <<doc, DemoDir, Shipped>>
    BY <2>2 DEF FrameOK, HooksOK, DemoIsAllowed
  <2> QED BY <1>4, <2>1, <2>2
<1>9. HookIsAllowed(t) /\ DemoIsAllowed(t) /\ AskedInDialog(t)
  BY <1>1, <1>3, <1>7, ProjectsAssumption
     DEF FrameOK, HooksOK, HookIsAllowed, DemoIsAllowed, AskedInDialog, AskedAbout, Hook
<1>10. OwnedIsShown(t)
  <2>1. s.owner \in Docs \cup {None}
    BY <1>1, FrameIs
  <2> QED BY <1>2, <1>7, <2>1 DEF FrameOK, OwnedIsShown, Readable
<1> QED BY <1>7, <1>8, <1>9, <1>10 DEF FrameOK, HooksOK

(* A project that is renamed with its source stays in its directory.        *)
LEMMA RenamedOK ==
  ASSUME NEW s, FrameOK(s), NEW d \in Dirs
  PROVE  FrameOK(FollowRenamedFile(s, <<"hello", d>>, <<"renamed", d>>))
<1> DEFINE old == <<"hello", d>>
           new == <<"renamed", d>>
           moves == s.file[old] # None /\ s.file[new] = None
           Named(doc) == IF doc = old THEN new ELSE doc
           set == [s.w.set EXCEPT !.source = Named(@)]
           tabs == [i \in DOMAIN s.w.tabs |-> Named(s.w.tabs[i])]
           files == IF moves THEN [s.file EXCEPT ![new] = s.file[old], ![old] = None] ELSE s.file
           owned == IF s.owner # old THEN s.owner ELSE IF moves THEN new ELSE None
<1>1. /\ s \in FrameType /\ s.w \in Windows /\ s.w.set \in Settings
      /\ s.file \in [Docs -> Files \cup {None}] /\ s.w.tabs \in Seq(Docs)
      /\ s.owner \in Docs \cup {None}
      /\ s.w.set.source \in Docs \cup {None} /\ s.w.editor \in Docs \cup {None}
  BY FrameIs, WindowIs, SettingsIs DEF FrameOK, HooksOK
<1>2. /\ old \in Docs /\ new \in Docs /\ old # new /\ Dir(old) = Dir(new)
      /\ \A doc \in Docs \cup {None} : Named(doc) \in Docs \cup {None}
      /\ \A doc \in Docs : Named(doc) \in Docs
  BY DEF Docs, Dir
<1>3. set \in Settings /\ Alike(set, s.w.set)
  BY <1>1, <1>2 DEF Settings, Alike
<1>4. tabs \in Seq(Docs)
  <2>1. DOMAIN s.w.tabs = 1 .. Len(s.w.tabs) /\ Len(s.w.tabs) \in Nat
    BY <1>1
  <2>2. \A i \in 1 .. Len(s.w.tabs) : Named(s.w.tabs[i]) \in Docs
    BY <1>1, <1>2
  <2> HIDE DEF Named
  <2> QED BY <2>1, <2>2
<1>5. files \in [Docs -> Files \cup {None}]
  BY <1>1, <1>2
<1>6. owned \in Docs \cup {None}
  BY <1>1, <1>2
<1>7. owned # None => /\ s.owner # None
                      /\ files[owned] = s.file[s.owner] \/ s.file[s.owner] = None
                      /\ Dir(owned) = Dir(s.owner)
  BY <1>1, <1>2, NamesAssumption
<1> DEFINE edited == Named(s.w.editor)
<1>8. edited \in Docs \cup {None}
  BY <1>1, <1>2
<1>9. FollowRenamedFile(s, old, new)
        = [s EXCEPT !.w.set.source = Named(@), !.w.editor = Named(@), !.w.tabs = tabs,
                    !.file = files, !.owner = owned]
  BY <1>1 DEF FollowRenamedFile
<1>10. PICK a : a = [s EXCEPT !.w.set = set]
  OBVIOUS
<1>11. FollowRenamedFile(s, old, new)
         = [a EXCEPT !.w.editor = edited, !.w.tabs = tabs, !.file = files, !.owner = owned]
  BY <1>1, <1>9, <1>10
<1> HIDE DEF set, tabs, files, owned, edited, moves, Named
<1>12. /\ a \in FrameType /\ a.w \in Windows /\ a.file = s.file /\ a.script = s.script
       /\ a.trusted = s.trusted
       /\ a.owner = s.owner /\ a.allowed = s.allowed /\ a.mistaken = s.mistaken /\ a.news = s.news
       /\ a.w.set = set
       /\ a.w.refused = s.w.refused
       /\ a.w.ask = s.w.ask /\ a.w.dialog = s.w.dialog
  BY <1>1, <1>3, <1>10 DEF FrameType, Windows
<1> SUFFICES ASSUME NEW t, t = [a EXCEPT !.w.editor = edited, !.w.tabs = tabs, !.file = files, !.owner = owned]
             PROVE  FrameOK(t)
  BY <1>11
<1>13. /\ t \in FrameType /\ t.file = files /\ t.script = s.script /\ t.trusted = s.trusted
       /\ t.owner = owned /\ t.allowed = s.allowed /\ t.mistaken = s.mistaken /\ t.news = s.news
       /\ t.w.set = set
       /\ t.w.refused = s.w.refused
       /\ t.w.ask = s.w.ask /\ t.w.dialog = s.w.dialog
  BY <1>4, <1>5, <1>6, <1>8, <1>12 DEF FrameType, Windows
<1>14. HooksOK(t)
  BY <1>3, <1>13 DEF FrameOK, HooksOK, TrustedIsAllowed, HookIsAllowed, DemoIsAllowed, AskedInDialog,
                     AskedAbout, Hook, Alike
<1>15. OwnedIsShown(t)
  <2> SUFFICES ASSUME owned # None
               PROVE  Readable(files[owned]) /\ Alike(set, Load(files[owned], owned))
    BY <1>13 DEF OwnedIsShown
  <2>1. Readable(s.file[s.owner]) /\ Alike(s.w.set, Load(s.file[s.owner], s.owner))
    BY <1>7 DEF FrameOK, OwnedIsShown
  <2>2. files[owned] = s.file[s.owner] /\ Dir(owned) = Dir(s.owner)
    BY <1>7, <2>1 DEF Readable
  <2>3. Alike(Load(s.file[s.owner], s.owner), Load(files[owned], owned))
    BY <2>2 DEF Load, Alike
  <2> QED BY <1>3, <2>1, <2>2, <2>3 DEF Alike
<1> QED BY <1>14, <1>15 DEF FrameOK

-----------------------------------------------------------------------------
(* The steps.                                                               *)

LEMMA CommittedIs ==
  ASSUME NEW s, s \in FrameType, Commit(s)
  PROVE  Frame' = s
<1>1. s = [file |-> s.file, script |-> s.script, trusted |-> s.trusted, w |-> s.w, owner |-> s.owner,
           allowed |-> s.allowed, mistaken |-> s.mistaken, news |-> s.news]
  BY FrameIs
<1> QED BY <1>1 DEF Commit, Frame

LEMMA CommittedOK ==
  ASSUME IInv, NEW s, FrameOK(s), Commit(s),
         gestures' \in Nat, outside' \in Nat, failures' \in Nat
  PROVE  IInv'
<1>1. Frame' = s /\ s \in FrameType
  BY CommittedIs DEF FrameOK, HooksOK
<1>2. TypeOK'
  <2>1. checkout' \in BOOLEAN
    BY DEF Commit, IInv, TypeOK
  <2> QED BY <1>1, <2>1 DEF TypeOK
<1>3. FrameOK(Frame)'
  BY <1>1 DEF FrameOK, HooksOK, TrustedIsAllowed, HookIsAllowed, DemoIsAllowed, AskedInDialog,
              AskedAbout, OwnedIsShown,
             Hook, Alike
<1> QED BY <1>2, <1>3 DEF IInv

LEMMA HereIs ==
  ASSUME IInv
  PROVE  /\ FrameOK(Frame) /\ Frame \in FrameType
         /\ Frame.w = win /\ Frame.file = file /\ Frame.script = script /\ Frame.owner = owner
         /\ win \in Windows /\ file \in [Docs -> Files \cup {None}]
         /\ Source(win) \in Docs \cup {None} /\ win.dialog \in Dialogs \cup {None}
         /\ win.editor \in Docs \cup {None} /\ win.tabs \in Seq(Docs)
         /\ gestures \in Nat /\ outside \in Nat /\ failures \in Nat
<1>1. FrameOK(Frame) /\ Frame \in FrameType
  BY DEF IInv, FrameOK, HooksOK
<1>2. Frame.w = win /\ Frame.file = file /\ Frame.script = script /\ Frame.owner = owner
  BY DEF Frame
<1> QED BY <1>1, <1>2, FrameIs, WindowIs, SourceIs DEF IInv, TypeOK

LEMMA InitOK ==
  ASSUME Init
  PROVE  IInv
<1>1. NewProject \in Settings
  BY DEF NewProject, Settings, Args
<1>2. Closed \in Windows /\ Closed.set = NewProject
  BY <1>1 DEF Closed, Windows
<1>3. file \in [Docs -> Files \cup {None}]
  <2>1. CASE file \in [Docs -> {None}]
    BY <2>1
  <2>2. CASE \E of \in {"hello", "script"} \X Dirs, f \in Written :
               file = [[doc \in Docs |-> None] EXCEPT ![of] = f]
    BY <2>2, WrittenAre
  <2> QED BY <2>1, <2>2 DEF Init
<1>4. script \in [Dirs -> Contents \cup {None}]
  BY ProjectsAssumption DEF Init
<1>5. <<DemoDir, Shipped>> \in Dirs \X (Contents \cup {None})
  BY ProjectsAssumption
<1>6. Frame \in FrameType
  BY <1>2, <1>3, <1>4, <1>5 DEF Init, Frame, FrameType
<1>7. /\ Frame.trusted = {} /\ Frame.owner = None /\ ~Frame.w.set.on /\ Frame.w.ask = None
      /\ Frame.allowed = {<<DemoDir, Shipped>>}
  BY <1>2 DEF Init, Frame, NewProject, Closed
<1>8. FrameOK(Frame)
  BY <1>6, <1>7 DEF FrameOK, HooksOK, OwnedIsShown, TrustedIsAllowed, HookIsAllowed, DemoIsAllowed,
                    AskedInDialog, AskedAbout
<1>9. TypeOK
  BY <1>6 DEF TypeOK, Init
<1> QED BY <1>8, <1>9 DEF IInv

LEMMA UserOpensOK ==
  ASSUME IInv, NEW doc \in Docs, UserOpens(doc) \/ RemoteOpens(doc)
  PROVE  IInv'
<1>1. PICK by \in {"load", "remote"} : Commit(OpenPath(Frame, doc, by)) /\ Gesture
  BY DEF UserOpens, RemoteOpens
<1>2. FrameOK(OpenPath(Frame, doc, by))
  BY HereIs, OpenedOK DEF Callers
<1> QED BY <1>1, <1>2, HereIs, CommittedOK DEF Gesture

LEMMA UserSwitchesTabOK ==
  ASSUME IInv, UserSwitchesTab
  PROVE  IInv'
<1>1. PICK doc \in {None} \cup {win.tabs[i] : i \in DOMAIN win.tabs} : Commit([Frame EXCEPT !.w.editor = doc])
  BY DEF UserSwitchesTab
<1>2. doc \in Docs \cup {None}
  BY HereIs
<1> DEFINE t == [Frame EXCEPT !.w.editor = doc]
<1>3. /\ t \in FrameType /\ t.file = Frame.file /\ t.script = Frame.script /\ t.trusted = Frame.trusted
      /\ t.owner = Frame.owner /\ t.allowed = Frame.allowed /\ t.mistaken = Frame.mistaken
      /\ t.news = Frame.news
      /\ t.w.set = Frame.w.set /\ t.w.refused = Frame.w.refused
      /\ t.w.ask = Frame.w.ask /\ t.w.dialog = Frame.w.dialog
  BY <1>2, HereIs DEF FrameType, Windows
<1> HIDE DEF t
<1>4. FrameOK(t)
  BY <1>3, HereIs, LookedOK DEF Alike
<1> QED BY <1>1, <1>4, HereIs, CommittedOK DEF UserSwitchesTab, Gesture, t

LEMMA UserOpensProjectOK ==
  ASSUME IInv, NEW doc \in Docs, UserOpensProject(doc)
  PROVE  IInv'
<1> DEFINE o == Focus(Frame, doc)
           set == Load(file[doc], doc)
           t == Opening(o, set, doc)
<1>1. Commit(HookMayRunFor(t, doc, "load"))
  BY DEF UserOpensProject, Opening
<1>2. FrameOK(o) /\ o.file = file /\ Readable(file[doc])
  BY HereIs, FocusOK DEF UserOpensProject
<1>3. set \in Settings /\ file[doc] # None
  BY <1>2, HereIs, LoadIs DEF Readable
<1>4. Alike(set, Load(file[doc], doc))
  BY DEF Alike
<1> HIDE DEF o, set
<1>5. AwaitsHook(t) /\ t.file = file
  BY <1>2, <1>3, <1>4, OpeningOK
<1> HIDE DEF t
<1>6. FrameOK(HookMayRunFor(t, doc, "load"))
  BY <1>3, <1>5, MayRunOK DEF Callers
<1> QED BY <1>1, <1>6, HereIs, CommittedOK DEF UserOpensProject, Gesture

LEMMA UserAnswersOK ==
  ASSUME IInv, UserAnswers
  PROVE  IInv'
<1>1. \A yes \in BOOLEAN : FrameOK(Answered(Frame, yes))
  BY HereIs, AnsweredOK DEF UserAnswers
<1> QED BY <1>1, HereIs, CommittedOK DEF UserAnswers

(* An operation that saves, whether or not the write reaches the disk.      *)
LEMMA SavingOK ==
  ASSUME IInv, NEW s, NEW t, FrameOK(s), FrameOK(t),
         gestures' = gestures + 1, UNCHANGED outside,
         \/ Commit(s) /\ UNCHANGED failures
         \/ failures' = failures + 1 /\ Commit(t)
  PROVE  IInv'
<1>1. gestures' \in Nat /\ outside' \in Nat /\ failures' \in Nat
  BY HereIs
<1> QED BY <1>1, CommittedOK

LEMMA UserSavesOK ==
  ASSUME IInv, UserSaves
  PROVE  IInv'
<1>1. Source(win) \in Docs
  BY HereIs DEF UserSaves
<1>2. \A fails \in BOOLEAN : FrameOK(SaveTo(Frame, Source(win), fails))
  BY <1>1, HereIs, SavedOK DEF FrameOK
<1> QED BY <1>2, SavingOK DEF UserSaves, Saving

LEMMA UserChangesFloppyOK ==
  ASSUME IInv, UserChangesFloppy
  PROVE  IInv'
<1>1. win.set \in Settings /\ win \in Windows /\ Frame.w = win /\ Frame \in FrameType
  BY HereIs, WindowIs
<1> DEFINE set == [win.set EXCEPT !.floppy = ~win.set.floppy]
           t == [Frame EXCEPT !.w.set.floppy = ~@]
<1>2. set \in Settings /\ set.hook = win.set.hook /\ set.on = win.set.on
  BY <1>1 DEF Settings
<1>3. t = [Frame EXCEPT !.w.set = set]
  BY <1>1
<1> HIDE DEF set
<1>4. /\ t \in FrameType /\ t.script = Frame.script /\ t.trusted = Frame.trusted
      /\ t.allowed = Frame.allowed /\ t.mistaken = Frame.mistaken /\ t.news = Frame.news
      /\ t.w.set = set /\ t.w.refused = Frame.w.refused
      /\ t.w.ask = Frame.w.ask /\ t.w.dialog = Frame.w.dialog
  <2> DEFINE w == [win EXCEPT !.set = set]
  <2>1. w \in Windows /\ w.set = set /\ w.refused = win.refused /\ w.ask = win.ask /\ w.dialog = win.dialog
    BY <1>1, <1>2 DEF Windows
  <2>2. t = [Frame EXCEPT !.w = w]
    BY <1>1, <1>3
  <2> HIDE DEF w
  <2> QED BY <1>1, <2>1, <2>2 DEF FrameType
<1> HIDE DEF t
<1>5. HooksOK(t)
  BY <1>1, <1>2, <1>4, HereIs DEF FrameOK, HooksOK, TrustedIsAllowed, HookIsAllowed, DemoIsAllowed,
                                  AskedInDialog, AskedAbout, Hook
<1>6. \A fails \in BOOLEAN : FrameOK(PersistSettings(t, fails))
  BY <1>5, PersistedOK
<1> QED BY <1>6, SavingOK DEF UserChangesFloppy, Saving, t

LEMMA RemoteAssetOK ==
  ASSUME IInv, RemoteAsset("out")
  PROVE  IInv'
<1>1. \A fails \in BOOLEAN : /\ FrameOK(DeclareAsset(Frame, "out", fails))
                             /\ FrameOK(RemoveAsset(Frame, "out", fails))
  BY HereIs, AssetsOK
<1> QED BY <1>1, SavingOK DEF RemoteAsset, Saving

LEMMA UserOpensDialogOK ==
  ASSUME IInv, UserOpensDialog
  PROVE  IInv'
<1>1. FrameOK(SettingsDialog(Frame)) /\ FrameOK(HooksDialog(Frame))
  BY HereIs, SettingsDialogOK, HooksDialogOK DEF UserOpensDialog, Free
<1> QED BY <1>1, HereIs, CommittedOK DEF UserOpensDialog, Gesture

LEMMA UserEditsSettingsOK ==
  ASSUME IInv, UserEditsSettings
  PROVE  IInv'
<1> DEFINE set == [win.dialog.set EXCEPT !.args = <<"mine">>]
           dialog == [win.dialog EXCEPT !.set = set]
<1>1. win.dialog \in Dialogs /\ win.dialog.name = "settings"
  BY HereIs DEF UserEditsSettings, InDialog
<1>2. win.dialog.set \in Settings
  BY <1>1 DEF Dialogs
<1>3. set \in Settings
  BY <1>2 DEF Settings, Args
<1>4. [Frame EXCEPT !.w.dialog.set.args = <<"mine">>] = [Frame EXCEPT !.w.dialog = dialog]
  BY HereIs
<1> HIDE DEF set
<1>5. dialog \in Dialogs
  BY <1>1, <1>3 DEF Dialogs
<1> HIDE DEF dialog
<1>6. FrameOK([Frame EXCEPT !.w.dialog = dialog])
  BY <1>5, HereIs, DialogOK DEF UserEditsSettings, InDialog
<1> QED BY <1>4, <1>6, HereIs, CommittedOK DEF UserEditsSettings, Gesture

LEMMA UserEditsHookOK ==
  ASSUME IInv, UserEditsHook
  PROVE  IInv'
<1>1. win.dialog \in Dialogs /\ win.dialog.name = "hooks"
  BY HereIs DEF UserEditsHook, InDialog
<1>2. PICK d \in Dirs, on \in BOOLEAN : Commit([Frame EXCEPT !.w.dialog.hook = d, !.w.dialog.on = on])
  BY DEF UserEditsHook
<1> DEFINE half == [win.dialog EXCEPT !.hook = d]
           dialog == [half EXCEPT !.on = on]
<1>3. half \in Dialogs /\ dialog \in Dialogs
  BY <1>1 DEF Dialogs
<1>4. PICK a : a = [Frame EXCEPT !.w.dialog = half]
  OBVIOUS
<1>5. [Frame EXCEPT !.w.dialog.hook = d, !.w.dialog.on = on] = [a EXCEPT !.w.dialog.on = on]
  BY <1>4, HereIs
<1> HIDE DEF half
<1>6. FrameOK(a) /\ a.w.dialog = half /\ a.w.ask = None
  <2>1. a.w.dialog = half /\ a.w.ask = win.ask /\ win.ask = None
    BY <1>4, HereIs DEF FrameType, Windows, UserEditsHook, InDialog
  <2> QED BY <1>3, <1>4, <2>1, HereIs, DialogOK
<1>7. [a EXCEPT !.w.dialog.on = on] = [a EXCEPT !.w.dialog = dialog]
  BY <1>6
<1> HIDE DEF dialog
<1>8. FrameOK([a EXCEPT !.w.dialog = dialog])
  BY <1>3, <1>6, DialogOK
<1> QED BY <1>2, <1>5, <1>7, <1>8, HereIs, CommittedOK DEF UserEditsHook, Gesture

LEMMA UserMakesScriptOK ==
  ASSUME IInv, UserMakesScript
  PROVE  IInv'
<1>1. Frame.w.dialog # None /\ Frame.w.dialog.name = "hooks"
  BY HereIs DEF UserMakesScript, InDialog
<1>2. \A fails \in BOOLEAN : FrameOK(NewScript(Frame, fails))
  BY <1>1, HereIs, NewScriptOK
<1> QED BY <1>2, SavingOK DEF UserMakesScript, Saving

LEMMA UserAcceptsOK ==
  ASSUME IInv, UserAccepts
  PROVE  IInv'
<1>1. /\ Frame.w.dialog # None /\ Frame.w.ask = None /\ Frame.w = win /\ Frame.script = script
      /\ FrameOK(Frame)
  BY HereIs DEF UserAccepts, InDialog
<1>2. CASE /\ InDialog("settings")
           /\ LET Op(fails) == SettingsAccepted(Frame, fails) IN Saving(Op)
  <2>1. \A fails \in BOOLEAN : FrameOK(SettingsAccepted(Frame, fails))
    BY <1>1, <1>2, SettingsAcceptedOK DEF InDialog
  <2> QED BY <1>2, <2>1, SavingOK DEF Saving
<1>3. CASE /\ InDialog("hooks")
           /\ win.dialog.on => win.dialog.hook # None /\ script[win.dialog.hook] # None
           /\ LET Op(fails) == HooksAccepted(Frame, fails) IN Saving(Op)
  <2>1. \A fails \in BOOLEAN : FrameOK(HooksAccepted(Frame, fails))
    BY <1>1, <1>3, HooksAcceptedOK DEF InDialog
  <2> QED BY <1>3, <2>1, SavingOK DEF Saving
<1> QED BY <1>2, <1>3 DEF UserAccepts

LEMMA UserCancelsOK ==
  ASSUME IInv, UserCancels
  PROVE  IInv'
<1>1. FrameOK([Frame EXCEPT !.w.dialog = None])
  BY HereIs, DialogOK DEF UserCancels
<1> QED BY <1>1, HereIs, CommittedOK DEF UserCancels, Gesture

LEMMA RunImplOK ==
  ASSUME IInv, NEW by \in {"run", "remote"}, by = "run" => win.ask = None, RunImpl(by)
  PROVE  IInv'
<1>1. Source(win) \in Docs /\ file[Source(win)] # None
  BY HereIs DEF RunImpl
<1>2. AwaitsHook(Frame) /\ HookIsAllowed(Frame)
  BY HereIs, AwaitsIs
<1>3. FrameOK(HookMayRunFor(Frame, Source(win), by))
  BY <1>1, <1>2, HereIs, MayRunOK DEF Callers
<1> QED BY <1>3, HereIs, CommittedOK DEF RunImpl, Gesture

LEMMA UserRenamesOK ==
  ASSUME IInv, NEW d \in Dirs, UserRenames(d)
  PROVE  IInv'
BY HereIs, RenamedOK, CommittedOK DEF UserRenames, Gesture

LEMMA UserOpensDemoOK ==
  ASSUME IInv, UserOpensDemo
  PROVE  IInv'
<1>1. <<"hello", DemoDir>> \in Docs
  BY ProjectsAssumption DEF Docs
<1>2. Commit(OpenPath(CopyMissingDemoFiles(Frame), <<"hello", DemoDir>>, "load"))
  BY DEF UserOpensDemo
<1>3. FrameOK(OpenPath(CopyMissingDemoFiles(Frame), <<"hello", DemoDir>>, "load"))
  BY <1>1, HereIs, DemoCopiedOK, OpenedOK DEF Callers
<1> QED BY <1>2, <1>3, HereIs, CommittedOK DEF UserOpensDemo, Gesture

LEMMA OutsideChangesScriptOK ==
  ASSUME IInv, NEW d \in Dirs, OutsideChangesScript(d)
  PROVE  IInv'
<1>1. PICK c \in Contents \cup {None} : Commit([Frame EXCEPT !.script[d] = c, !.news = TRUE])
  BY DEF OutsideChangesScript
<1> DEFINE t == [Frame EXCEPT !.script[d] = c, !.news = TRUE]
<1>2. /\ t \in FrameType /\ t.file = Frame.file /\ t.trusted = Frame.trusted /\ t.owner = Frame.owner
      /\ t.allowed = Frame.allowed /\ t.mistaken = Frame.mistaken /\ t.w = Frame.w /\ t.news
  BY HereIs DEF FrameType
<1> HIDE DEF t
<1>3. FrameOK(t)
  BY <1>2, HereIs DEF FrameOK, HooksOK, TrustedIsAllowed, HookIsAllowed, DemoIsAllowed,
                      AskedInDialog, AskedAbout, OwnedIsShown
<1> QED BY <1>1, <1>3, HereIs, CommittedOK DEF OutsideChangesScript, t

LEMMA OutsideChangesProjectOK ==
  ASSUME IInv, NEW d \in Dirs, OutsideChangesProject(d)
  PROVE  IInv'
<1> DEFINE doc == <<"hello", d>>
           left == IF owner = doc THEN None ELSE owner
<1>1. PICK f \in Written \cup {None} :
        Commit([Frame EXCEPT !.file[doc] = f, !.owner = IF @ = doc THEN None ELSE @])
  BY DEF OutsideChangesProject
<1>2. f \in Files \cup {None} /\ doc \in Docs /\ left \in Docs \cup {None}
  BY WrittenAre, HereIs, FrameIs DEF Docs
<1> DEFINE t == [Frame EXCEPT !.file[doc] = f, !.owner = left]
<1>3. Commit(t)
  BY <1>1, HereIs
<1>4. left # None => left = owner /\ left # doc
  OBVIOUS
<1> HIDE DEF left
<1>5. /\ t \in FrameType /\ t.file = [file EXCEPT ![doc] = f] /\ t.trusted = Frame.trusted
      /\ t.owner = left /\ t.allowed = Frame.allowed /\ t.mistaken = Frame.mistaken
      /\ t.w = Frame.w /\ t.news = Frame.news
      /\ t.script = Frame.script
  BY <1>2, HereIs DEF FrameType
<1> HIDE DEF t, doc
<1>6. HooksOK(t)
  BY <1>5, HereIs DEF FrameOK, HooksOK, TrustedIsAllowed, HookIsAllowed, DemoIsAllowed,
                      AskedInDialog, AskedAbout, Hook
<1>7. OwnedIsShown(t)
  BY <1>2, <1>4, <1>5, HereIs DEF FrameOK, OwnedIsShown
<1> QED BY <1>3, <1>6, <1>7, HereIs, CommittedOK DEF OutsideChangesProject, FrameOK

LEMMA StepOK ==
  ASSUME IInv, [Next]_vars
  PROVE  IInv'
<1>1. ASSUME NEW doc \in {"hello"} \X Dirs, UserOpens(doc) \/ RemoteOpens(doc) \/ UserOpensProject(doc)
      PROVE  IInv'
  BY <1>1, UserOpensOK, UserOpensProjectOK DEF Docs
<1>2. ASSUME NEW d \in Dirs, UserRenames(d) \/ OutsideChangesScript(d) \/ OutsideChangesProject(d)
      PROVE  IInv'
  BY <1>2, UserRenamesOK, OutsideChangesScriptOK, OutsideChangesProjectOK
<1>3. CASE UserSwitchesTab \/ UserSaves \/ UserChangesFloppy \/ RemoteAsset("out")
  BY <1>3, UserSwitchesTabOK, UserSavesOK, UserChangesFloppyOK, RemoteAssetOK
<1>4. CASE UserOpensDialog \/ UserEditsSettings \/ UserEditsHook \/ UserMakesScript
  BY <1>4, UserOpensDialogOK, UserEditsSettingsOK, UserEditsHookOK, UserMakesScriptOK
<1>5. CASE UserAccepts \/ UserCancels \/ UserAnswers \/ UserRuns \/ RemoteRuns \/ UserOpensDemo
  BY <1>5, UserAcceptsOK, UserCancelsOK, UserAnswersOK, RunImplOK, UserOpensDemoOK
     DEF UserRuns, RemoteRuns, Free
<1>6. CASE UNCHANGED vars
  BY <1>6 DEF vars, IInv, TypeOK, Frame, FrameOK, HooksOK, TrustedIsAllowed, HookIsAllowed,
              DemoIsAllowed, AskedInDialog, AskedAbout,
              OwnedIsShown, Hook, Alike
<1> QED BY <1>1, <1>2, <1>3, <1>4, <1>5, <1>6 DEF Next

(* The invariant holds in every state, for any directories and scripts.     *)
THEOREM Invariance ==
  Spec => []IInv
<1> QED BY InitOK, StepOK, PTL DEF Spec

(* Files, settings, dialogs and records are of the kinds the code has.      *)
THEOREM TypeCorrect ==
  Spec => []TypeOK
<1>1. IInv => TypeOK
  BY DEF IInv
<1> QED BY <1>1, Invariance, PTL

(* A hook that is on was allowed with the contents it has, whichever way    *)
(* the project was opened, renamed, refused or set up in the dialog: but    *)
(* while the question about it is open, or if it took the place of the one  *)
(* that the question named.                                                 *)
THEOREM HooksRunAsAllowed ==
  Spec => []HookRunsAsAllowedUnlessReplaced
<1>1. IInv => HookRunsAsAllowedUnlessReplaced
  BY DEF IInv, FrameOK, HooksOK, HookIsAllowed, HookRunsAsAllowedUnlessReplaced, Frame
<1> QED BY <1>1, Invariance, PTL

(* The settings in the window are those of the project's own file, and mean *)
(* the same wherever its directory goes.                                    *)
THEOREM SettingsAreOfTheProject ==
  Spec => []SettingsAreTheProjects
<1>1. IInv => WindowIsItsFile
  <2> SUFFICES ASSUME IInv, owner # None
               PROVE  /\ Readable(file[owner])
                      /\ win.set = [Load(file[owner], owner) EXCEPT !.source = win.set.source]
    BY DEF WindowIsItsFile
  <2> DEFINE loaded == Load(file[owner], owner)
  <2>1. Readable(file[owner]) /\ Alike(win.set, loaded)
    BY HereIs DEF FrameOK, OwnedIsShown
  <2>2. owner \in Docs /\ file[owner] \in Files /\ win.set \in Settings
    BY <2>1, HereIs, FrameIs, WindowIs DEF Readable
  <2>3. loaded \in Settings
    BY <2>2, LoadIs
  <2> HIDE DEF loaded
  <2>4. ASSUME NEW g, g = [loaded EXCEPT !.source = win.set.source]
        PROVE  g = win.set
    <3>1. g \in Settings /\ Alike(g, loaded) /\ g.source = win.set.source
      BY <2>2, <2>3, <2>4 DEF Settings, Alike
    <3> QED BY <2>1, <2>2, <3>1, SettingsIs DEF Alike
  <2> QED BY <2>1, <2>4 DEF loaded
<1>2. IInv => ProjectTravels
  BY ProjectsTravel DEF IInv
<1> QED BY <1>1, <1>2, Invariance, PTL DEF SettingsAreTheProjects

=============================================================================

----------------------------- MODULE Documents -----------------------------
(***************************************************************************)
(* The documents of the main window: the tabs, the files behind them, the  *)
(* watcher that reports a file going away, the questions the window asks   *)
(* about unsaved or deleted documents, and the documents that were taken   *)
(* out of a floppy image and are written back into it.                     *)
(*                                                                         *)
(* A question is a modal box that runs an event loop of its own, so the    *)
(* watcher's reports and the remote requests are served inside it and may  *)
(* ask another question on top: `asks' is that stack.  Contents are        *)
(* version numbers, a path is a model value and its language a constant.   *)
(***************************************************************************)
EXTENDS Naturals, Sequences, FiniteSets, SequencesExt, FiniteSetsExt

CONSTANTS
    Paths,       \* the files a document may be bound to
    Langs,       \* what the paths may name: functions from Paths to "text", "pim"
                 \* and "still", an importable picture
    Entries,     \* the files inside the mounted floppy image
    Extract,     \* Extract[e]: where the entry e is extracted to
    OnDisk,      \* the paths that exist to begin with
    MaxTabs, MaxEdits, MaxOutside, MaxDepth

ASSUME DocumentsAssumption ==
    /\ Langs \subseteq [Paths -> {"text", "pim", "still"}]
    /\ Extract \in [Entries -> Paths]
    /\ OnDisk \subseteq Paths
    /\ {MaxTabs, MaxEdits, MaxOutside, MaxDepth} \subseteq Nat

Absent == 0          \* no file; the first version of every file is 1
NoPath == "no path"
NoEntry == "no entry"
Ids == 1 .. 2 * MaxTabs + MaxDepth + 1

VARIABLES
    lang,        \* [Paths -> language], fixed for a behaviour
    tabs,        \* m_tabs: a sequence of documents
    asks,        \* the modal questions, the innermost last
    disk,        \* [Paths -> version]
    image,       \* the floppy image, [Entries -> version]
    floppyDocs,  \* m_floppyDocs: the entry a saved path is written back into
    watched,     \* DocumentWatcher::m_watched
    gone,        \* DocumentWatcher::m_reportedGone
    qt,          \* Qt's watch of a path: "none", on the file there ("live"), or
                 \* on a file that is there no more ("stale")
    events,      \* the paths whose change Qt has yet to report
    up,          \* "up", "quit" or "crashed"
    version,     \* the last version made
    outside,     \* how often another program has touched the disk
    agreed,      \* documents the user has let go of since the last quiet moment
    moved,       \* TRUE once a tab went while a question about another was open
    foreign,     \* paths another program, or a second tab, has changed
    news         \* paths whose deletion their tabs have yet to hear of

vars == <<lang, tabs, asks, disk, image, floppyDocs, watched, gone, qt, events, up,
          version, outside, agreed, moved, foreign, news>>

Document == [id : Ids, kind : {"text", "pim", "sheet"}, path : Paths \cup {NoPath},
             of : Paths \cup {NoPath}, entry : Entries \cup {NoEntry},
             text : Nat, modified : BOOLEAN]
Ask == [k : {"unsaved"}, id : Ids, index : Nat, next : {"close", "closeAll", "quit"}]
       \cup [k : {"deleted"}, id : Ids, path : Paths, rest : Seq(Ids), deliberate : BOOLEAN]

\* What the handlers below take and give back.
World == [tabs |-> tabs, asks |-> asks, disk |-> disk, image |-> image,
          floppyDocs |-> floppyDocs, watched |-> watched, gone |-> gone, qt |-> qt,
          events |-> events, up |-> up, version |-> version, outside |-> outside,
          agreed |-> IF asks = <<>> THEN {} ELSE agreed, moved |-> moved, foreign |-> foreign, news |-> news]

(***************************************************************************)
(* Looking documents up.                                                   *)
(***************************************************************************)
Held(s) == {t.path : t \in ToSet(s.tabs)} \ {NoPath}
Open(s) == {t.id : t \in ToSet(s.tabs)}
IndexOf(s, id) == CHOOSE i \in DOMAIN s.tabs : s.tabs[i].id = id
Doc(s, id) == s.tabs[IndexOf(s, id)]
AskedAbout(s) == {s.asks[k].id : k \in DOMAIN s.asks}
                 \cup UNION {ToSet(s.asks[k].rest) :
                               k \in {j \in DOMAIN s.asks : s.asks[j].k = "deleted"}}
FreshId(s) == Min(Ids \ (Open(s) \cup AskedAbout(s)))

\* editorForPath, then imageForPath: the documents already bound to a path.
\* An imported picture is bound to none.
TabsFor(s, p) == SelectSeq(s.tabs, LAMBDA t : t.path = p /\ t.kind = "text")
                 \o SelectSeq(s.tabs, LAMBDA t : t.path = p /\ t.kind = "pim")

(***************************************************************************)
(* DocumentWatcher.                                                        *)
(***************************************************************************)
\* Qt's addPath: a path that is not there is not watched.
Watch(s, p) == IF s.disk[p] # Absent THEN "live" ELSE "none"

\* A path a document was told of, or that no document holds, is no news.
Told(s, P) == [s EXCEPT !.news = @ \ P]

Rearm(s, p) ==
    [s EXCEPT !.watched = @ \cup {p}, !.gone = @ \ {p}, !.events = @ \ {p},
              !.qt[p] = Watch(s, p)]

Forget(s, p) ==
    [s EXCEPT !.watched = @ \ {p}, !.gone = @ \ {p}, !.events = @ \ {p},
              !.qt[p] = "none"]

\* Fault: everything is watched afresh, and what Qt had to say is lost.
SyncWatched_Afresh(s) ==
    LET wanted == Held(s)
    IN [s EXCEPT !.watched = wanted, !.gone = {}, !.events = {},
                 !.qt = [p \in Paths |-> IF p \in wanted THEN Watch(s, p) ELSE "none"],
                 !.news = @ \cap wanted]

\* setPaths, with the paths of the open documents.
SyncWatched(s) ==
    LET wanted  == Held(s)
        dropped == s.watched \ wanted
        added   == {p \in wanted : s.qt[p] = "none"}
    IN Told([s EXCEPT !.watched = wanted,
                      !.gone = (@ \ added) \cap wanted,
                      !.events = @ \ dropped,
                      !.qt = [p \in Paths |-> CASE p \in dropped -> "none"
                                                [] p \in added -> Watch(s, p)
                                                [] OTHER -> s.qt[p]]],
            Paths \ wanted)

(***************************************************************************)
(* Saving.                                                                 *)
(***************************************************************************)
\* Fault: a write that did not reach the disk passes for one.
Replace_Unflushed(s, p, data, noted) == [s EXCEPT !.news = @ \ {p}]

\* The staged rename of files::write: the watch stays on the file replaced, and
\* whether Qt says so is its own business.
Replace(s, p, data, noted) ==
    [s EXCEPT !.disk[p] = data, !.news = @ \ {p},
              !.qt[p] = IF @ = "live" THEN "stale" ELSE @,
              !.events = IF noted /\ s.qt[p] # "none" THEN @ \cup {p} ELSE @]

\* Two tabs on one file: what one writes, the other does not have, and the tab
\* that closes first takes the way back into the image.
Unsettle(s, p) ==
    [s EXCEPT !.foreign = @ \cup {p},
              !.tabs = [i \in DOMAIN @ |-> IF @[i].path = p
                                          THEN [@[i] EXCEPT !.entry = NoEntry] ELSE @[i]]]
Shares(s, id, p) ==
    IF \E t \in ToSet(s.tabs) : t.id # id /\ t.path = p
    THEN Unsettle(s, p)
    ELSE [s EXCEPT !.foreign = @ \ {p}]

\* writeBackFloppyDoc: the user may refuse the rewrite and the image may fail.
WriteBack(s, p, done) ==
    IF s.floppyDocs[p] = NoEntry \/ ~done THEN s
    ELSE [s EXCEPT !.image[s.floppyDocs[p]] = s.disk[p]]

\* Fault: the watch is trusted to have survived.
SaveTo_NoRearm(s, id, p, noted, done) ==
    LET i == IndexOf(s, id)
        t == s.tabs[i]
        b == [t EXCEPT !.path = p, !.modified = FALSE, !.kind = lang[p],
                          !.entry = IF p = t.path THEN @ ELSE NoEntry]
        w == Replace(s, p, t.text, noted)
        n == [w EXCEPT !.tabs[i] = IF p = t.of THEN t ELSE b]
    IN WriteBack(SyncWatched(Shares(n, id, p)), p, done)

\* saveEditor and saveImage, when the write succeeds.
SaveTo(s, id, p, noted, done) ==
    LET i == IndexOf(s, id)
        t == s.tabs[i]
        \* Onto the sheet's own path the sheet is recomposed and the document
        \* stays what it was; onto any other it is bound to the path.
        b == [t EXCEPT !.path = p, !.modified = FALSE, !.kind = lang[p],
                          !.entry = IF p = t.path THEN @ ELSE NoEntry]
        w == Replace(s, p, t.text, noted)
        n == [w EXCEPT !.tabs[i] = IF p = t.of THEN t ELSE b]
    IN WriteBack(SyncWatched(Rearm(Shares(n, id, p), p)), p, done)

\* What Qt and the floppy image may do to a save at p; FALSE where nothing can.
Noted(p) == IF qt[p] = "none" THEN {FALSE} ELSE BOOLEAN
Done(p) == IF floppyDocs[p] = NoEntry THEN {FALSE} ELSE BOOLEAN

\* Where a document may be saved as a copy.
Targets(t) == IF t.kind = "text" THEN {p \in Paths : lang[p] = "text"}
              ELSE {p \in Paths : lang[p] = "pim" \/ p = t.of}

(***************************************************************************)
(* Closing.                                                                *)
(***************************************************************************)
\* Fault: with one tab the write-back of them all goes.
RemoveTab_ClearsMap(s, index, id) ==
    LET keep == {j \in DOMAIN s.tabs : j # index /\ s.tabs[j].id # id}
        left == [s EXCEPT
                   !.tabs = [k \in 1 .. Cardinality(keep) |->
                               s.tabs[CHOOSE j \in keep :
                                        Cardinality({m \in keep : m <= j}) = k]],
                   !.floppyDocs = [p \in Paths |-> NoEntry],
                   !.moved = @ \/ \E k \in DOMAIN s.asks :
                                     s.asks[k].k = "unsaved" /\ s.asks[k].id # id]
    IN SyncWatched(left)

\* The end of closeTab: the tab at `index' is removed, the widget that was
\* asked about is deleted, and its path's write-back goes with it.
RemoveTab(s, index, id) ==
    LET path == Doc(s, id).path
        keep == {j \in DOMAIN s.tabs : j # index /\ s.tabs[j].id # id}
        left == [s EXCEPT
                   !.tabs = [k \in 1 .. Cardinality(keep) |->
                               s.tabs[CHOOSE j \in keep :
                                        Cardinality({m \in keep : m <= j}) = k]],
                   !.floppyDocs = [p \in Paths |-> IF p = path THEN NoEntry ELSE @[p]],
                   !.moved = @ \/ \E k \in DOMAIN s.asks :
                                     s.asks[k].k = "unsaved" /\ s.asks[k].id # id]
    IN SyncWatched(left)

Push(s, a) == [s EXCEPT !.asks = Append(@, a)]
Pop(s) == [s EXCEPT !.asks = Front(@)]
Agree(s, id) == [s EXCEPT !.agreed = @ \cup {id}]
Crash(s) == [s EXCEPT !.up = "crashed"]

\* closeTab, up to the question.
CloseTab(s, index, next) ==
    LET t == s.tabs[index] IN
    IF t.modified
    THEN Push(s, [k |-> "unsaved", id |-> t.id, index |-> index, next |-> next])
    ELSE RemoveTab(s, index, t.id)

\* maybeSave: the offer for every tab from `from' on, and then the window
\* closes.
QuitFrom(s, from) ==
    LET due == {j \in DOMAIN s.tabs : j >= from /\ s.tabs[j].modified} IN
    IF due = {} THEN [s EXCEPT !.up = "quit"]
    ELSE Push(s, [k |-> "unsaved", id |-> s.tabs[Min(due)].id,
                  index |-> Min(due), next |-> "quit"])

(***************************************************************************)
(* A file that is gone.                                                    *)
(***************************************************************************)
\* Fault: a deliberate delete takes the tab whatever it holds.
RescueEach_Deliberate(s, docs, p, deliberate) ==
    LET asked(k) == ~deliberate
        due == {k \in DOMAIN docs : asked(k)}
        n == IF due = {} THEN Len(docs) + 1 ELSE Min(due)
        closed == FoldLeft(LAMBDA w, id : RemoveTab(w, IndexOf(w, id), id),
                           s, SubSeq(docs, 1, n - 1))
    IN IF ToSet(docs) \subseteq Open(s)
       THEN IF due = {} THEN closed
            ELSE Push(closed, [k |-> "deleted", id |-> docs[n], path |-> p,
                               rest |-> SubSeq(docs, n + 1, Len(docs)),
                               deliberate |-> deliberate])
       ELSE Crash(s)

\* The loop of documentVanished over the documents still to see: an unmodified
\* one goes with a deliberate delete, another is asked about.
RescueEach(s, docs, p, deliberate) ==
    LET asked(k) == ~deliberate \/ Doc(s, docs[k]).modified
        due == {k \in DOMAIN docs : asked(k)}
        n == IF due = {} THEN Len(docs) + 1 ELSE Min(due)
        closed == FoldLeft(LAMBDA w, id : RemoveTab(w, IndexOf(w, id), id),
                           s, SubSeq(docs, 1, n - 1))
    IN IF ToSet(docs) \subseteq Open(s)
       THEN IF due = {} THEN closed
            ELSE Push(closed, [k |-> "deleted", id |-> docs[n], path |-> p,
                               rest |-> SubSeq(docs, n + 1, Len(docs)),
                               deliberate |-> deliberate])
       ELSE Crash(s)

DocumentVanished(s, p, deliberate) ==
    LET docs == TabsFor(s, p)
    IN RescueEach(Told(Forget(s, p), {p}), [k \in DOMAIN docs |-> docs[k].id], p, deliberate)

\* The watcher's slot for Qt's fileChanged.  Qt drops a watch whose file is gone.
FileChanged(s, p) ==
    LET t == [s EXCEPT !.events = @ \ {p},
                       !.qt[p] = IF @ = "stale" THEN "none" ELSE @]
    IN CASE p \notin s.watched -> t
         [] p \in s.watched /\ s.disk[p] # Absent ->
              [t EXCEPT !.gone = @ \ {p},
                        !.qt[p] = IF @ = "none" THEN "live" ELSE @]
         [] p \in s.watched /\ s.disk[p] = Absent /\ p \in s.gone ->
              [t EXCEPT !.qt[p] = "none"]
         [] OTHER -> DocumentVanished([t EXCEPT !.qt[p] = "none", !.gone = @ \cup {p}],
                                      p, FALSE)

-----------------------------------------------------------------------------

Commit(s) ==
    /\ up = "up" /\ Len(s.asks) <= MaxDepth /\ Len(s.tabs) <= MaxTabs
    /\ UNCHANGED lang /\ tabs' = s.tabs /\ asks' = s.asks /\ disk' = s.disk /\ image' = s.image
    /\ floppyDocs' = s.floppyDocs /\ watched' = s.watched /\ gone' = s.gone
    /\ qt' = s.qt /\ events' = s.events /\ up' = s.up /\ version' = s.version
    /\ outside' = s.outside /\ agreed' = s.agreed /\ moved' = (s.moved /\ s.asks # <<>>)
    /\ foreign' = s.foreign \cap Held(s) /\ news' = s.news

Quiet == asks = <<>>

(***************************************************************************)
(* Opening.                                                                *)
(***************************************************************************)
\* Fault: the tab replaces the one whose place it takes.
AddTab_SameId(s, p, e) ==
    LET t == [id |-> 1,
              kind |-> IF lang[p] = "still" THEN "sheet" ELSE lang[p],
              path |-> IF lang[p] = "still" THEN NoPath ELSE p,
              of |-> IF lang[p] = "still" THEN p ELSE NoPath,
              entry |-> e, text |-> s.disk[p], modified |-> FALSE]
        w == [s EXCEPT !.agreed = @ \ {t.id}]
    IN SyncWatched(Shares([w EXCEPT !.tabs = Append(@, t)], t.id, t.path))

\* addEditorTab and addImageTab, of a file that is there.
AddTab(s, p, e) ==
    LET t == [id |-> FreshId(s),
              kind |-> IF lang[p] = "still" THEN "sheet" ELSE lang[p],
              path |-> IF lang[p] = "still" THEN NoPath ELSE p,
              of |-> IF lang[p] = "still" THEN p ELSE NoPath,
              entry |-> e, text |-> s.disk[p], modified |-> FALSE]
        w == [s EXCEPT !.agreed = @ \ {t.id}]
    IN SyncWatched(Shares([w EXCEPT !.tabs = Append(@, t)], t.id, t.path))

\* openPath: a document already open is raised, not loaded again.
OpenPath(s, p) ==
    IF TabsFor(s, p) # <<>> \/ s.disk[p] = Absent THEN s ELSE AddTab(s, p, NoEntry)

Open_(p) == Len(tabs) < MaxTabs /\ Commit(OpenPath(World, p))

\* openFloppyEntry: the entry is written beside the session and opened there.
OpenEntry(e) ==
    LET p == Extract[e] IN
    /\ Quiet /\ Len(tabs) < MaxTabs
    /\ \A t \in ToSet(tabs) : t.path = p => t.kind # "text"
    /\ Commit([AddTab(Replace(World, p, image[e], FALSE), p, e)
                 EXCEPT !.floppyDocs[p] = e])

\* newImageIn, onto a file that may be there and may be open.
NewImage(p) ==
    /\ Quiet /\ lang[p] = "pim" /\ version < MaxEdits /\ Len(tabs) < MaxTabs
    /\ LET s == [Replace(World, p, version + 1, FALSE) EXCEPT !.version = @ + 1]
           open == TabsFor(s, p)
       IN IF open = <<>> THEN Commit(AddTab(s, p, NoEntry))
          ELSE LET i == IndexOf(s, open[1].id)
               IN Commit([s EXCEPT !.tabs[i].text = version + 1,
                                   !.tabs[i].modified = FALSE,
                                   !.foreign = @ \cup {p}])

(***************************************************************************)
(* Editing, saving and closing.                                            *)
(***************************************************************************)
Edit(i) ==
    /\ Quiet /\ version < MaxEdits
    /\ Commit([World EXCEPT !.tabs[i].text = version + 1, !.tabs[i].modified = TRUE,
                            !.version = @ + 1])

\* saveFile and saveCurrentDocument; the second comes from a remote client and
\* does not wait for a question to be answered.
Save(i) ==
    /\ tabs[i].path # NoPath
    /\ \E noted \in Noted(tabs[i].path), done \in Done(tabs[i].path) :
         Commit(SaveTo(World, tabs[i].id, tabs[i].path, noted, done))

\* saveFile of a document without a path, which asks for one.
SaveAs(i) ==
    /\ Quiet /\ tabs[i].path = NoPath
    /\ \E p \in Targets(tabs[i]) : \E noted \in Noted(p), done \in Done(p) :
         Commit(SaveTo(World, tabs[i].id, p, noted, done))

\* exportSpriteSheetTo, onto the sheet's own file.
ExportSheet(i) ==
    /\ Quiet /\ tabs[i].kind = "sheet"
    /\ LET p == tabs[i].of IN
       \E done \in Done(p) :
         Commit(WriteBack(Replace(World, p, tabs[i].text, FALSE), p, done))

Close(i) == Quiet /\ Commit(CloseTab(World, i, "close"))

\* closeAllFiles, from the tab that is current: Qt raises the tab to the right
\* of the one removed and, when there is none, the last.
CloseAllFrom(s, cur) ==
    LET n == Len(s.tabs)
        order == [k \in 1 .. n |-> s.tabs[IF k <= n - cur + 1 THEN cur + k - 1
                                          ELSE n - k + 1]]
        due == {k \in DOMAIN order : order[k].modified}
        m == IF due = {} THEN n + 1 ELSE Min(due)
        left == FoldLeft(LAMBDA w, t : RemoveTab(w, IndexOf(w, t.id), t.id),
                         s, SubSeq(order, 1, m - 1))
    IN IF due = {} THEN left
       ELSE CloseTab(left, IndexOf(left, order[m].id), "closeAll")

CloseAll == Quiet /\ \E c \in DOMAIN tabs : Commit(CloseAllFrom(World, c))

Quit == Quiet /\ Commit(QuitFrom(World, 1))

(***************************************************************************)
(* Answers.                                                                *)
(***************************************************************************)
\* What is done once the question about unsaved work is answered with yes or
\* no: the caller goes on with the index it had.
Released(s, a) ==
    CASE a.next = "close" -> {RemoveTab(s, a.index, a.id)}
      [] a.next = "quit" -> {QuitFrom(s, a.index + 1)}
      [] OTHER -> LET left == RemoveTab(s, a.index, a.id)
                  IN IF left.tabs = <<>> THEN {left}
                     ELSE {CloseAllFrom(left, c) : c \in DOMAIN left.tabs}

AnswerUnsaved ==
    /\ asks # <<>> /\ Last(asks).k = "unsaved"
    /\ LET a == Last(asks)
           s == Pop(World)
           yes == Agree(s, a.id)
       IN \/ Commit(s)                                       \* Cancel, or no write
          \/ a.id \notin Open(s) /\ Commit(Crash(s))
          \/ /\ a.id \in Open(s)
             /\ \E r \in Released(yes, a) : Commit(r)          \* Discard
          \/ /\ a.id \in Open(s)
             /\ LET t == Doc(s, a.id) IN
                \E p \in IF t.path = NoPath THEN Targets(t) ELSE {t.path} :
                \E noted \in Noted(p), done \in Done(p) :
                  \E r \in Released(SaveTo(yes, a.id, p, noted, done), a) : Commit(r)

AnswerDeleted ==
    /\ asks # <<>> /\ Last(asks).k = "deleted"
    /\ LET a == Last(asks)
           s == Pop(World)
           On(w) == Commit(RescueEach(w, a.rest, a.path, a.deliberate))
       IN \/ On(s)                                           \* Cancel, or no write
          \/ /\ a.id \in Open(s)                             \* Close tab
             /\ On(RemoveTab(Agree(s, a.id), IndexOf(s, a.id), a.id))
          \/ /\ a.id \in Open(s)                             \* Save a copy
             /\ \E p \in Targets(Doc(s, a.id)) :
                \E noted \in Noted(p), done \in Done(p) :
                  On(SaveTo(s, a.id, p, noted, done))
          \/ a.id \notin Open(s) /\ Commit(Crash(s))         \* a copy of no document

(***************************************************************************)
(* The disk: the sidebar's gestures, other programs and Qt's reports.      *)
(***************************************************************************)
\* The file is no more the one Qt watched.
Disturb(s, p) ==
    [s EXCEPT !.qt[p] = IF @ = "live" THEN "stale" ELSE @,
              !.events = IF s.qt[p] # "none" THEN @ \cup {p} ELSE @]

SidebarDelete(p) ==
    /\ Quiet /\ disk[p] # Absent
    /\ Commit(DocumentVanished([Disturb(World, p) EXCEPT !.disk[p] = Absent,
                                                         !.foreign = @ \cup {p}],
                               p, TRUE))

\* onModelPathRenamed and followRenamedFile.
SidebarRename(p, q) ==
    /\ Quiet /\ lang[p] = lang[q] /\ disk[p] # Absent /\ disk[q] = Absent
    /\ LET s == [Disturb(World, p) EXCEPT
                   !.disk = [@ EXCEPT ![q] = disk[p], ![p] = Absent],
                   !.news = @ \ {q},
                   !.foreign = IF p \in @ THEN @ \cup {q} ELSE (@ \ {q}) \cup {p}]
           t == IF q \in Held(s) THEN Unsettle(s, q) ELSE s
       IN Commit(SyncWatched(
            [t EXCEPT !.tabs = [i \in DOMAIN @ |->
                                  IF @[i].path = p THEN [@[i] EXCEPT !.path = q,
                                                           !.entry = NoEntry] ELSE @[i]]]))

OutsideDelete(p) ==
    /\ outside < MaxOutside /\ disk[p] # Absent
    /\ Commit([Disturb(World, p) EXCEPT
                 !.disk[p] = Absent, !.outside = @ + 1, !.foreign = @ \cup {p},
                 !.news = IF qt[p] = "live" /\ p \in Held(World) THEN @ \cup {p} ELSE @])

\* Another program creates the file, or replaces it.
OutsideWrite(p) ==
    /\ outside < MaxOutside /\ version < MaxEdits
    /\ Commit([Disturb(World, p) EXCEPT
                 !.disk[p] = version + 1, !.version = @ + 1, !.outside = @ + 1,
                 !.foreign = @ \cup {p}, !.news = @ \ {p}])

Deliver(p) == p \in events /\ Commit(FileChanged(World, p))
-----------------------------------------------------------------------------
Init ==
    /\ lang \in Langs
    /\ tabs = <<>> /\ asks = <<>> /\ events = {} /\ up = "up"
    /\ disk = [p \in Paths |-> IF p \in OnDisk THEN 1 ELSE Absent]
    /\ image = [e \in Entries |-> 1]
    /\ floppyDocs = [p \in Paths |-> NoEntry]
    /\ watched = {} /\ gone = {} /\ qt = [p \in Paths |-> "none"]
    /\ version = 1 /\ outside = 0 /\ agreed = {} /\ moved = FALSE
    /\ foreign = {} /\ news = {}

Next ==
    \/ \E p \in Paths : Open_(p) \/ NewImage(p) \/ SidebarDelete(p)
    \/ \E e \in Entries : OpenEntry(e)
    \/ \E i \in DOMAIN tabs : Edit(i) \/ Save(i) \/ SaveAs(i) \/ ExportSheet(i) \/ Close(i)
    \/ CloseAll \/ Quit \/ AnswerUnsaved \/ AnswerDeleted
    \/ \E p, q \in Paths : SidebarRename(p, q)
    \/ \E p \in Paths : OutsideDelete(p) \/ OutsideWrite(p) \/ Deliver(p)

Spec == Init /\ [][Next]_vars
-----------------------------------------------------------------------------
\* The state has its type; no two tabs are one document.
TypeOK ==
    /\ ToSet(tabs) \subseteq Document
    /\ \A i, j \in DOMAIN tabs : tabs[i].id = tabs[j].id => i = j
    /\ \A k \in DOMAIN asks : asks[k].id \in Ids
    /\ disk \in [Paths -> Nat] /\ image \in [Entries -> Nat]
    /\ floppyDocs \in [Paths -> Entries \cup {NoEntry}]
    /\ watched \subseteq Paths /\ gone \subseteq Paths /\ events \subseteq Paths
    /\ qt \in [Paths -> {"none", "live", "stale"}]

\* A tab that shows no unsaved mark shows what is on the disk, through every
\* save, rename, deletion and recreation, unless another program or a second tab
\* on the file has changed it since.
CleanMatchesDisk ==
    \A t \in ToSet(tabs) :
      t.path # NoPath /\ ~t.modified /\ t.path \notin foreign => disk[t.path] = t.text

\* A watched file that went away under its tab and has not been reported is on
\* its way to be: Qt holds the report, and the watcher will not drop it as one
\* for a path it has let go of or has already reported.
NewsIsOnItsWay ==
    \A p \in news : up = "up" => p \in events /\ p \in watched /\ p \notin gone

\* After the window's own writes, which replace the file, Qt watches the file
\* that is there and not the one replaced: the next deletion will be seen.
OwnWriteIsWatched ==
    \A p \in Held(World) \ foreign : disk[p] # Absent => qt[p] = "live"

\* While a tab holds a file taken out of the floppy image, a save of it finds its
\* way back into the entry it came from: closing, rescuing or reopening other
\* tabs takes the entry from no tab that needs it.
RegistryServesItsTab ==
    \A t \in ToSet(tabs) :
      t.entry # NoEntry /\ Extract[t.entry] \in {t.path, t.of} \ foreign
        => floppyDocs[Extract[t.entry]] = t.entry

\* Tabs, disk, watcher and floppy registry tell one story, through every save,
\* rename and deletion: all of the four above.
TabsAndDiskAgree ==
    CleanMatchesDisk /\ NewsIsOnItsWay /\ OwnWriteIsWatched /\ RegistryServesItsTab

\* The documents a step drops with their unsaved changes, by closing the tab or
\* the window.
LeftBehind == {t \in ToSet(tabs) : t.modified
                 /\ (up' = "quit" \/ t.id \notin {u.id : u \in ToSet(tabs')})}

\* Unsaved work goes only when the user, asked about that document, lets it go.
\* The index of a tab is kept across the question, so this fails when another
\* question, inside, has closed a tab to its left.
NothingIsLostUnasked ==
    [][up' # "crashed" => \A t \in LeftBehind : t.id \in agreed']_vars

\* The same, while no tab went under the question.
NothingIsLostUnlessMoved ==
    [][up' # "crashed" /\ ~moved /\ ~moved'
         => \A t \in LeftBehind : t.id \in agreed']_vars

\* No document is deleted while a question about it is open.  It may be: the
\* deletion of its file asks a second question on top of the first.
AskedDocumentsAreOpen == up # "crashed"
=============================================================================

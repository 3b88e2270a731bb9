------------------------------- MODULE Floppy -------------------------------
(***************************************************************************)
(* Writing to floppy images: floppy::Transfer (build/FloppyTransfer.cpp),  *)
(* the image rewriter it calls (floppy::updateImage and writeImage in      *)
(* build/FloppyImage.cpp) and the browser's half of a move                 *)
(* (ui/FileBrowser.cpp).                                                   *)
(*                                                                         *)
(* A name is a pair <<stem, n>>: n is the number the writer appended to    *)
(* keep 8.3 names apart, or, when negative, the " (2)" of a host copy.     *)
(* A path is a sequence of names; a disk is the sequence of its directory  *)
(* entries, a folder before what it holds.  "bad" is a cluster chain that  *)
(* does not yield what its entry declares.  A file's data is a token: the  *)
(* properties only ask where the bytes are.                                *)
(***************************************************************************)
EXTENDS Integers, Sequences, FiniteSets, SequencesExt

CONSTANTS
    None,           \* no image, no file, no data (a model value)
    Images,         \* image files on the host disk
    Initial,        \* the [images, backup] a run starts from: what an earlier run left
    Foreign,        \* disks another program may put in an image's place
    HostInitial,    \* the host files at the start
    HostSaves,      \* tokens another program may save into a host file
    Short,          \* stem -> the stem name11FromHost gives it
    Fold,           \* stem -> its case-insensitive form
    Dirs,           \* image directories a transfer may be dropped on
    NewNames,       \* names the user may type
    kRootEntries, kMaxDataClusters,  \* what fits on a disk
    MaxNumber,      \* the last number uniqueName11 tries
    MaxChosen, MaxOps, MaxEnv, MaxFaults  \* bounds of the model

VARIABLES
    images,     \* image file -> disk, or None when no file has that name
    backup,     \* image file -> the ".pist-*.bak" beside it, or None
    canonical,  \* images that carry the boot sector PiST writes
    mounted,    \* FileBrowser::m_floppyPath
    host,       \* host files: [path, isDir, data, hidden]
    op,         \* the transfer under way
    outcome,    \* how the last one ended
    before,     \* ghost: what each image held once the questions were answered
    owed,       \* ghost: tokens nobody asked to delete or overwrite
    unread,     \* ghost: tokens a completed move took off without reading them
    ops, envs, faults

vars == <<images, backup, canonical, mounted, host, op, outcome, before, owed, unread,
          ops, envs, faults>>
ghosts == <<before, owed, unread>>

Drives == {0, 1}
Entry(path, isDir, data, bad) == [path |-> path, isDir |-> isDir, data |-> data, bad |-> bad]
Item(path, isDir, data) == [path |-> path, isDir |-> isDir, data |-> data]
HostFile(path, isDir, data, hidden) ==
    [path |-> path, isDir |-> isDir, data |-> data, hidden |-> hidden]
Idle == [stage |-> "idle"]

-----------------------------------------------------------------------------
(* Names and paths                                                         *)

FoldPath(p) == [k \in DOMAIN p |-> <<Fold[p[k][1]], p[k][2]>>]

(* The 8.3 name a host spelling is written with. *)
Name11FromHost(name) == <<Short[name[1]], name[2]>>

ImageDestination(dir, path) == dir \o path

Below(p, root) == Len(p) > Len(root) /\ SubSeq(p, 1, Len(root)) = root
(* The writer's rule for removals: an entry and everything below it, whatever the case. *)
WithinFolded(p, root) ==
    Len(p) >= Len(root) /\ FoldPath(SubSeq(p, 1, Len(root))) = FoldPath(root)

Numbered(name, n) == <<name[1], IF name[2] > 0 THEN 10 * name[2] + n ELSE n>>

(* The first free spelling of `name`, or None after the last number. *)
UniqueName11(name, used) ==
    LET free == {n \in 1..MaxNumber : Numbered(name, n) \notin used}
    IN  IF name \notin used THEN name
        ELSE IF free = {} THEN None
        ELSE Numbered(name, CHOOSE n \in free : \A m \in free : n <= m)

(* A fresh host path for `name` in `dir`: " (2)", " (3)"... when it is taken. *)
UniqueHostDestination(files, dir, name) ==
    LET taken == {f.path : f \in files}
        spelt(n) == Append(dir, IF n = 1 THEN name ELSE <<name[1], -(100 * name[2] + n)>>)
        free == {n \in 1..(Cardinality(files) + 1) : spelt(n) \notin taken}
    IN  spelt(CHOOSE n \in free : \A m \in free : n <= m)

-----------------------------------------------------------------------------
(* Reading a disk                                                          *)

(* The walk leaves a folder whose chain is damaged listed but unexpanded. *)
ListRaw(disk) ==
    SelectSeq(disk, LAMBDA e : \A k \in DOMAIN disk :
        disk[k].isDir /\ disk[k].bad => ~Below(e.path, disk[k].path))

SubtreeOf(entries, root) == SelectSeq(entries, LAMBDA e : WithinFolded(e.path, root))

(* A file by its path: the first entry of that name, or None when there is none to read. *)
ReadFileRaw(disk, path) ==
    LET hits == SelectSeq(ListRaw(disk), LAMBDA e : FoldPath(e.path) = FoldPath(path))
    IN  IF hits = <<>> THEN None
        ELSE IF hits[1].isDir \/ hits[1].bad THEN None ELSE hits[1].data

(* The check compares the entries' parent with dir + "/", which only the root's "" equals. *)
DirectoryHas(entries, dir, name) ==
    /\ dir = <<>>
    /\ \E k \in DOMAIN entries : entries[k].path = <<Name11FromHost(name)>>

(* What a host path contributes: itself and everything below it, hidden files below the
   top left out, each relative to the path's own parent. *)
CollectHostItems(files, path) ==
    LET members == {f \in files : f.path = path \/ (Below(f.path, path) /\ ~f.hidden)}
        rebased == {Item(SubSeq(f.path, Len(path), Len(f.path)), f.isDir, f.data) : f \in members}
    IN  SetToSortSeq(rebased, LAMBDA a, b : Len(a.path) < Len(b.path))

-----------------------------------------------------------------------------
(* Rebuilding a disk                                                       *)

(* One component of an item's path: reuse the folder of that name, refuse a collision of a
   file with a folder, number a second file of the same name. *)
InsertComponent(tree, item, k, carried) ==
    LET prefix == SubSeq(item.path, 1, k)
        wanted == IF prefix \in carried THEN item.path[k] ELSE Name11FromHost(item.path[k])
        wantDir == k < Len(item.path) \/ item.isDir
        at == Append(tree.dir, wanted)
        here == {e \in Range(tree.disk) : Len(e.path) = Len(at) /\ Front(e.path) = tree.dir}
        existing == {e \in here : e.path = at}
        name == UniqueName11(wanted, {Last(e.path) : e \in here})
        added == Append(tree.dir, name)
    IN  CASE ~tree.ok -> tree
          [] tree.ok /\ existing # {} /\ wantDir /\ (\E e \in existing : e.isDir) ->
                [tree EXCEPT !.dir = at]
          [] tree.ok /\ (\E e \in existing : e.isDir # wantDir) -> [tree EXCEPT !.ok = FALSE]
          [] tree.ok /\ (\A e \in existing : ~e.isDir /\ ~wantDir) /\ name = None ->
                [tree EXCEPT !.ok = FALSE]
          [] OTHER ->
                [tree EXCEPT !.dir = added,
                             !.disk = Append(@, Entry(added, wantDir,
                                                      IF wantDir THEN None ELSE item.data, FALSE))]

InsertItem(tree, item, carried) ==
    FoldLeft(LAMBDA t, k : InsertComponent(t, item, k, carried),
             [tree EXCEPT !.dir = <<>>], [k \in 1..Len(item.path) |-> k])

(* writeImage: the tree the items make, or a refusal. *)
WriteImage(items, carried) ==
    LET tree == FoldLeft(LAMBDA t, item : InsertItem(t, item, carried),
                         [ok |-> TRUE, disk |-> <<>>, dir |-> <<>>], items)
        root == {k \in DOMAIN tree.disk : Len(tree.disk[k].path) = 1}
    IN  [tree EXCEPT !.ok = /\ @
                            /\ Cardinality(root) <= kRootEntries
                            /\ Len(tree.disk) <= kMaxDataClusters]

Refused == [ok |-> FALSE, disk |-> <<>>, dir |-> <<>>]

(* Fault: the walk's tolerance is the rewriter's: an unexpanded folder is carried as it is. *)
UpdateImage_Tolerant(disk, additions, removals) ==
    LET kept == SelectSeq(ListRaw(disk), LAMBDA e :
                    \A k \in DOMAIN removals : ~WithinFolded(e.path, removals[k]))
        items == [k \in DOMAIN kept |-> Item(kept[k].path, kept[k].isDir, kept[k].data)]
    IN  IF disk = None THEN Refused
        ELSE WriteImage(items \o additions, {kept[k].path : k \in DOMAIN kept})

(* Fault: what a carried file holds is looked up by its name. *)
UpdateImage_ByName(disk, additions, removals) ==
    LET kept == SelectSeq(ListRaw(disk), LAMBDA e :
                    \A k \in DOMAIN removals : ~WithinFolded(e.path, removals[k]))
        items == [k \in DOMAIN kept |-> Item(kept[k].path, kept[k].isDir,
                                             ReadFileRaw(disk, kept[k].path))]
    IN  IF disk = None THEN Refused
        ELSE IF \E k \in DOMAIN kept : kept[k].bad THEN Refused
        ELSE WriteImage(items \o additions, {kept[k].path : k \in DOMAIN kept})

(* The disk updateImage stages: the entries it keeps, each with its own bytes and its raw
   name, then the additions.  One damaged entry among those kept refuses the whole update. *)
UpdateImage(disk, additions, removals) ==
    LET kept == SelectSeq(ListRaw(disk), LAMBDA e :
                    \A k \in DOMAIN removals : ~WithinFolded(e.path, removals[k]))
        items == [k \in DOMAIN kept |-> Item(kept[k].path, kept[k].isDir, kept[k].data)]
    IN  IF disk = None THEN Refused
        ELSE IF \E k \in DOMAIN kept : kept[k].bad THEN Refused
        ELSE WriteImage(items \o additions, {kept[k].path : k \in DOMAIN kept})

-----------------------------------------------------------------------------
(* Ghosts                                                                  *)

TokensOf(disk) == IF disk = None THEN {} ELSE {disk[k].data : k \in DOMAIN disk} \ {None}
TokensBelow(disk, roots) ==
    TokensOf(SelectSeq(disk, LAMBDA e : \E k \in DOMAIN roots : WithinFolded(e.path, roots[k])))
TokensIn(items) == {items[k].data : k \in DOMAIN items} \ {None}
HostTokens(files) == {f.data : f \in files} \ {None}
Held(i) == IF images[i] # None THEN images[i] ELSE backup[i]
Alive == HostTokens(host) \cup UNION {TokensOf(images[i]) \cup TokensOf(backup[i]) : i \in Images}

-----------------------------------------------------------------------------
Init ==
    /\ \E start \in Initial : images = start.images /\ backup = start.backup
    /\ canonical = {}
    /\ mounted \in {[d \in Drives |-> IF d = 0 THEN i ELSE j] : i, j \in Images}
    /\ host = HostInitial
    /\ op = Idle
    /\ outcome = "Invalid"
    /\ before = images
    /\ owed = Alive
    /\ unread = {}
    /\ ops = 0 /\ envs = 0 /\ faults = 0

Begin(o, targets) ==
    /\ op = Idle /\ ops < MaxOps
    /\ op' = o @@ [stage |-> "ask", targets |-> targets, asked |-> 0, yes |-> {},
                   todo |-> <<>>, staged |-> <<>>, unread |-> {}]
    /\ ops' = ops + 1
    /\ UNCHANGED <<images, backup, canonical, mounted, host, outcome, ghosts, envs, faults>>

Target(d) == [drive |-> d, image |-> mounted[d]]
(* Rows of the pane: one entry, or two of them. *)
Selections(disk) ==
    LET paths == {e.path : e \in Range(ListRaw(disk))}
    IN  {<<p>> : p \in paths}
        \cup (IF MaxChosen < 2 THEN {} ELSE {<<p, q>> : p \in paths, q \in paths})
Shown(d) == IF mounted[d] = None THEN None ELSE images[mounted[d]]

(* Transfer::hostToImage up to the question: the host files are read first. *)
HostToImage ==
    \E d \in Drives, dir \in Dirs, move \in BOOLEAN, f \in host :
        /\ mounted[d] # None
        /\ Len(f.path) = 1
        /\ LET collected == CollectHostItems(host, f.path)
           IN  Begin([kind |-> "hostToImage", drive |-> d, move |-> move, from |-> f.path,
                      items |-> [k \in DOMAIN collected |->
                          [collected[k] EXCEPT !.path = ImageDestination(dir, @)]]],
                     <<Target(d)>>)

(* Transfer::imageToHost: only a move rewrites the image, so only a move asks. *)
ImageToHost ==
    \E d \in Drives, move \in BOOLEAN :
        /\ Shown(d) # None
        /\ \E chosen \in Selections(Shown(d)) :
            Begin([kind |-> "imageToHost", drive |-> d, move |-> move, chosen |-> chosen],
                  IF move THEN <<Target(d)>> ELSE <<>>)

(* Fault: only the disk the entries arrive on is asked about. *)
Targets_TargetOnly(s, d, move) == <<Target(d)>>
(* Every disk imageToImage is going to rewrite, the target first. *)
Targets(s, d, move) ==
    IF mounted[s] # mounted[d] /\ move THEN <<Target(d), Target(s)>> ELSE <<Target(d)>>

ImageToImage ==
    \E s \in Drives, d \in Drives, dir \in Dirs, move \in BOOLEAN :
        /\ Shown(s) # None /\ mounted[d] # None
        /\ \E chosen \in Selections(Shown(s)) :
            Begin([kind |-> "imageToImage", source |-> s, drive |-> d, move |-> move, dir |-> dir,
                   chosen |-> chosen, sourceImage |-> mounted[s]],
                  Targets(s, d, move))

RemoveEntries ==
    \E d \in Drives :
        /\ Shown(d) # None
        /\ \E chosen \in Selections(Shown(d)) :
            Begin([kind |-> "removeEntries", drive |-> d, chosen |-> chosen], <<Target(d)>>)

(* Asking for the name it already has is nothing to do. *)
RenameEntry ==
    \E d \in Drives, name \in NewNames :
        /\ Shown(d) # None
        /\ \E e \in Range(ListRaw(Shown(d))) :
            /\ FoldPath(Append(Front(e.path), name)) # FoldPath(e.path)
            /\ Begin([kind |-> "renameEntry", drive |-> d, chosen |-> <<e.path>>, name |-> name],
                     <<Target(d)>>)

MakeDirectory ==
    \E d \in Drives, dir \in Dirs, name \in NewNames :
        /\ mounted[d] # None
        /\ Begin([kind |-> "makeDirectory", drive |-> d, dir |-> dir, name |-> name],
                 <<Target(d)>>)

-----------------------------------------------------------------------------
(* The questions                                                           *)

Asking == op.stage = "ask" /\ op.asked < Len(op.targets)
AskedImage == op.targets[op.asked + 1].image
(* confirmFloppyRewrite says yes by itself to a disk it cannot read and to one PiST wrote. *)
NeedsNoQuestion(i) == images[i] = None \/ i \in canonical
QuestionUp == Asking /\ ~NeedsNoQuestion(AskedImage)

End(result) == op' = Idle /\ outcome' = result

Confirm ==
    /\ Asking
    /\ op' = [op EXCEPT !.asked = @ + 1, !.yes = @ \cup {AskedImage}]
    /\ UNCHANGED <<images, backup, canonical, mounted, host, outcome, ghosts, ops, envs, faults>>

Decline ==
    /\ QuestionUp
    /\ End("Declined")
    /\ UNCHANGED <<images, backup, canonical, mounted, host, ghosts, ops, envs, faults>>

(* While the dialog is up another window, a remote client or another program goes on. *)
DriveChanges ==
    /\ QuestionUp /\ envs < MaxEnv
    /\ \E d \in Drives, i \in Images \cup {None} :
        /\ i # mounted[d]
        /\ mounted' = [mounted EXCEPT ![d] = i]
    /\ envs' = envs + 1
    /\ UNCHANGED <<images, backup, canonical, host, op, outcome, ghosts, ops, faults>>

ImageChanges ==
    /\ QuestionUp /\ envs < MaxEnv
    /\ \E i \in Images, disk \in Foreign :
        /\ images[i] # None
        /\ images' = [images EXCEPT ![i] = disk]
        /\ canonical' = canonical \ {i}
        /\ owed' = (owed \ TokensOf(images[i])) \cup TokensOf(disk)
    /\ envs' = envs + 1
    /\ UNCHANGED <<backup, mounted, host, op, outcome, before, unread, ops, faults>>

HostFileSaved ==
    /\ QuestionUp /\ envs < MaxEnv
    /\ \E f \in host, t \in HostSaves :
        /\ ~f.isDir /\ t \notin owed
        /\ host' = (host \ {f}) \cup {[f EXCEPT !.data = t]}
        /\ owed' = (owed \ {f.data}) \cup {t}
    /\ envs' = envs + 1
    /\ UNCHANGED <<images, backup, canonical, mounted, op, outcome, before, unread, ops, faults>>

Moved == \E k \in DOMAIN op.targets : mounted[op.targets[k].drive] # op.targets[k].image
Answered == op.stage = "ask" /\ op.asked = Len(op.targets)

Resync ==
    /\ Answered /\ Moved
    /\ End("Resynced")
    /\ UNCHANGED <<images, backup, canonical, mounted, host, ghosts, ops, envs, faults>>

-----------------------------------------------------------------------------
(* Load, list, read: what each transfer decides to write                   *)

Write(image, additions, removals) ==
    [image |-> image, additions |-> additions, removals |-> removals]

Ready(kind) == Answered /\ ~Moved /\ op.kind = kind

(* The writes are queued; what they take off without having read it is remembered. *)
Queue(writes, lost) ==
    /\ op' = [op EXCEPT !.stage = "stage", !.todo = writes, !.unread = lost]
    /\ before' = [i \in Images |-> Held(i)]
    /\ UNCHANGED <<images, backup, canonical, mounted, outcome, unread, ops, envs>>
Quit(result) ==
    /\ End(result)
    /\ before' = [i \in Images |-> Held(i)]
    /\ UNCHANGED <<images, backup, canonical, mounted, unread, ops, envs>>

RunHostToImage ==
    /\ Ready("hostToImage")
    /\ Queue(<<Write(op.targets[1].image, op.items, <<>>)>>, {})
    /\ UNCHANGED <<host, owed, faults>>

(* One chosen entry is copied out, its subtree inside a fresh name; the first member that
   cannot be read or written (`broken`) ends that entry. *)
CopyOut(acc, disk, chosen, broken) ==
    LET members == SubtreeOf(ListRaw(disk), chosen)
        target == UniqueHostDestination(acc.files, <<>>, Last(chosen))
        place(m) == target \o SubSeq(m.path, Len(chosen) + 1, Len(m.path))
        put(a, m) ==
            LET data == IF m.isDir THEN None ELSE ReadFileRaw(disk, m.path)
            IN  IF ~a.going THEN a
                ELSE IF m.path = broken \/ (~m.isDir /\ data = None)
                     THEN [a EXCEPT !.going = FALSE, !.ok = FALSE]
                ELSE [a EXCEPT !.files = {f \in @ : f.path # place(m)}
                                         \cup {HostFile(place(m), m.isDir, data, FALSE)},
                               !.read = @ \cup ({data} \ {None}),
                               !.removals = Append(@, m.path)]
    IN  IF members = <<>> THEN [acc EXCEPT !.ok = FALSE]
        ELSE FoldLeft(put, [acc EXCEPT !.going = TRUE], members)

RunImageToHost ==
    /\ Ready("imageToHost")
    /\ LET image == mounted[op.drive]
           disk == IF image = None THEN None ELSE images[image]
       IN  \/ /\ disk = None
              /\ Quit("Unreadable")
              /\ UNCHANGED <<host, owed, faults>>
           \/ /\ disk # None
              /\ \E broken \in {<<>>} \cup {e.path : e \in Range(ListRaw(disk))} :
                  /\ broken # <<>> => faults < MaxFaults
                  /\ faults' = faults + (IF broken # <<>> THEN 1 ELSE 0)
                  /\ LET out == FoldLeft(LAMBDA a, p : CopyOut(a, disk, p, broken),
                                         [files |-> host, ok |-> TRUE, going |-> TRUE,
                                          read |-> {}, removals |-> <<>>],
                                         op.chosen)
                     IN  /\ host' = out.files
                         /\ UNCHANGED owed
                         /\ IF ~out.ok THEN Quit("CopyFailed")
                            ELSE IF op.move /\ out.removals # <<>>
                            THEN Queue(<<Write(image, <<>>, out.removals)>>,
                                       TokensBelow(disk, out.removals) \ out.read)
                            ELSE Quit("Completed")

(* The members of the chosen subtrees, with the bytes read by path. *)
Members(disk, chosen) ==
    FlattenSeq([k \in DOMAIN chosen |-> SubtreeOf(ListRaw(disk), chosen[k])])
Unreadable(disk, members) ==
    \E k \in DOMAIN members : ~members[k].isDir /\ ReadFileRaw(disk, members[k].path) = None

(* A member arrives under its whole path on the source disk. *)
RunImageToImage ==
    /\ Ready("imageToImage")
    /\ LET from == op.sourceImage
           to == op.targets[1].image
           disk == images[from]
           members == Members(disk, op.chosen)
           additions == [k \in DOMAIN members |->
                            Item(ImageDestination(op.dir, members[k].path), members[k].isDir,
                                 IF members[k].isDir THEN None
                                 ELSE ReadFileRaw(disk, members[k].path))]
           removals == IF op.move THEN [k \in DOMAIN members |-> members[k].path] ELSE <<>>
           lost == TokensBelow(disk, removals) \ TokensIn(additions)
       IN  IF from = to /\ \E k \in DOMAIN op.chosen : op.dir = op.chosen[k]
                                                       \/ Below(op.dir, op.chosen[k])
              THEN Quit("DestinationInsideSource")
           ELSE IF disk = None THEN Quit("Unreadable")
           ELSE IF Unreadable(disk, members) THEN Quit("Unreadable")
           ELSE IF additions = <<>> THEN Quit("NothingToCopy")
           ELSE IF from = to THEN Queue(<<Write(to, additions, removals)>>, lost)
           ELSE IF op.move
                THEN Queue(<<Write(to, additions, <<>>), Write(from, <<>>, removals)>>, lost)
           ELSE Queue(<<Write(to, additions, <<>>)>>, {})
    /\ UNCHANGED <<host, owed, faults>>

RunRemoveEntries ==
    /\ Ready("removeEntries")
    /\ LET image == op.targets[1].image
       IN  /\ Queue(<<Write(image, <<>>, op.chosen)>>, {})
           /\ owed' = IF images[image] = None THEN owed
                      ELSE owed \ TokensBelow(images[image], op.chosen)
    /\ UNCHANGED <<host, faults>>

RunRenameEntry ==
    /\ Ready("renameEntry")
    /\ LET image == op.targets[1].image
           disk == images[image]
           entry == op.chosen[1]
           destination == Append(Front(entry), op.name)
           members == Members(disk, op.chosen)
           additions == [k \in DOMAIN members |->
                            Item(destination \o SubSeq(members[k].path, Len(entry) + 1,
                                                       Len(members[k].path)),
                                 members[k].isDir,
                                 IF members[k].isDir THEN None
                                 ELSE ReadFileRaw(disk, members[k].path))]
           removals == [k \in DOMAIN members |-> members[k].path]
       IN  IF disk = None THEN Quit("Unreadable")
           ELSE IF members = <<>> THEN Quit("NothingToCopy")
           ELSE IF DirectoryHas(ListRaw(disk), Front(entry), op.name) THEN Quit("NameTaken")
           ELSE IF Unreadable(disk, members) THEN Quit("Unreadable")
           ELSE Queue(<<Write(image, additions, removals)>>,
                      TokensBelow(disk, removals) \ TokensIn(additions))
    /\ UNCHANGED <<host, owed, faults>>

RunMakeDirectory ==
    /\ Ready("makeDirectory")
    /\ LET image == op.targets[1].image
       IN  IF images[image] = None THEN Quit("Unreadable")
           ELSE IF DirectoryHas(ListRaw(images[image]), op.dir, op.name) THEN Quit("NameTaken")
           ELSE Queue(<<Write(image, <<Item(ImageDestination(op.dir, <<op.name>>), TRUE, None)>>,
                              <<>>)>>, {})
    /\ UNCHANGED <<host, owed, faults>>

-----------------------------------------------------------------------------
(* updateImage's replacement of the file: stage, set aside, replace, drop  *)

Current == Head(op.todo)

UpdateFailed ==
    IF op.kind \in {"hostToImage", "makeDirectory"} THEN "AddFailed"
    ELSE IF op.kind = "imageToHost" THEN "SourceRemovalFailed"
    ELSE IF op.kind = "imageToImage" /\ Current.additions = <<>> THEN "SourceRemovalFailed"
    ELSE "WriteFailed"

(* The browser's half of a move onto a disk: the host paths it copied are deleted. *)
Removed(o) ==
    IF o.kind = "hostToImage"
    THEN IF o.move THEN {f \in host : f.path = o.from \/ Below(f.path, o.from)} ELSE {}
    ELSE {}

StageImage ==
    /\ op.stage = "stage"
    /\ LET staged == UpdateImage(images[Current.image], Current.additions, Current.removals)
       IN  \/ /\ staged.ok
              /\ op' = [op EXCEPT !.stage = "aside", !.staged = staged.disk]
              /\ UNCHANGED <<outcome, faults>>
           \/ /\ ~staged.ok
              /\ End(UpdateFailed)
              /\ UNCHANGED faults
           \/ /\ faults < MaxFaults
              /\ faults' = faults + 1
              /\ End(UpdateFailed)
    /\ UNCHANGED <<images, backup, canonical, mounted, host, ghosts, ops, envs>>

(* Fault: the original is removed instead of being set aside. *)
SetAside_Remove ==
    /\ op.stage = "aside"
    /\ images' = [images EXCEPT ![Current.image] = None]
    /\ backup' = [backup EXCEPT ![Current.image] = None]
    /\ op' = [op EXCEPT !.stage = "replace"]
    /\ UNCHANGED <<canonical, mounted, host, outcome, ghosts, ops, envs, faults>>

SetAside ==
    /\ op.stage = "aside"
    /\ \/ /\ images' = [images EXCEPT ![Current.image] = None]
          /\ backup' = [backup EXCEPT ![Current.image] = images[Current.image]]
          /\ op' = [op EXCEPT !.stage = "replace"]
          /\ UNCHANGED <<outcome, faults>>
       \/ /\ faults < MaxFaults
          /\ faults' = faults + 1
          /\ backup' = [backup EXCEPT ![Current.image] = None]
          /\ End(UpdateFailed)
          /\ UNCHANGED images
    /\ UNCHANGED <<canonical, mounted, host, ghosts, ops, envs>>

(* When neither the staged file nor the original can be renamed back, the backup stays. *)
Replace ==
    /\ op.stage = "replace"
    /\ \/ /\ images' = [images EXCEPT ![Current.image] = op.staged]
          /\ canonical' = canonical \cup {Current.image}
          /\ op' = [op EXCEPT !.stage = "drop"]
          /\ UNCHANGED <<backup, outcome, faults>>
       \/ /\ faults < MaxFaults
          /\ images' = [images EXCEPT ![Current.image] = backup[Current.image]]
          /\ backup' = [backup EXCEPT ![Current.image] = None]
          /\ faults' = faults + 1
          /\ End(UpdateFailed)
          /\ UNCHANGED canonical
       \/ /\ faults + 1 < MaxFaults
          /\ faults' = faults + 2
          /\ End(UpdateFailed)
          /\ UNCHANGED <<images, backup, canonical>>
    /\ UNCHANGED <<mounted, host, ghosts, ops, envs>>

DropBackup ==
    /\ op.stage = "drop"
    /\ backup' = [backup EXCEPT ![Current.image] = None]
    /\ IF Tail(op.todo) # <<>>
       THEN /\ op' = [op EXCEPT !.stage = "stage", !.todo = Tail(@), !.staged = <<>>]
            /\ UNCHANGED <<outcome, host, unread>>
       ELSE /\ End("Completed")
            /\ host' = host \ Removed(op)
            /\ unread' = unread \cup op.unread
                \cup (HostTokens(Removed(op)) \ (IF op.kind = "hostToImage"
                                                 THEN TokensIn(op.items) ELSE {}))
    /\ UNCHANGED <<images, canonical, mounted, before, owed, ops, envs, faults>>

(* The process is killed between two file operations; nothing looks for the backup later. *)
Crash ==
    /\ op.stage \in {"stage", "aside", "replace", "drop"}
    /\ faults < MaxFaults
    /\ faults' = faults + 1
    /\ End("Crashed")
    /\ unread' = IF op.stage = "drop" THEN unread \cup op.unread ELSE unread
    /\ UNCHANGED <<images, backup, canonical, mounted, host, before, owed, ops, envs>>

Next ==
    \/ HostToImage \/ ImageToHost \/ ImageToImage \/ RemoveEntries \/ RenameEntry \/ MakeDirectory
    \/ Confirm \/ Decline \/ DriveChanges \/ ImageChanges \/ HostFileSaved \/ Resync
    \/ RunHostToImage \/ RunImageToHost \/ RunImageToImage \/ RunRemoveEntries \/ RunRenameEntry
    \/ RunMakeDirectory
    \/ StageImage \/ SetAside \/ Replace \/ DropBackup \/ Crash

Spec == Init /\ [][Next]_vars

-----------------------------------------------------------------------------
(* Properties                                                              *)

(* "Setting the original aside first keeps every failure recoverable" (updateImage): at
   every step of every rewrite, through failed renames and a crash, each image's whole
   content is in its file or in the backup beside it, and a transfer that ends otherwise
   than by completing, or by failing to take the originals off after a copy, leaves every
   disk what it was when the questions were answered. *)
FailureKeepsTheDisk ==
    /\ \A i \in Images : images[i] # None \/ backup[i] # None
    /\ op = Idle /\ outcome \in {"Unreadable", "CopyFailed", "AddFailed", "WriteFailed",
                                 "DestinationInsideSource", "NothingToCopy", "NameTaken"}
            => \A i \in Images : Held(i) = before[i]

(* Bytes nobody asked to delete are on some disk, in a backup or on the host, whatever
   transfers, failures, crashes and outside changes came before; only what a completed
   move never read may be gone. *)
WhatWasReadSurvives == owed \ unread \subseteq Alive

(* A move is a copy and then a removal (FileBrowser.cpp: "the additions are on the disk, so
   the sources go"; updateImage refuses damage so as not to "quietly drop a whole
   subtree"): nothing is ever lost by one. *)
NothingMovedIsLost == owed \subseteq Alive

(* A rewrite touches only disks the user was asked about, still in the drive they were in
   when the question was put. *)
WritesWhatWasAsked ==
    op.stage \in {"stage", "aside", "replace", "drop"} =>
        \A k \in DOMAIN op.todo :
            /\ op.todo[k].image \in op.yes
            /\ \E d \in Drives : mounted[d] = op.todo[k].image

(* The entries of a disk an update does not name are re-emitted as they were: the same
   folder, the same bytes and, but for the later ones of two files of one name, the same
   raw name; and no two entries of a disk PiST wrote share a name. *)
CarriedAsItWas ==
    op.stage = "drop" =>
        LET old == ListRaw(backup[Current.image])
            new == op.staged
            kept == {k \in DOMAIN old : \A r \in DOMAIN Current.removals :
                                            ~WithinFolded(old[k].path, Current.removals[r])}
        IN  /\ \A k \in kept : \E n \in DOMAIN new :
                /\ new[n].isDir = old[k].isDir /\ new[n].data = old[k].data
                /\ Front(new[n].path) = Front(old[k].path)
                /\ (\A j \in kept : j < k => old[j].path # old[k].path)
                       => new[n].path = old[k].path
            /\ \A m, n \in DOMAIN new : m # n => new[m].path # new[n].path

(* "A name the directory already shows is refused" (FloppyTransfer.h): a rename that
   completes leaves the entry under the name that was typed, beside the same neighbours. *)
RenamedAsAsked ==
    (op.stage = "drop" /\ op.kind = "renameEntry") =>
        LET dir == Front(op.chosen[1])
            inDir(disk) == {k \in DOMAIN disk : Len(disk[k].path) = Len(dir) + 1
                                                /\ Front(disk[k].path) = dir}
            renamed == Current.additions[1]
        IN  /\ Cardinality(inDir(op.staged)) = Cardinality(inDir(backup[Current.image]))
            /\ \E n \in DOMAIN op.staged :
                   /\ op.staged[n].path = Append(dir, Name11FromHost(op.name))
                   /\ op.staged[n].isDir = renamed.isDir /\ op.staged[n].data = renamed.data
=============================================================================

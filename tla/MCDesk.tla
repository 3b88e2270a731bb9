------------------------------- MODULE MCDesk -------------------------------
(***************************************************************************)
(* Three components that share nothing, one per behaviour: the projects,   *)
(* the git panel on two repositories with a file of one name in each, and  *)
(* the image editor with two colours, cells one or two pixels wide and one *)
(* image to import as a sheet.  Those that do not move stay in one of      *)
(* their initial states.                                                   *)
(***************************************************************************)
EXTENDS ProjectsInv

VARIABLES moving,
          ide, repo, made, swept, moved, due,
          doc, history, done, stroke, swatches, slicing, saved, edits, versions

Git == INSTANCE GitPanel WITH
  Folders <- {"one", "two"}, Repositories <- {"one", "two"}, Paths <- {"a", "b"},
  Branches <- {"main", "side"}, FirstBranch <- "main",
  Contents <- {[one |-> [a |-> "modified", b |-> "staged"], two |-> [a |-> "untracked", b |-> "staged"]]},
  MaxGestures <- 3, MaxOutside <- 1, MaxFailures <- 1

(* The image files that can be opened hold a strip of two frames cut from a *)
(* sheet, of which the second was drawn on, and one with two layers that is *)
(* not placed on a sheet (0).                                               *)
Painted(ink, visible) == [visible |-> visible, pixels |-> <<ink>>]
Strip(sheet, frames) == [phases |-> <<[w |-> 1, sheet |-> sheet, x |-> 0, frames |-> frames]>>,
                         active |-> {2}, sheets |-> <<"font">>]

Editor == INSTANCE ImageEditor WITH
  Colours <- {1, 2}, Widths <- {1, 2},
  Sheets <- {"font"}, SheetPixels <- [font |-> <<2, 1>>], SheetColours <- [font |-> {2}],
  Opened <- {Strip(1, <<<<Painted(2, TRUE)>>, <<Painted(2, TRUE)>>>>),
             Strip(0, <<<<Painted(1, TRUE), Painted(2, FALSE)>>>>)},
  Rotations <- 2, MidStroke <- FALSE, MaxEdits <- 2

ASSUME PanelAssumption == Git!PanelAssumption
ASSUME EditorAssumption == Editor!EditorAssumption

-----------------------------------------------------------------------------
(* One of them moves.                                                       *)

projects == <<file, script, trusted, win, owner, allowed, mistaken, checkout, news>>
panel == <<ide, repo, made, swept, moved, due>>
editor == <<doc, history, done, stroke, swatches, slicing, saved, edits, versions>>
all == <<moving, projects, gestures, outside, failures, panel, editor>>

(* Where a behaviour of the projects starts: PiST's source tree has its      *)
(* demo, and a script's own project is one that names a hook.                *)
AsFound ==
  /\ checkout => file[<<"hello", DemoDir>>] # None /\ script[DemoDir] = Shipped
  /\ \A d \in Dirs : file[<<"script", d>>] \in {None, Older}

NoProject == file = [d \in Docs |-> None] /\ script = [d \in Dirs |-> None] /\ ~checkout
NoFolder == ide.requested = None
NewImage == saved = None

MCInit ==
  /\ moving \in {"projects", "panel", "editor"}
  /\ Init /\ (IF moving = "projects" THEN AsFound ELSE NoProject)
  /\ Git!Init /\ (moving = "panel" \/ NoFolder)
  /\ Editor!Init /\ (moving = "editor" \/ NewImage)

ProjectsMove == moving = "projects" /\ Next /\ UNCHANGED <<moving, panel, editor>>
PanelMoves == moving = "panel" /\ Git!Next /\ UNCHANGED <<moving, projects, editor>>
EditorMoves ==
  moving = "editor" /\ Editor!Next /\ UNCHANGED <<moving, projects, gestures, outside, failures, panel>>

MCSpec == MCInit /\ [][ProjectsMove \/ PanelMoves \/ EditorMoves]_all

-----------------------------------------------------------------------------
(* The properties of the components.                                        *)

(* GitPanel: at rest the panel shows the repository and the selected row's  *)
(* diff; a commit takes no path that was not ticked; never two writing      *)
(* commands at a time, and none forgotten. *)
PanelShowsTheRepository ==
  /\ Git!IdleShowsTheRepository /\ Git!IdleDiffIsOfTheSelection
  /\ Git!CommitTakesTheTicked /\ Git!OneWriteAtATime /\ Git!NothingIsStuck
(* ImageEditor: every frame shows the merge of its layers and is cut from   *)
(* the sheets it names, moving a strip keeps what was drawn, and undo and   *)
(* redo show the exact versions (it implements EditHistory). *)
PicturesAreKept ==
  /\ [](Editor!CompositesAreMerged /\ Editor!SlicingIsOfItsSheets)
  /\ Editor!DrawnFramesSurviveMoving /\ Editor!HistoryIsExact
=============================================================================

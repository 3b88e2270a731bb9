---------------------------- MODULE ImageEditor ----------------------------
(***************************************************************************)
(* The sprite editor (src/src/ui/ImageEditor.cpp) around one document: the *)
(* undo stack with its three kinds of command, the stroke that paints live *)
(* before its command exists, the imported sheets' pixels kept beside the  *)
(* document, and the swatch bar.                                           *)
(*                                                                         *)
(* A stroke holds the mouse, the keyboard still works: MidStroke says      *)
(* whether the user gives any other command while a stroke is under way.   *)
(***************************************************************************)
EXTENDS ImageDocument

CONSTANTS Colours,      \* the colours of the cube
          Widths,       \* the cell sizes offered
          Sheets,       \* the image files that can be imported as sheets
          SheetPixels,  \* what each of them shows
          SheetColours, \* and the palette it carries
          Opened,       \* the contents of files that can be opened
          Rotations,    \* how many directions a bake makes (8 in the code)
          MidStroke, MaxEdits, None

EditorAssumption ==
  /\ Colours \subseteq Nat \ {Transparent} /\ Widths \subseteq Nat \ {0}
  /\ SheetPixels \in [Sheets -> Seq(Colours \cup {Transparent})]
  /\ SheetColours \in [Sheets -> SUBSET Colours \ {{}}]
  /\ MidStroke \in BOOLEAN /\ MaxEdits \in Nat /\ Rotations \in Nat \ {0}

VARIABLES doc,       \* m_doc
          history,   \* QUndoStack: the commands pushed
          done,      \* and how many of them are done
          stroke,    \* m_strokePhase.. m_strokeBefore; idle while it has no cells
          swatches,  \* the palette the swatch bar was built from: the brush has one of its colours
          slicing,   \* m_sheetSlicing: the pixels of the sheets that could be read
          saved,     \* the contents of the document's own file, None without one
          edits,     \* how many commands, openings and saves there were, for the bound
          versions   \* what the document was behind each command, for the refinement

vars == <<doc, history, done, stroke, swatches, slicing, saved, edits, versions>>

FirstColour(active) == CHOOSE c \in active : \A e \in active : c <= e

Idle == [phase |-> 1, frame |-> 1, layer |-> 1, colour |-> Transparent, cells |-> <<>>, before |-> <<>>]

Stroking == stroke.cells # <<>>

Free == ~Stroking \/ MidStroke

Default == Create(CHOOSE w \in Widths : \A v \in Widths : w <= v, {FirstColour(Colours)})

\* The document a file holds, with nothing of the selection it was saved under.
FromContent(c) ==
  [phases |-> [p \in DOMAIN c.phases |->
                 [w |-> c.phases[p].w, sheet |-> c.phases[p].sheet, x |-> c.phases[p].x,
                  frames |-> [f \in DOMAIN c.phases[p].frames |->
                                Remesh(c.phases[p].frames[f], c.phases[p].w)]]],
   phase |-> 1, frame |-> 1, layer |-> 1,
   active |-> c.active, sheets |-> c.sheets, modified |-> FALSE]

\* The pixels a document's sheets name, read again from their files.
LoadSlicing(d) == [i \in {j \in DOMAIN d.sheets : d.sheets[j] # None} |-> SheetPixels[d.sheets[i]]]

\* A fresh document, or one read from a file.
Init ==
  /\ \/ doc = Default /\ saved = None
     \/ \E c \in Opened : doc = FromContent(c) /\ saved = c
  /\ history = <<>> /\ done = 0
  /\ stroke = Idle
  /\ swatches = doc.active
  /\ slicing = LoadSlicing(doc)
  /\ edits = 0
  /\ versions = <<Content(doc)>>

---------------------------------------------------------------------------
(* Commands.                                                               *)

PaintCommand(s) == [kind |-> "paint", at |-> s]

LayerPixelsCommand(d, before, after) ==
  [kind |-> "layer", phase |-> d.phase, frame |-> d.frame, layer |-> d.layer, before |-> before, after |-> after]

SnapshotCommand(before, after) == [kind |-> "snapshot", before |-> before, after |-> after]

\* Fault: undo addresses the phase and frame the user is looking at.
UndoCommand_WhereTheUserIs(c, d) ==
  CASE c.kind = "paint" -> RestoreIndices(d, c.at.cells, c.at.before, c.at.layer)
    [] c.kind = "layer" ->
         EditFrame(d, c.phase, c.frame, LAMBDA e : ReplaceActiveLayer(SetActiveLayer(e, c.layer), c.before))
    [] c.kind = "snapshot" -> c.before

UndoCommand(c, d) ==
  CASE c.kind = "paint" ->
         EditFrame(d, c.at.phase, c.at.frame,
                   LAMBDA e : RestoreIndices(e, c.at.cells, c.at.before, c.at.layer))
    [] c.kind = "layer" ->
         EditFrame(d, c.phase, c.frame, LAMBDA e : ReplaceActiveLayer(SetActiveLayer(e, c.layer), c.before))
    [] c.kind = "snapshot" -> c.before

RedoCommand(c, d) ==
  CASE c.kind = "paint" ->
         EditFrame(d, c.at.phase, c.at.frame,
                   LAMBDA e : FillIndices(e, c.at.cells, c.at.colour, c.at.layer))
    [] c.kind = "layer" ->
         EditFrame(d, c.phase, c.frame, LAMBDA e : ReplaceActiveLayer(SetActiveLayer(e, c.layer), c.after))
    [] c.kind = "snapshot" -> c.after

Push(command) ==
  /\ history' = Append(SubSeq(history, 1, done), command)
  /\ done' = done + 1
  /\ edits' = edits + 1
  /\ versions' = Append(SubSeq(versions, 1, done + 1), Content(doc'))

MayEdit == Free /\ edits < MaxEdits

\* A mutation of the document under one snapshot taken over it.
Snapshot(after) ==
  /\ doc' = after
  /\ Push(SnapshotCommand(doc, after))

EditDoc(after) ==
  /\ MayEdit
  /\ Snapshot(after)
  /\ UNCHANGED <<stroke, swatches, slicing, saved>>

---------------------------------------------------------------------------
(* Strokes: the canvas reports the cells the brush passes, one by one.     *)

Begun(ink) ==
  IF Stroking THEN stroke
  ELSE [Idle EXCEPT !.phase = doc.phase, !.frame = doc.frame, !.layer = doc.layer, !.colour = ink]

\* Each cell's value is recorded the first time the stroke passes it.
Recorded(s, cell) ==
  IF cell \in ToSet(s.cells) THEN s
  ELSE [s EXCEPT !.cells = Append(@, cell), !.before = Append(@, Pixels(doc)[cell])]

\* The brush paints its colour with the left button and erases with the right one.
PaintIndices(cell, ink) ==
  /\ IF Stroking THEN MidStroke \/ ink = stroke.colour ELSE edits < MaxEdits
  /\ stroke' = Recorded(Begun(ink), cell)
  /\ doc' = FillIndices(doc, <<cell>>, ink, stroke'.layer)
  /\ UNCHANGED <<history, done, swatches, slicing, saved, edits, versions>>

FinishStroke ==
  /\ Stroking
  /\ UNCHANGED doc
  /\ Push(PaintCommand(stroke))
  /\ stroke' = Idle
  /\ UNCHANGED <<swatches, slicing, saved>>

---------------------------------------------------------------------------
(* Edits of the active layer: shifts, flips and turns push a command even  *)
(* when nothing changed, the region edits (cut, paste, delete, move) do    *)
(* not.                                                                    *)

PushLayer(after) ==
  /\ MayEdit
  /\ doc' = ReplaceActiveLayer(doc, after)
  /\ Push(LayerPixelsCommand(doc, Pixels(doc), after))
  /\ UNCHANGED <<stroke, swatches, slicing, saved>>

FlipHorizontal == PushLayer(Reverse(Pixels(doc)))

ShiftBy ==
  LET old == Pixels(doc)
  IN PushLayer([i \in DOMAIN old |-> IF i = 1 THEN Transparent ELSE old[i - 1]])

DeleteSelection(cell) ==
  /\ Pixels(doc)[cell] # Transparent
  /\ PushLayer([Pixels(doc) EXCEPT ![cell] = Transparent])

---------------------------------------------------------------------------
(* The frame, layer and phase panels.                                      *)

AddFrameClicked == EditDoc(SliceAddedFrame(AddFrame(doc), slicing))
RemoveFrameClicked == CanRemoveFrame(doc) /\ EditDoc(RemoveFrame(doc))
DuplicateFrameClicked == EditDoc(DuplicateFrame(doc))
MoveFrameUp == doc.frame > 1 /\ EditDoc(MoveFrame(doc, doc.frame - 1))
MoveFrameDown == doc.frame < Len(Phase(doc).frames) /\ EditDoc(MoveFrame(doc, doc.frame + 1))
GenerateEightWay == CanRotate(doc) /\ EditDoc(GenerateRotations(doc, Rotations))

AddLayerClicked == EditDoc(AddLayer(doc))
RemoveLayerClicked == CanRemoveLayer(doc) /\ EditDoc(RemoveLayer(doc))
MoveLayerUp == doc.layer < Len(Frame(doc).layers) /\ EditDoc(MoveLayer(doc, doc.layer + 1))
MoveLayerDown == doc.layer > 1 /\ EditDoc(MoveLayer(doc, doc.layer - 1))

LayerVisibilityChanged(l) == EditDoc(SetLayerVisible(doc, l, ~Frame(doc).layers[l].visible))

AddPhaseClicked(w) == EditDoc(AddPhase(doc, w))
RemovePhaseClicked == CanRemovePhase(doc) /\ EditDoc(RemovePhase(doc, doc.phase))
PhaseCellSizeChanged(w) == w # Phase(doc).w /\ EditDoc(SetPhaseCellSize(doc, doc.phase, w))

\* Selections are no edits: undo may find the user somewhere else.
Look(d) ==
  /\ Free
  /\ doc' = d
  /\ UNCHANGED <<history, done, stroke, swatches, slicing, saved, edits, versions>>

SelectFrame(f) == Look(SetCurrentFrame(doc, f))
SelectLayer(l) == Look(SetActiveLayer(doc, l))
SelectPhase(p) == Look(SetCurrentPhase(doc, p))

---------------------------------------------------------------------------
(* Sheets.                                                                 *)

OnNewSheet == EditDoc(AddSheet(doc, None))

\* The placement panel: frames under the phase are cut, then cut again.
Placed(d, p, sheet, x) ==
  LET there == SetPhasePlacement(d, p, sheet, x)
  IN ReSliceUntouchedFrames(SlicePlacedPhaseFrames(there, p, slicing), p, d.phases[p].sheet, d.phases[p].x, slicing)

PhasePlacementChanged(sheet, x) ==
  /\ <<sheet, x>> # <<Phase(doc).sheet, Phase(doc).x>>
  /\ EditDoc(Placed(doc, doc.phase, sheet, x))

\* A strip dragged over the sheet it is on, and one dragged onto it.
PhaseMoved(p, x) ==
  /\ doc.phases[p].sheet # Unplaced
  /\ EditDoc(ReSliceUntouchedFrames(SetPhasePlacement(doc, p, doc.phases[p].sheet, x), p,
                                    doc.phases[p].sheet, doc.phases[p].x, slicing))

PhasePlaced(p, sheet, x) ==
  /\ doc.phases[p].sheet = Unplaced
  /\ EditDoc(SlicePlacedPhaseFrames(SetPhasePlacement(doc, p, sheet, x), p, slicing))

SlicePhaseFromSheet(sheet, x, w, count) == EditDoc(AddPhaseFromSheet(doc, sheet, x, w, count, slicing))

Imported(d, path) == AddSheet(SetActive(d, SheetColours[path]), path)

\* "Add frame": the sheet and its palette are one command of their own.
ImportAppend(path) ==
  LET after == Imported(doc, path)
  IN /\ MayEdit
     /\ Snapshot(after)
     /\ slicing' = [i \in DOMAIN slicing \cup {Len(after.sheets)} |->
                      IF i = Len(after.sheets) THEN SheetPixels[path] ELSE slicing[i]]
     /\ swatches' = after.active
     /\ UNCHANGED <<stroke, saved>>

---------------------------------------------------------------------------
(* The palette.                                                            *)

OpenPalettePicker(active) ==
  /\ active # doc.active
  /\ MayEdit
  /\ Snapshot(SetActive(doc, active))
  /\ swatches' = active
  /\ UNCHANGED <<stroke, slicing, saved>>

\* The eye-dropper adds the colour it picks to the palette when it is not there.
PickColour(cell) ==
  LET picked == Frame(doc).composite[cell]
  IN /\ IF picked = Transparent \/ picked \in doc.active
        THEN Free /\ UNCHANGED <<doc, history, done, edits, versions>>
        ELSE MayEdit /\ Snapshot(SetActive(doc, doc.active \cup {picked}))
     /\ swatches' = doc'.active
     /\ UNCHANGED <<stroke, slicing, saved>>

---------------------------------------------------------------------------
(* Undo and redo.                                                          *)

\* Fault: the imported sheets' pixels stay as they are.
ResyncFromRestoredDocument_Stale(d) == UNCHANGED <<slicing, swatches>>

\* The pixels of the sheets follow the document; the swatch bar does not.
ResyncFromRestoredDocument(d) ==
  /\ slicing' = LoadSlicing(d)
  /\ UNCHANGED swatches

Undo ==
  /\ Free /\ done > 0
  /\ doc' = UndoCommand(history[done], doc)
  /\ done' = done - 1
  /\ ResyncFromRestoredDocument(doc')
  /\ UNCHANGED <<history, stroke, saved, edits, versions>>

Redo ==
  /\ Free /\ done < Len(history)
  /\ doc' = RedoCommand(history[done + 1], doc)
  /\ done' = done + 1
  /\ ResyncFromRestoredDocument(doc')
  /\ UNCHANGED <<history, stroke, saved, edits, versions>>

---------------------------------------------------------------------------
(* Files.                                                                  *)

\* A document in place of another: its history goes, and what hung on it.
Adopt(d, pixels, path) ==
  /\ MayEdit /\ edits' = edits + 1
  /\ doc' = d
  /\ history' = <<>> /\ done' = 0
  /\ versions' = <<Content(d)>>
  /\ slicing' = pixels
  /\ swatches' = d.active
  /\ saved' = path
  /\ UNCHANGED stroke

NewDocument(w) == Adopt(Create(w, {FirstColour(Colours)}), <<>>, None)

LoadFile(c) == Adopt(FromContent(c), LoadSlicing(c), c)

\* "Replace": the import becomes the base state of a fresh document.
ImportReplace(path) ==
  LET d == Imported(Default, path)
  IN Adopt(d, [i \in {1} |-> SheetPixels[path]], None)

SaveFile ==
  /\ MayEdit /\ edits' = edits + 1
  /\ saved' = Content(doc)
  /\ doc' = [doc EXCEPT !.modified = FALSE]
  /\ UNCHANGED <<history, done, stroke, swatches, slicing, versions>>

---------------------------------------------------------------------------
Painting == FinishStroke \/ \E cell \in DOMAIN Pixels(doc), ink \in swatches \cup {Transparent} : PaintIndices(cell, ink)

LayerEdits == FlipHorizontal \/ ShiftBy \/ \E cell \in DOMAIN Pixels(doc) : DeleteSelection(cell)

FramePanel ==
  \/ AddFrameClicked \/ RemoveFrameClicked \/ DuplicateFrameClicked \/ MoveFrameUp \/ MoveFrameDown
  \/ GenerateEightWay
  \/ \E f \in DOMAIN Phase(doc).frames : SelectFrame(f)

LayerPanel ==
  \/ AddLayerClicked \/ RemoveLayerClicked \/ MoveLayerUp \/ MoveLayerDown
  \/ \E l \in DOMAIN Frame(doc).layers : LayerVisibilityChanged(l) \/ SelectLayer(l)

PhasePanel ==
  \/ RemovePhaseClicked
  \/ \E w \in Widths : AddPhaseClicked(w) \/ PhaseCellSizeChanged(w)
  \/ \E p \in DOMAIN doc.phases : SelectPhase(p)

SheetMode ==
  \/ OnNewSheet
  \/ \E path \in Sheets : ImportAppend(path)
  \/ \E x \in 0..1, sheet \in {Unplaced} \cup DOMAIN doc.sheets : PhasePlacementChanged(sheet, x)
  \/ \E x \in 0..1, p \in DOMAIN doc.phases :
       PhaseMoved(p, x) \/ \E sheet \in DOMAIN doc.sheets : PhasePlaced(p, sheet, x)
  \/ \E sheet \in DOMAIN slicing, w \in Widths, count \in 1..2 : SlicePhaseFromSheet(sheet, 0, w, count)

PaletteEdits ==
  \/ \E active \in SUBSET Colours \ {{}} : OpenPalettePicker(active)
  \/ \E cell \in DOMAIN Pixels(doc) : PickColour(cell)

Files ==
  \/ SaveFile
  \/ saved # None /\ LoadFile(saved)
  \/ \E w \in Widths : NewDocument(w)
  \/ \E path \in Sheets : ImportReplace(path)

Next ==
  \/ Painting \/ LayerEdits \/ FramePanel \/ LayerPanel \/ PhasePanel \/ SheetMode \/ PaletteEdits
  \/ Files \/ Undo \/ Redo

Spec == Init /\ [][Next]_vars

---------------------------------------------------------------------------
(* Properties.                                                             *)

\* The document without the stroke that has no command yet.
BaseContent ==
  LET Cell(i) == SelectInSeq(stroke.cells, LAMBDA c : c = i)
      Unpainted(old) == [i \in DOMAIN old |-> IF Cell(i) = 0 THEN old[i] ELSE stroke.before[Cell(i)]]
  IN IF ~Stroking THEN Content(doc)
     ELSE [Content(doc) EXCEPT !.phases[stroke.phase].frames[stroke.frame][stroke.layer].pixels = Unpainted(@)]

History == INSTANCE EditHistory WITH shown <- done + 1, document <- BaseContent

\* The editor implements a history of versions: whatever was selected, saved or
\* looked at in between, each undo and redo shows exactly what the document was,
\* and no edit disturbs the versions before it (the undo commands address a
\* phase, a frame and a layer by index, or replace the whole document).
HistoryIsExact == History!Spec

\* Every frame of every phase shows the merge of its visible layers at its
\* phase's cell size, and the selection stays inside the document: the canvas
\* and the exporters index by them.
CompositesAreMerged ==
  /\ \A p \in DOMAIN doc.phases : \A f \in DOMAIN doc.phases[p].frames :
       LET frame == doc.phases[p].frames[f]
       IN /\ frame.composite = Merged(frame.layers, doc.phases[p].w)
          /\ frame.layers # <<>> /\ \A k \in DOMAIN frame.layers : Len(frame.layers[k].pixels) = doc.phases[p].w
  /\ doc.phase \in DOMAIN doc.phases
  /\ doc.frame \in DOMAIN Phase(doc).frames
  /\ doc.layer \in DOMAIN Frame(doc).layers

\* The pixels kept for the sheets are those of the sheets the document names:
\* an undone import takes its pixels along, a redone one brings them back.
SlicingIsOfItsSheets == slicing = LoadSlicing(doc)

\* A document that says it is unmodified is what its file holds.
UnmodifiedIsSaved == saved # None /\ ~doc.modified => Content(doc) = saved

\* The swatch bar shows the document's palette.
SwatchesShowThePalette == swatches = doc.active

\* A frame that shows something else than nothing and than the cell it was cut from.
DrawnOn(p, f) ==
  LET ph == doc.phases[p]
      shown == ph.frames[f].composite
  IN /\ ~IsEmpty(shown)
     /\ ph.sheet \in DOMAIN slicing => shown # SliceSheetCells(slicing[ph.sheet], ph.x, ph.w, Len(ph.frames))[f]

KeepsDrawnFrames(p) ==
  \A f \in DOMAIN doc.phases[p].frames : DrawnOn(p, f) => doc'.phases[p].frames[f] = doc.phases[p].frames[f]

\* A strip dragged over its sheet, dropped onto one, or moved in the placement
\* panel keeps the frames that were drawn on.  A strip the panel puts onto its
\* first sheet does not: DrawnFramesSurvivePlacing.
DrawnFramesSurviveMoving ==
  [][ \A p \in DOMAIN doc.phases, sheet \in {Unplaced} \cup DOMAIN doc.sheets, x \in 0..1 :
        \/ PhaseMoved(p, x)
        \/ sheet # Unplaced /\ PhasePlaced(p, sheet, x)
        \/ p = doc.phase /\ doc.phases[p].sheet \in DOMAIN slicing /\ PhasePlacementChanged(sheet, x)
        => KeepsDrawnFrames(p) ]_vars

DrawnFramesSurvivePlacing ==
  [][ \A sheet \in DOMAIN doc.sheets, x \in 0..1 :
        PhasePlacementChanged(sheet, x) => KeepsDrawnFrames(doc.phase) ]_vars
=============================================================================

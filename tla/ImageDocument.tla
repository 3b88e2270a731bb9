--------------------------- MODULE ImageDocument ---------------------------
(***************************************************************************)
(* The sprite document (src/src/image/ImageDocument.cpp) as operators on a *)
(* record.  A document holds phases; a phase a cell size and frames; a     *)
(* frame layers, bottom first, and their composite, which the code keeps   *)
(* beside them and recomputes ("remesh") by hand.  Cells are one pixel     *)
(* high, so a width is the cell size; a pixel is 0 (transparent) or a      *)
(* colour.  Names are left out, indices count from 1, and the palette is   *)
(* the set of its active colours.                                          *)
(***************************************************************************)
EXTENDS Naturals, Sequences, FiniteSets, SequencesExt

Transparent == 0
Unplaced == 0

Blank(w) == [i \in 1..w |-> Transparent]

\* The topmost visible layer that paints pixel i.
MergedPixel(layers, i) ==
  LET painting == {k \in DOMAIN layers :
                     layers[k].visible /\ i <= Len(layers[k].pixels) /\ layers[k].pixels[i] # Transparent}
  IN IF painting = {} THEN Transparent
     ELSE layers[CHOOSE k \in painting : \A j \in painting : j <= k].pixels[i]

Merged(layers, w) == [i \in 1..w |-> MergedPixel(layers, i)]

Remesh(layers, w) == [layers |-> layers, composite |-> Merged(layers, w)]

Layer(w) == [visible |-> TRUE, pixels |-> Blank(w)]

BlankFrame(w) == Remesh(<<Layer(w)>>, w)

BlankFrameFrom(frame, w) ==
  Remesh([k \in DOMAIN frame.layers |-> [frame.layers[k] EXCEPT !.pixels = Blank(w)]], w)

NewPhase(w) == [w |-> w, sheet |-> Unplaced, x |-> 0, frames |-> <<BlankFrame(w)>>]

Create(w, active) ==
  [phases |-> <<NewPhase(w)>>, phase |-> 1, frame |-> 1, layer |-> 1,
   active |-> active, sheets |-> <<>>, modified |-> FALSE]

---------------------------------------------------------------------------
(* What the accessors delegate to.                                         *)

Phase(d) == d.phases[d.phase]
Frame(d) == Phase(d).frames[d.frame]
Pixels(d) == Frame(d).layers[d.layer].pixels

Touch(d) == [d EXCEPT !.modified = TRUE]

ClampActiveLayer(d) ==
  IF d.layer > Len(Frame(d).layers) THEN [d EXCEPT !.layer = Len(Frame(d).layers)] ELSE d

SetFrames(d, frames) == [d EXCEPT !.phases[d.phase].frames = frames]

\* The current frame's layers replaced and remeshed.
SetLayers(d, layers) == [d EXCEPT !.phases[d.phase].frames[d.frame] = Remesh(layers, Phase(d).w)]

---------------------------------------------------------------------------
(* Phases.                                                                 *)

SetCurrentPhase(d, p) == ClampActiveLayer([d EXCEPT !.phase = p, !.frame = 1])

\* Fault: the first frame is made while the previous phase is current, at its cell size.
AddPhase_OldCell(d, w) ==
  Touch(ClampActiveLayer([d EXCEPT !.phases = Append(@, [NewPhase(w) EXCEPT !.frames = <<BlankFrame(Phase(d).w)>>]),
                                   !.phase = Len(d.phases) + 1, !.frame = 1]))

AddPhase(d, w) ==
  Touch(ClampActiveLayer([d EXCEPT !.phases = Append(@, NewPhase(w)), !.phase = Len(d.phases) + 1, !.frame = 1]))

CanRemovePhase(d) == Len(d.phases) > 1

RemovePhase(d, p) ==
  LET left == Len(d.phases) - 1
      at == IF d.phase > left THEN left ELSE IF d.phase > p THEN d.phase - 1 ELSE d.phase
  IN Touch(ClampActiveLayer([d EXCEPT !.phases = RemoveAt(@, p), !.phase = at, !.frame = 1]))

ResizedPixels(pixels, w) == [i \in 1..w |-> IF i <= Len(pixels) THEN pixels[i] ELSE Transparent]

SetPhaseCellSize(d, p, w) ==
  LET Resized(f) == Remesh([k \in DOMAIN f.layers |->
                              [f.layers[k] EXCEPT !.pixels = ResizedPixels(@, w)]], w)
      frames == d.phases[p].frames
  IN IF d.phases[p].w = w THEN d
     ELSE Touch([d EXCEPT !.phases[p].w = w,
                          !.phases[p].frames = [k \in DOMAIN frames |-> Resized(frames[k])]])

SetPhasePlacement(d, p, sheet, x) ==
  Touch([d EXCEPT !.phases[p].sheet = sheet, !.phases[p].x = x])

AddSheet(d, path) == Touch([d EXCEPT !.sheets = Append(@, path)])

SetActive(d, active) == Touch([d EXCEPT !.active = active])

---------------------------------------------------------------------------
(* Frames.                                                                 *)

SetCurrentFrame(d, f) == ClampActiveLayer([d EXCEPT !.frame = f])

InsertAfterCurrent(d, frame) ==
  Touch(ClampActiveLayer([SetFrames(d, InsertAt(Phase(d).frames, d.frame + 1, frame))
                            EXCEPT !.frame = d.frame + 1]))

AddFrame(d) == InsertAfterCurrent(d, BlankFrameFrom(Frame(d), Phase(d).w))

DuplicateFrame(d) == InsertAfterCurrent(d, Frame(d))

CanRemoveFrame(d) == Len(Phase(d).frames) > 1

RemoveFrame(d) ==
  LET left == RemoveAt(Phase(d).frames, d.frame)
  IN Touch(ClampActiveLayer([SetFrames(d, left)
                               EXCEPT !.frame = IF d.frame > Len(left) THEN Len(left) ELSE d.frame]))

Moved(s, from, to) == InsertAt(RemoveAt(s, from), to, s[from])

\* Both editors of an order move the selected item, so the selection follows it.
MoveFrame(d, to) ==
  Touch(ClampActiveLayer([SetFrames(d, Moved(Phase(d).frames, d.frame, to)) EXCEPT !.frame = to]))

\* count - 1 turned copies behind the current frame; square cells only, and a
\* cell one pixel high is square when it is one pixel wide, which turns into itself.
CanRotate(d) == Phase(d).w = 1

GenerateRotations(d, count) ==
  LET frames == Phase(d).frames
      turned == [i \in 1..(count - 1) |-> Remesh(Frame(d).layers, Phase(d).w)]
  IN Touch(SetFrames(d, SubSeq(frames, 1, d.frame) \o turned \o SubSeq(frames, d.frame + 1, Len(frames))))

---------------------------------------------------------------------------
(* Layers and pixels of the current frame.                                 *)

SetActiveLayer(d, l) == IF l \in DOMAIN Frame(d).layers THEN [d EXCEPT !.layer = l] ELSE d

AddLayer(d) ==
  LET layers == Append(Frame(d).layers, Layer(Phase(d).w))
  IN Touch([SetLayers(d, layers) EXCEPT !.layer = Len(layers)])

CanRemoveLayer(d) == Len(Frame(d).layers) > 1

RemoveLayer(d) ==
  LET left == RemoveAt(Frame(d).layers, d.layer)
  IN Touch([SetLayers(d, left) EXCEPT !.layer = IF d.layer > Len(left) THEN Len(left) ELSE d.layer])

MoveLayer(d, to) == Touch([SetLayers(d, Moved(Frame(d).layers, d.layer, to)) EXCEPT !.layer = to])

SetLayerVisible(d, l, visible) ==
  Touch(SetLayers(d, [Frame(d).layers EXCEPT ![l].visible = visible]))

SetPixels(d, l, pixels) == Touch(SetLayers(d, [Frame(d).layers EXCEPT ![l].pixels = pixels]))

FillIndices(d, cells, colour, l) ==
  IF l \notin DOMAIN Frame(d).layers THEN d
  ELSE LET old == Frame(d).layers[l].pixels
       IN SetPixels(d, l, [i \in DOMAIN old |-> IF i \in ToSet(cells) THEN colour ELSE old[i]])

RestoreIndices(d, cells, values, l) ==
  IF l \notin DOMAIN Frame(d).layers THEN d
  ELSE LET old == Frame(d).layers[l].pixels
           At(i) == CHOOSE k \in DOMAIN cells : cells[k] = i
       IN SetPixels(d, l, [i \in DOMAIN old |-> IF i \in ToSet(cells) THEN values[At(i)] ELSE old[i]])

ReplaceActiveLayer(d, pixels) ==
  IF Len(pixels) # Phase(d).w THEN d ELSE SetPixels(d, d.layer, pixels)

\* Edit(_) applied with phase p and frame f current, the selection put back behind
\* it; nothing when the phase or the frame is no more.
EditFrame(d, p, f, Edit(_)) ==
  IF p \notin DOMAIN d.phases \/ f \notin DOMAIN d.phases[p].frames THEN d
  ELSE LET there == Edit(ClampActiveLayer([d EXCEPT !.phase = p, !.frame = f]))
       IN ClampActiveLayer([there EXCEPT !.phase = d.phase, !.frame = d.frame, !.layer = d.layer])

---------------------------------------------------------------------------
(* Slicing cells out of a sheet's pixels (StFormats.cpp, SheetSlicing.cpp). *)

SliceSheetCells(sheet, x, w, count) ==
  [k \in 1..count |->
     [i \in 1..w |-> LET at == x + (k - 1) * w + i
                     IN IF at <= Len(sheet) THEN sheet[at] ELSE Transparent]]

IsEmpty(pixels) == \A i \in DOMAIN pixels : pixels[i] = Transparent

\* Each frame of phase p that Takes(k) receives cell k on its active layer, in
\* order; the selection is put back by way of setCurrentPhase and setCurrentFrame,
\* which may leave the active layer clamped.
FillFrames(d, p, cells, Takes(_)) ==
  LET Fill(acc, k) ==
        IF Takes(k) THEN ReplaceActiveLayer(SetCurrentFrame(SetCurrentPhase(acc, p), k), cells[k]) ELSE acc
      filled == FoldLeft(Fill, d, [k \in 1..Len(cells) |-> k])
  IN SetCurrentFrame(SetCurrentPhase(filled, d.phase), d.frame)

\* Placing a phase fills the frames that are still empty.
SlicePlacedPhaseFrames(d, p, pixels) ==
  LET ph == d.phases[p]
      cells == SliceSheetCells(pixels[ph.sheet], ph.x, ph.w, Len(ph.frames))
      Takes(k) == IsEmpty(ph.frames[k].composite)
  IN IF ph.sheet \notin DOMAIN pixels THEN d ELSE FillFrames(d, p, cells, Takes)

\* Fault: every frame is cut again.
ReSliceUntouchedFrames_All(d, p, oldSheet, oldX, pixels) ==
  LET ph == d.phases[p]
      cells == SliceSheetCells(pixels[ph.sheet], ph.x, ph.w, Len(ph.frames))
      Takes(k) == ph.frames[k].composite # cells[k]
  IN IF ph.sheet \notin DOMAIN pixels THEN d ELSE FillFrames(d, p, cells, Takes)

\* Moving it cuts the frames again that still show what they were cut from.  With
\* no old cell to compare with, every frame counts as untouched.
ReSliceUntouchedFrames(d, p, oldSheet, oldX, pixels) ==
  LET ph == d.phases[p]
      cells == SliceSheetCells(pixels[ph.sheet], ph.x, ph.w, Len(ph.frames))
      old == SliceSheetCells(pixels[oldSheet], oldX, ph.w, Len(ph.frames))
      Takes(k) == LET shown == ph.frames[k].composite
                  IN /\ oldSheet \notin DOMAIN pixels \/ shown = old[k] \/ IsEmpty(shown)
                     /\ shown # cells[k]
  IN IF ph.sheet \notin DOMAIN pixels THEN d ELSE FillFrames(d, p, cells, Takes)

SliceAddedFrame(d, pixels) ==
  LET ph == Phase(d)
  IN IF ph.sheet \notin DOMAIN pixels THEN d
     ELSE ReplaceActiveLayer(d, SliceSheetCells(pixels[ph.sheet], ph.x, ph.w, Len(ph.frames))[d.frame])

AddPhaseFromSheet(d, sheet, x, w, count, pixels) ==
  LET cells == SliceSheetCells(pixels[sheet], x, w, count)
      first == ReplaceActiveLayer(SetPhasePlacement(AddPhase(d, w), Len(d.phases) + 1, sheet, x), cells[1])
      More(acc, cell) == ReplaceActiveLayer(AddFrame(acc), cell)
  IN FoldLeft(More, first, Tail(cells))

---------------------------------------------------------------------------
(* What is in the document, whatever is selected and derived.              *)
Content(d) ==
  [phases |-> [p \in DOMAIN d.phases |->
                 [w |-> d.phases[p].w, sheet |-> d.phases[p].sheet, x |-> d.phases[p].x,
                  frames |-> [f \in DOMAIN d.phases[p].frames |-> d.phases[p].frames[f].layers]]],
   active |-> d.active, sheets |-> d.sheets]
=============================================================================

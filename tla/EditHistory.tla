---------------------------- MODULE EditHistory ----------------------------
(***************************************************************************)
(* What undo and redo promise, whatever the commands that implement them:  *)
(* the versions a document has been through and the one shown.  Undo and   *)
(* redo go back and forth between versions that stay what they were; an    *)
(* edit makes one new version and forgets those that had been undone;      *)
(* opening another document forgets them all.                              *)
(***************************************************************************)
EXTENDS Naturals, Sequences

VARIABLES versions,   \* what the document has been, oldest first
          shown,      \* which of them is shown
          document    \* what the user sees

vars == <<versions, shown, document>>

Init == Len(versions) = 1 /\ shown = 1 /\ document = versions[1]

Edit ==
  /\ shown' = shown + 1
  /\ Len(versions') = shown + 1
  /\ SubSeq(versions', 1, shown) = SubSeq(versions, 1, shown)

Undo == shown > 1 /\ shown' = shown - 1 /\ UNCHANGED versions

Redo == shown < Len(versions) /\ shown' = shown + 1 /\ UNCHANGED versions

Open == Len(versions') = 1 /\ shown' = 1

Next == (Edit \/ Undo \/ Redo \/ Open) /\ document' = versions'[shown']

Spec == Init /\ [][Next]_vars
=============================================================================

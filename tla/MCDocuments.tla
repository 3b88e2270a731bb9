---------------------------- MODULE MCDocuments ----------------------------
(* Documents for TLC: a source, a PiST image and a file of a floppy
   image, a text or a picture. *)
EXTENDS Documents, TLC

MCPaths == {"a", "i", "x"}
MCLangs == {("a" :> "text" @@ "i" :> "pim" @@ "x" :> l) : l \in {"text", "still"}}
MCSources == {"a", "b", "c"}
MCSourceLangs == {[p \in MCSources |-> "text"]}
MCNothing == [e \in {} |-> "a"]
MCExtract == [e \in {"E"} |-> "x"]
MCOnDisk == {"a"}
=============================================================================

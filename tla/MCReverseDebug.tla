--------------------------- MODULE MCReverseDebug ---------------------------
(* The program of the checked instance comes to program counter 2 twice; a  *)
(* hasty user has more to interleave with and does less.                    *)
EXTENDS ReverseDebug
MCProgram == <<1, 2, 3, 2>>
MCMaxActs == [u \in Users |-> IF u = "patient" THEN 4 ELSE 3]
=============================================================================

----------------------------- MODULE MCBuildRun -----------------------------
(* What a launch meets: one fate of every kind, and both transports, with   *)
(* and without a panel, for the ones that go on.                            *)
EXTENDS BuildRun
MCFates ==
  [at : {"nothing", "mismatch"}, kind : {"hrdb"}, media : {FALSE}]
    \union [at : {"refused", "rom", "early"}, kind : {"hrdb"}, media : {TRUE}]
    \union [at : {"floppy"}, kind : {"native"}, media : {FALSE}]
    \union [at : {"late"}, kind : {"hrdb"}, media : {FALSE}]
    \union [at : {"go"}, kind : {"hrdb"}, media : {TRUE}]
    \union [at : {"go"}, kind : {"native"}, media : {FALSE}]
=============================================================================

------------------------------- MODULE MCDisk -------------------------------
(***************************************************************************)
(* Three components that share nothing, one per behaviour: what is written *)
(* on a FAT12 disk, the transfers between the disk images and the host,    *)
(* and the channel of the embedded emulator's picture.  Those that do not  *)
(* move stay in one of their initial states.                               *)
(***************************************************************************)
EXTENDS FatImage, TLC

VARIABLES moving,
          images, backup, canonical, mounted, host, op, outcome, before, owed, unread, ops, envs, faults,
          server, wire, fork, sent, heard, dialled

CONSTANT None

-----------------------------------------------------------------------------
(* Disks: every tree of at most three nodes with files of these sizes.     *)

MCSizes == {0, 1, 1024, 1025, 2048}
MCTrees ==
    UNION {{t \in [size : [1..n -> MCSizes], isDir : [1..n -> BOOLEAN], parent : [1..n -> 0..n]] :
                /\ IsTree(t)
                /\ \A k \in 1..n : t.isDir[k] => t.size[k] = 0} : n \in 1..3}

-----------------------------------------------------------------------------
(* Transfers: a plain disk, one with three files of one name, a folder of   *)
(* lost clusters, a short file.                                             *)

N(stem) == <<stem, 0>>
Dir(path, bad) == [path |-> path, isDir |-> TRUE, data |-> None, bad |-> bad]
File(path, data) == [path |-> path, isDir |-> FALSE, data |-> data, bad |-> FALSE]
OnHost(path, isDir, data, hidden) == [path |-> path, isDir |-> isDir, data |-> data, hidden |-> hidden]

Plain == <<Dir(<<N("D")>>, FALSE), File(<<N("D"), N("A")>>, "p1"), File(<<N("B")>>, "p2")>>
Nested == <<Dir(<<N("D")>>, FALSE), File(<<N("D"), N("A")>>, "p1"), File(<<N("D"), N("B")>>, "p2")>>
Twice == <<File(<<N("A")>>, "q1"), File(<<N("A")>>, "q2"), File(<<N("a")>>, "q3")>>
Lost == <<Dir(<<N("D")>>, TRUE), File(<<N("D"), N("A")>>, "r1"), File(<<N("B")>>, "r2")>>
ShortFile == <<[File(<<N("A")>>, "s1") EXCEPT !.bad = TRUE], File(<<N("B")>>, "s2")>>

(* The last two are what a crash left: P set aside, and P replaced beside its backup. *)
Whole(p, q) == [images |-> [P |-> p, Q |-> q], backup |-> [P |-> None, Q |-> None]]
MCInitial == {Whole(Plain, Twice), Whole(Nested, Lost),
              [images |-> [P |-> None, Q |-> Plain], backup |-> [P |-> ShortFile, Q |-> None]],
              [images |-> [P |-> Plain, Q |-> ShortFile], backup |-> [P |-> Plain, Q |-> None]]}

Transfers == INSTANCE Floppy WITH
    Images <- {"P", "Q"},
    Initial <- MCInitial,
    Foreign <- {<<File(<<N("A")>>, "x1")>>},
    HostInitial <- {OnHost(<<N("Along")>>, FALSE, "h1", FALSE), OnHost(<<N("D")>>, TRUE, None, FALSE),
                    OnHost(<<N("D"), N("B")>>, FALSE, "h2", FALSE),
                    OnHost(<<N("D"), N("A")>>, FALSE, "h3", TRUE)},
    HostSaves <- {"h9"},
    Short <- [A |-> "A", a |-> "A", B |-> "B", D |-> "D", Along |-> "A"],
    Fold <- [A |-> "A", a |-> "A", B |-> "B", D |-> "D", Along |-> "Along"],
    Dirs <- {<<>>, <<N("D")>>},
    NewNames <- {N("Along"), N("B")},
    kRootEntries <- 4, kMaxDataClusters <- 6,
    MaxNumber <- 2, MaxChosen <- 2, MaxOps <- 1, MaxEnv <- 1, MaxFaults <- 2

-----------------------------------------------------------------------------
(* The channel: frames whose pixels look like headers, sound, and garbage   *)
(* before frames.                                                           *)

Messages == <<<<"F", "R", "2", "A", "1">>, <<"A", "3", "F", "R", "1">>, <<"F", "R", "1", "F">>, <<"A", "1", "z">>>>
Backwards == [k \in DOMAIN Messages |-> Messages[Len(Messages) + 1 - k]]
Garbled == <<<<"z", "F">>, <<"F", "R", "2", "z", "z">>, <<"A", "0">>, <<"F", "R", "1", "R">>, <<"F", "R", "0">>,
             <<"F", "R", "1", "z">>>>

Channel == INSTANCE MediaChannel WITH
    Streams <- {Messages, Backwards, Garbled}, MaxSessions <- 2, MaxConnections <- 3

-----------------------------------------------------------------------------
(* One of them moves.                                                       *)

transfers == <<images, backup, canonical, mounted, host, op, outcome, before, owed, unread, ops, envs, faults>>
channel == <<server, wire, fork, sent, heard, dialled>>
all == <<moving, vars, transfers, channel>>

OneTree == tree = [size |-> <<1>>, isDir |-> <<FALSE>>, parent |-> <<0>>]
OneStart == Transfers!Init /\ images.P = Plain /\ backup.P = None /\ mounted[0] = "P" /\ mounted[1] = "P"

MCInit ==
    /\ Channel!Init
    /\ \/ moving = "disk" /\ Init /\ OneStart
       \/ moving = "transfers" /\ OneTree /\ Init /\ Transfers!Init
       \/ moving = "channel" /\ OneTree /\ Init /\ OneStart

DiskMoves == moving = "disk" /\ Next /\ UNCHANGED <<moving, transfers, channel>>
TransfersMove == moving = "transfers" /\ Transfers!Next /\ UNCHANGED <<moving, vars, channel>>
ChannelMoves == moving = "channel" /\ Channel!Next /\ UNCHANGED <<moving, vars, transfers>>

MCSpec == MCInit /\ [][DiskMoves \/ TransfersMove \/ ChannelMoves]_all

-----------------------------------------------------------------------------
(* The properties of the components.                                        *)

(* Floppy: a transfer keeps what it read, writes only images that were asked *)
(* about, carries the rest over as it was, and leaves the disks as they were *)
(* if it fails. *)
TransfersKeepTheDisks ==
    /\ Transfers!WhatWasReadSurvives /\ Transfers!WritesWhatWasAsked
    /\ Transfers!CarriedAsItWas /\ Transfers!FailureKeepsTheDisk
(* MediaChannel: what is emitted is what the session's own emulator sent, *)
(* whole and in order, and a client without the token is on a timer. *)
OwnStreamIsHeardWhole ==
    Channel!StreamIsHeardWhole /\ Channel!OnlyTheForkIsHeard /\ Channel!AuthIsAwaited
=============================================================================

------------------------------ MODULE FatImage ------------------------------
(***************************************************************************)
(* The layout writeImage gives a floppy (build/FloppyImage.cpp): one walk  *)
(* allocates every file's and folder's clusters, a second links the FAT,   *)
(* a third writes the directories, whose ".." names the enclosing folder's *)
(* cluster; then readChain follows the chain of any one of them.           *)
(*                                                                         *)
(* A tree is given in the order allocateClusters reaches its nodes: a      *)
(* folder after everything it holds.                                       *)
(***************************************************************************)
EXTENDS Integers, Sequences, FiniteSets

CONSTANTS
    Trees,              \* the trees written: [size, isDir, parent], sequences of one length
    kMaxDataClusters    \* clusters a disk has, from number 2 on

kClusterSize == 1024
EndOfChain == 4095      \* 0xfff
LastInChain == 4080     \* 0xFF0: readChain stops at this value and above

(* A node's parent is the root, 0, or a folder that comes after it. *)
IsTree(t) ==
    /\ t.size \in Seq(Nat) /\ t.isDir \in Seq(BOOLEAN) /\ t.parent \in Seq(Nat)
    /\ Len(t.isDir) = Len(t.size) /\ Len(t.parent) = Len(t.size)
    /\ \A n \in 1..Len(t.size) :
           t.parent[n] # 0 => t.parent[n] \in (n + 1)..Len(t.size) /\ t.isDir[t.parent[n]]

ASSUME TreesAssumption == \A t \in Trees : IsTree(t)
(* Twelve bits hold every cluster number, below the values that end a chain. *)
ASSUME ClustersAssumption == kMaxDataClusters \in Nat /\ kMaxDataClusters + 2 <= LastInChain

VARIABLES
    tree,       \* the tree being written
    phase,      \* "allocate", "refused", "link", "directories", "written", "read", "ok", "damaged"
    at,         \* the node the walk has reached
    next,       \* allocateClusters' *nextCluster
    start,      \* Node::cluster
    fat,        \* the FAT entries of the data clusters
    dotdot,     \* what each folder's ".." entry holds
    reading,    \* the node whose chain is read
    cursor,     \* readChain's cluster
    out         \* the clusters it has read

vars == <<tree, phase, at, next, start, fat, dotdot, reading, cursor, out>>
written == <<tree, next, start, fat, dotdot>>

Nodes == 1..Len(tree.size)
Clusters == 2..(kMaxDataClusters + 1)
Children(n) == {c \in Nodes : tree.parent[c] = n}

(* A folder's bytes are its entries, "." and ".." included. *)
Bytes(n) == IF tree.isDir[n] THEN 32 * (2 + Cardinality(Children(n))) ELSE tree.size[n]

(* Fault: rounded down. *)
ClusterCount_Down(n) == Bytes(n) \div kClusterSize
ClusterCount(n) == (Bytes(n) + kClusterSize - 1) \div kClusterSize

(* A node's clusters, once it has some. *)
Owned(n) == IF start[n] = 0 THEN {} ELSE start[n]..(start[n] + ClusterCount(n) - 1)

-----------------------------------------------------------------------------
Init ==
    /\ tree \in Trees
    /\ phase = "allocate" /\ at = 1 /\ next = 2
    /\ start = [n \in Nodes |-> 0]
    /\ fat = [c \in Clusters |-> 0]
    /\ dotdot = [n \in Nodes |-> 0]
    /\ reading = 0 /\ cursor = 0 /\ out = <<>>

(* Fault: the limit is taken for the last cluster's number. *)
Fits_Number(n) == next + ClusterCount(n) - 1 <= kMaxDataClusters + 2
Fits(n) == next - 2 + ClusterCount(n) <= kMaxDataClusters

(* An empty file owns no cluster. *)
Allocate ==
    /\ phase = "allocate" /\ at \in Nodes
    /\ \/ /\ ClusterCount(at) = 0
          /\ at' = at + 1
          /\ UNCHANGED <<phase, next, start>>
       \/ /\ ClusterCount(at) # 0 /\ Fits(at)
          /\ start' = [start EXCEPT ![at] = next]
          /\ next' = next + ClusterCount(at)
          /\ at' = at + 1
          /\ UNCHANGED phase
       \/ /\ ClusterCount(at) # 0 /\ ~Fits(at)
          /\ phase' = "refused"
          /\ UNCHANGED <<at, next, start>>
    /\ UNCHANGED <<tree, fat, dotdot, reading, cursor, out>>

Allocated ==
    /\ phase = "allocate" /\ at \notin Nodes
    /\ phase' = "link" /\ at' = 1
    /\ UNCHANGED <<written, reading, cursor, out>>

(* Fault: the last cluster of a chain links on like the others. *)
LinkOf_Open(n, c) == c + 1
LinkOf(n, c) == IF c + 1 = start[n] + ClusterCount(n) THEN EndOfChain ELSE c + 1

(* writeFatChain for one node. *)
Link ==
    /\ phase = "link" /\ at \in Nodes
    /\ fat' = [c \in Clusters |-> IF c \in Owned(at) THEN LinkOf(at, c) ELSE fat[c]]
    /\ at' = at + 1
    /\ UNCHANGED <<tree, phase, next, start, dotdot, reading, cursor, out>>

Linked ==
    /\ phase = "link" /\ at \notin Nodes
    /\ phase' = "directories" /\ at' = 1
    /\ UNCHANGED <<written, reading, cursor, out>>

(* Fault: every folder claims the root as its parent. *)
ParentCluster_Root(n) == 0
ParentCluster(n) == IF tree.parent[n] = 0 THEN 0 ELSE start[tree.parent[n]]

WriteDirectory ==
    /\ phase = "directories" /\ at \in Nodes
    /\ dotdot' = IF tree.isDir[at] THEN [dotdot EXCEPT ![at] = ParentCluster(at)] ELSE dotdot
    /\ at' = at + 1
    /\ UNCHANGED <<tree, phase, next, start, fat, reading, cursor, out>>

Written ==
    /\ phase = "directories" /\ at \notin Nodes
    /\ phase' = "written"
    /\ UNCHANGED <<written, at, reading, cursor, out>>

Read ==
    /\ phase = "written"
    /\ \E n \in Nodes : reading' = n /\ cursor' = start[n]
    /\ phase' = "read" /\ out' = <<>>
    /\ UNCHANGED <<written, at>>

Seen(c) == \E k \in DOMAIN out : out[k] = c
InChain == 2 <= cursor /\ cursor < LastInChain

Follow ==
    /\ phase = "read" /\ InChain
    /\ ~Seen(cursor) /\ cursor \in Clusters
    /\ out' = Append(out, cursor)
    /\ cursor' = fat[cursor]
    /\ UNCHANGED <<written, phase, at, reading>>

(* The chain loops, leaves the disk, or ends before the bytes its entry declares. *)
Damaged ==
    /\ phase = "read"
    /\ \/ InChain /\ (Seen(cursor) \/ cursor \notin Clusters)
       \/ ~InChain /\ Len(out) * kClusterSize < Bytes(reading)
    /\ phase' = "damaged"
    /\ UNCHANGED <<written, at, reading, cursor, out>>

Done ==
    /\ phase = "read" /\ ~InChain /\ Len(out) * kClusterSize >= Bytes(reading)
    /\ phase' = "ok"
    /\ UNCHANGED <<written, at, reading, cursor, out>>

Next ==
    \/ Allocate \/ Allocated \/ Link \/ Linked \/ WriteDirectory \/ Written
    \/ Read \/ Follow \/ Damaged \/ Done

Spec == Init /\ [][Next]_vars

-----------------------------------------------------------------------------
TypeOK ==
    /\ IsTree(tree)
    /\ phase \in {"allocate", "refused", "link", "directories", "written", "read", "ok", "damaged"}
    /\ at \in 1..(Len(tree.size) + 1)
    /\ next \in 2..(kMaxDataClusters + 2)
    /\ start \in [Nodes -> Nat]
    /\ fat \in [Clusters -> Nat]
    /\ dotdot \in [Nodes -> Nat]
    /\ reading \in Nodes \cup {0}
    /\ cursor \in Nat
    /\ out \in Seq(Clusters)

(* No two files or folders share a cluster, and none owns one the disk does not have,
   whatever the tree: the bound allocateClusters checks is the one the chains need. *)
ChainsApart ==
    /\ \A n \in Nodes : Owned(n) \subseteq Clusters
    /\ \A m, n \in Nodes : m # n => Owned(m) \cap Owned(n) = {}

(* What the writer wrote, readChain reads: every node's own clusters, in order, all the
   bytes its entry declares, without meeting a loop or the edge of the image. *)
ReadsBack ==
    /\ phase # "damaged"
    /\ phase \in {"read", "ok"} =>
           \A k \in DOMAIN out : out[k] = start[reading] + k - 1
    /\ phase = "ok" => Len(out) = ClusterCount(reading)

(* A folder's ".." is its parent's own cluster, which the allocation reaches after it. *)
ParentIsNamed ==
    phase \in {"written", "read", "ok"} =>
        \A n \in Nodes : tree.isDir[n] =>
            IF tree.parent[n] = 0 THEN dotdot[n] = 0
            ELSE dotdot[n] \in Owned(tree.parent[n])

(* What was written reads back whole, and under its parent.                *)
WrittenReadsBack == ReadsBack /\ ParentIsNamed
=============================================================================

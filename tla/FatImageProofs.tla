--------------------------- MODULE FatImageProofs ---------------------------
(***************************************************************************)
(* Proofs about FatImage: for every set of trees and every disk size the   *)
(* FAT can number, the chains writeImage lays down are apart and on the    *)
(* disk, readChain reads each of them back whole, and every ".." is right. *)
(***************************************************************************)
EXTENDS FatImage, FiniteSetTheorems, TLAPS

(* What the walk has allocated so far is laid out in its order below `next`. *)
Allocation ==
    /\ \A n \in Nodes : start[n] # 0 =>
           start[n] >= 2 /\ ClusterCount(n) # 0 /\ start[n] + ClusterCount(n) <= next
    /\ \A m, n \in Nodes : m < n /\ start[m] # 0 /\ start[n] # 0 =>
           start[m] + ClusterCount(m) <= start[n]
    /\ phase = "allocate" => \A n \in Nodes : n >= at => start[n] = 0
    /\ phase = "allocate" => \A n \in Nodes : n < at /\ ClusterCount(n) # 0 => start[n] # 0
    /\ phase \notin {"allocate", "refused"} =>
           \A n \in Nodes : ClusterCount(n) # 0 => start[n] # 0

(* The nodes the linking walk has passed are linked; later ones do not disturb them. *)
Linking ==
    phase \notin {"allocate", "refused"} =>
        \A n \in Nodes : \/ phase = "link" /\ n >= at
                         \/ \A c \in Owned(n) : fat[c] = LinkOf(n, c)

Dots ==
    phase \in {"directories", "written", "read", "ok"} =>
        \A n \in Nodes : tree.isDir[n] =>
            (phase = "directories" /\ n >= at) \/ dotdot[n] = ParentCluster(n)

(* The reader is in its node's chain, as far along as it has read. *)
Reading ==
    phase \in {"read", "ok"} =>
        /\ reading \in Nodes
        /\ Len(out) <= ClusterCount(reading)
        /\ \A k \in DOMAIN out : out[k] = start[reading] + k - 1
        /\ Len(out) < ClusterCount(reading) => cursor = start[reading] + Len(out)
        /\ Len(out) = ClusterCount(reading) => cursor \in {0, EndOfChain}
        /\ phase = "ok" => Len(out) = ClusterCount(reading)

IInv == TypeOK /\ Allocation /\ Linking /\ Dots /\ Reading /\ phase # "damaged"

-----------------------------------------------------------------------------
(* Rounding up to whole clusters loses no byte, and a folder is never empty. *)
LEMMA CountIsEnough ==
    ASSUME IsTree(tree), NEW n \in Nodes
    PROVE  /\ Bytes(n) \in Nat
           /\ ClusterCount(n) \in Nat
           /\ ClusterCount(n) * kClusterSize >= Bytes(n)
           /\ tree.isDir[n] => ClusterCount(n) # 0
<1>1. Cardinality(Children(n)) \in Nat
  <2>1. IsFiniteSet(Nodes)
    BY FS_Interval DEF Nodes, IsTree
  <2>2. IsFiniteSet(Children(n))
    BY <2>1, FS_Subset DEF Children
  <2> QED BY <2>2, FS_CardinalityType
<1>2. tree.size[n] \in Nat /\ tree.isDir[n] \in BOOLEAN
  BY DEF Nodes, IsTree
<1>3. Bytes(n) \in Nat /\ (tree.isDir[n] => Bytes(n) >= 64)
  BY <1>1, <1>2 DEF Bytes
<1>4. ClusterCount(n) = (Bytes(n) + 1023) \div 1024
  BY <1>3 DEF ClusterCount, kClusterSize
<1> QED BY <1>3, <1>4 DEF kClusterSize

(* A tree that stands still keeps its counts. *)
LEMMA CountsStay ==
    ASSUME tree' = tree
    PROVE  /\ Nodes' = Nodes
           /\ \A n : ClusterCount(n)' = ClusterCount(n)
BY DEF Nodes, ClusterCount, Bytes, Children

(* A node's parent, when it is not the root, is a folder of the tree that comes later. *)
LEMMA ParentIsANode ==
    ASSUME IsTree(tree), NEW n \in Nodes
    PROVE  tree.parent[n] # 0 =>
               tree.parent[n] \in Nodes /\ tree.isDir[tree.parent[n]] /\ n < tree.parent[n]
<1>1. Len(tree.size) \in Nat /\ n \in 1..Len(tree.size)
  BY DEF IsTree, Nodes
<1>2. tree.parent[n] # 0 =>
          tree.parent[n] \in (n + 1)..Len(tree.size) /\ tree.isDir[tree.parent[n]]
  BY <1>1 DEF IsTree
<1> QED BY <1>1, <1>2 DEF Nodes

LEMMA InitialState == Init => IInv
<1> SUFFICES ASSUME Init PROVE IInv
  OBVIOUS
<1>1. IsTree(tree)
  BY TreesAssumption DEF Init
<1>2. Len(tree.size) \in Nat
  BY <1>1 DEF IsTree
<1>3. TypeOK
  BY <1>1, <1>2, ClustersAssumption DEF Init, TypeOK, Nodes
<1>4. Allocation
  BY <1>2 DEF Init, Allocation, Nodes
<1>5. Linking /\ Dots /\ Reading /\ phase # "damaged"
  BY DEF Init, Linking, Dots, Reading
<1> QED BY <1>3, <1>4, <1>5 DEF IInv

-----------------------------------------------------------------------------
LEMMA StepKeepsTypes ==
    ASSUME IInv, [Next]_vars PROVE TypeOK'
<1> USE DEF IInv
<1>1. Len(tree.size) \in Nat /\ Nodes = 1..Len(tree.size) /\ IsTree(tree)
  BY DEF TypeOK, IsTree, Nodes
<1>2. CASE Allocate
  <2>1. tree' = tree
    BY <1>2 DEF Allocate
  <2>2. ClusterCount(at) \in Nat
    BY <1>1, <1>2, CountIsEnough DEF Allocate
  <2>3. Nodes' = Nodes
    BY <2>1, CountsStay
  <2>4. next' \in 2..(kMaxDataClusters + 2)
    <3>1. next \in 2..(kMaxDataClusters + 2) /\ kMaxDataClusters \in Nat
      BY ClustersAssumption DEF TypeOK
    <3>2. next' = next \/ (next' = next + ClusterCount(at)
                           /\ next - 2 + ClusterCount(at) <= kMaxDataClusters)
      BY <1>2 DEF Allocate, Fits
    <3> QED BY <2>2, <3>1, <3>2
  <2>5. at' \in 1..(Len(tree.size) + 1) /\ start' \in [Nodes -> Nat]
    BY <1>1, <1>2 DEF Allocate, TypeOK
  <2>6. phase' \in {"allocate", "refused"}
    BY <1>2 DEF Allocate
  <2> QED BY <1>2, <2>1, <2>3, <2>4, <2>5, <2>6 DEF Allocate, TypeOK
<1>3. CASE Allocated \/ Linked \/ Written \/ Damaged \/ Done
  BY <1>1, <1>3 DEF Allocated, Linked, Written, Damaged, Done, written, TypeOK, Nodes
<1>4. CASE Link
  <2>1. tree' = tree /\ Nodes' = Nodes
    BY <1>4, CountsStay DEF Link
  <2>2. \A c \in Clusters : LinkOf(at, c) \in Nat
    BY DEF LinkOf, EndOfChain, Clusters
  <2>3. fat' \in [Clusters -> Nat]
    BY <1>4, <2>2 DEF Link, TypeOK
  <2> QED BY <1>1, <1>4, <2>1, <2>3 DEF Link, TypeOK
<1>5. CASE WriteDirectory
  <2>1. tree' = tree /\ Nodes' = Nodes
    BY <1>5, CountsStay DEF WriteDirectory
  <2>2. ParentCluster(at) \in Nat
    BY <1>1, <1>5, ParentIsANode DEF WriteDirectory, ParentCluster, TypeOK
  <2>3. dotdot' \in [Nodes -> Nat]
    BY <1>5, <2>2 DEF WriteDirectory, TypeOK
  <2> QED BY <1>1, <1>5, <2>1, <2>3 DEF WriteDirectory, TypeOK
<1>6. CASE Read
  <2>1. tree' = tree /\ Nodes' = Nodes /\ UNCHANGED <<next, start, fat, dotdot, at>>
    BY <1>6, CountsStay DEF Read, written
  <2>2. reading' \in Nodes /\ cursor' \in Nat
    BY <1>6 DEF Read, TypeOK
  <2>3. out' \in Seq(Clusters) /\ phase' = "read"
    BY <1>6 DEF Read
  <2> QED BY <1>1, <2>1, <2>2, <2>3 DEF TypeOK
<1>7. CASE Follow
  <2>1. cursor \in Clusters /\ fat[cursor] \in Nat /\ out' = Append(out, cursor)
    BY <1>7 DEF Follow, TypeOK
  <2>2. out' \in Seq(Clusters) /\ cursor' \in Nat
    BY <1>7, <2>1 DEF Follow, TypeOK
  <2> QED BY <1>7, <2>2 DEF Follow, written, TypeOK, Nodes
<1>8. CASE UNCHANGED vars
  BY <1>8 DEF vars, TypeOK, Nodes
<1> QED BY <1>2, <1>3, <1>4, <1>5, <1>6, <1>7, <1>8 DEF Next

LEMMA StepKeepsAllocation ==
    ASSUME IInv, [Next]_vars PROVE Allocation'
<1> USE DEF IInv
<1>1. Len(tree.size) \in Nat /\ Nodes = 1..Len(tree.size) /\ IsTree(tree)
  BY DEF TypeOK, IsTree, Nodes
<1>2. \A n \in Nodes : ClusterCount(n) \in Nat
  BY <1>1, CountIsEnough
<1>3. start \in [Nodes -> Nat] /\ next \in Nat /\ next >= 2 /\ at \in Nat
  BY <1>1, ClustersAssumption DEF TypeOK
<1>4. CASE Allocate
  <2>1. Nodes' = Nodes /\ \A n : ClusterCount(n)' = ClusterCount(n)
    BY <1>4, CountsStay DEF Allocate
  <2>2. phase = "allocate" /\ at \in Nodes
    BY <1>4 DEF Allocate
  <2>3. CASE ClusterCount(at) = 0 /\ at' = at + 1 /\ UNCHANGED <<phase, next, start>>
    BY <1>1, <1>2, <1>3, <2>1, <2>2, <2>3 DEF Allocation
  <2>4. CASE /\ ClusterCount(at) # 0
             /\ start' = [start EXCEPT ![at] = next]
             /\ next' = next + ClusterCount(at)
             /\ at' = at + 1 /\ UNCHANGED phase
    <3>1. /\ start'[at] = next
          /\ \A n \in Nodes : n # at => start'[n] = start[n]
      BY <1>3, <2>2, <2>4
    <3>2. \A n \in Nodes : start'[n] # 0 =>
             start'[n] >= 2 /\ ClusterCount(n) # 0 /\ start'[n] + ClusterCount(n) <= next'
      BY <1>2, <1>3, <2>2, <2>4, <3>1 DEF Allocation
    <3>3. \A m, n \in Nodes : m < n /\ start'[m] # 0 /\ start'[n] # 0 =>
             start'[m] + ClusterCount(m) <= start'[n]
      BY <1>1, <1>2, <1>3, <2>2, <2>4, <3>1 DEF Allocation
    <3>4. \A n \in Nodes : n >= at' => start'[n] = 0
      BY <1>1, <1>3, <2>2, <2>4, <3>1 DEF Allocation
    <3>5. \A n \in Nodes : n < at' /\ ClusterCount(n) # 0 => start'[n] # 0
      BY <1>1, <1>3, <2>2, <2>4, <3>1 DEF Allocation
    <3> QED BY <2>1, <2>2, <2>4, <3>2, <3>3, <3>4, <3>5 DEF Allocation
  <2>5. CASE phase' = "refused" /\ UNCHANGED <<at, next, start>>
    BY <2>1, <2>2, <2>5 DEF Allocation
  <2> QED BY <1>4, <2>3, <2>4, <2>5 DEF Allocate
<1>5. CASE Allocated
  <2>1. Nodes' = Nodes /\ \A n : ClusterCount(n)' = ClusterCount(n)
    BY <1>5, CountsStay DEF Allocated, written
  <2>2. \A n \in Nodes : n < at
    BY <1>1, <1>3, <1>5 DEF Allocated, TypeOK
  <2> QED BY <1>5, <2>1, <2>2 DEF Allocated, written, Allocation
<1>6. CASE Link \/ Linked \/ WriteDirectory \/ Written \/ Read \/ Follow \/ Damaged \/ Done
  <2>1. tree' = tree /\ start' = start /\ next' = next
        /\ phase \notin {"allocate", "refused"} /\ phase' \notin {"allocate", "refused"}
    BY <1>6 DEF Link, Linked, WriteDirectory, Written, Read, Follow, Damaged, Done, written
  <2>2. Nodes' = Nodes /\ \A n : ClusterCount(n)' = ClusterCount(n)
    BY <2>1, CountsStay
  <2> QED BY <2>1, <2>2 DEF Allocation
<1>7. CASE UNCHANGED vars
  <2>1. Nodes' = Nodes /\ \A n : ClusterCount(n)' = ClusterCount(n)
    BY <1>7, CountsStay DEF vars
  <2> QED BY <1>7, <2>1 DEF vars, Allocation
<1> QED BY <1>4, <1>5, <1>6, <1>7 DEF Next

(* A node's clusters by their ends, whatever its state. *)
LEMMA OwnedRange ==
    ASSUME IInv, NEW n \in Nodes, NEW c \in Owned(n)
    PROVE  /\ start[n] # 0 /\ c \in Nat
           /\ start[n] <= c /\ c < start[n] + ClusterCount(n)
<1>1. ClusterCount(n) \in Nat /\ start[n] \in Nat
  BY CountIsEnough DEF IInv, TypeOK
<1> QED BY <1>1 DEF Owned

LEMMA AllocationKeepsApart == IInv => ChainsApart
<1> SUFFICES ASSUME IInv PROVE ChainsApart
  OBVIOUS
<1>1. /\ Len(tree.size) \in Nat /\ Nodes = 1..Len(tree.size) /\ IsTree(tree)
      /\ start \in [Nodes -> Nat] /\ next \in 2..(kMaxDataClusters + 2)
  BY DEF IInv, TypeOK, IsTree, Nodes
<1>2. \A n \in Nodes : ClusterCount(n) \in Nat
  BY <1>1, CountIsEnough
<1>3. ASSUME NEW n \in Nodes, NEW c \in Owned(n) PROVE c \in Clusters
  <2>1. start[n] >= 2 /\ start[n] + ClusterCount(n) <= next
    BY <1>3, OwnedRange DEF IInv, Allocation
  <2> QED BY <1>1, <1>2, <1>3, <2>1, OwnedRange, ClustersAssumption DEF Clusters
<1>4. ASSUME NEW m \in Nodes, NEW n \in Nodes, m < n, NEW c \in Owned(m) PROVE c \notin Owned(n)
  <2> SUFFICES ASSUME c \in Owned(n) PROVE FALSE
    OBVIOUS
  <2>1. start[m] + ClusterCount(m) <= start[n]
    BY <1>4, OwnedRange DEF IInv, Allocation
  <2>2. c \in Nat /\ c < start[m] + ClusterCount(m)
    BY OwnedRange
  <2>3. start[n] <= c
    BY OwnedRange
  <2> QED BY <1>1, <1>2, <2>1, <2>2, <2>3
<1>5. ASSUME NEW m \in Nodes, NEW n \in Nodes, m # n PROVE Owned(m) \cap Owned(n) = {}
  <2>1. m < n \/ n < m
    BY <1>1, <1>5
  <2> QED BY <1>4, <1>5, <2>1
<1> QED BY <1>3, <1>5 DEF ChainsApart

-----------------------------------------------------------------------------
LEMMA StepKeepsLinking ==
    ASSUME IInv, [Next]_vars PROVE Linking'
<1>1. /\ Len(tree.size) \in Nat /\ Nodes = 1..Len(tree.size)
      /\ at \in Nat /\ Linking
  BY DEF IInv, TypeOK, IsTree, Nodes
<1>2. CASE Allocate
  BY <1>2 DEF Allocate, Linking
<1>3. CASE Allocated
  <2>1. Nodes' = Nodes /\ phase' = "link" /\ at' = 1
    BY <1>3, CountsStay DEF Allocated, written
  <2>2. \A n \in Nodes : n >= 1
    BY <1>1
  <2> QED BY <2>1, <2>2 DEF Linking
<1>4. CASE Link
  <2>1. /\ Nodes' = Nodes /\ start' = start /\ at' = at + 1 /\ at \in Nodes /\ phase = "link"
        /\ \A n : ClusterCount(n)' = ClusterCount(n)
        /\ fat' = [c \in Clusters |-> IF c \in Owned(at) THEN LinkOf(at, c) ELSE fat[c]]
    BY <1>4, CountsStay DEF Link
  <2>2. /\ \A n : Owned(n)' = Owned(n)
        /\ \A n, c : LinkOf(n, c)' = LinkOf(n, c)
    BY <2>1 DEF Owned, LinkOf
  <2>3. ASSUME NEW n \in Nodes, n < at + 1, NEW c \in Owned(n) PROVE fat'[c] = LinkOf(n, c)
    <3>1. c \in Clusters
      BY AllocationKeepsApart DEF ChainsApart
    <3>2. CASE n = at
      <4>1. c \in Owned(at) /\ LinkOf(n, c) = LinkOf(at, c)
        BY <2>3, <3>2
      <4> QED BY <2>1, <3>1, <4>1
    <3>3. CASE n # at
      <4>1. c \notin Owned(at)
        BY <2>1, <2>3, <3>3, AllocationKeepsApart DEF ChainsApart
      <4>2. fat[c] = LinkOf(n, c)
        BY <1>1, <2>1, <2>3, <3>3 DEF Linking
      <4> QED BY <2>1, <3>1, <4>1, <4>2
    <3> QED BY <3>2, <3>3
  <2>4. \A n \in Nodes : n >= at + 1 \/ \A c \in Owned(n) : fat'[c] = LinkOf(n, c)
    BY <1>1, <2>3
  <2>5. phase' = "link"
    BY <1>4 DEF Link
  <2> QED BY <2>1, <2>2, <2>4, <2>5 DEF Linking
<1>5. CASE Linked
  <2>1. /\ tree' = tree /\ start' = start /\ fat' = fat /\ phase = "link"
        /\ phase' = "directories" /\ at \notin Nodes
    BY <1>5 DEF Linked, written
  <2>2. Nodes' = Nodes /\ \A n : ClusterCount(n)' = ClusterCount(n)
    BY <2>1, CountsStay
  <2>3. /\ \A n : Owned(n)' = Owned(n)
        /\ \A n, c : LinkOf(n, c)' = LinkOf(n, c)
    BY <2>1, <2>2 DEF Owned, LinkOf
  <2>4. \A n \in Nodes : n < at
    BY <1>1, <2>1 DEF IInv, TypeOK
  <2>5. \A n \in Nodes : \A c \in Owned(n) : fat[c] = LinkOf(n, c)
    BY <1>1, <2>1, <2>4 DEF Linking
  <2> QED BY <2>1, <2>2, <2>3, <2>5 DEF Linking
<1>6. CASE WriteDirectory \/ Written \/ Read \/ Follow \/ Damaged \/ Done \/ UNCHANGED vars
  <2>1. /\ tree' = tree /\ start' = start /\ fat' = fat
        /\ \/ phase' = phase /\ at' = at
           \/ phase \notin {"allocate", "refused", "link"} /\ phase' # "link"
    BY <1>6 DEF WriteDirectory, Written, Read, Follow, Damaged, Done, vars, written
  <2>2. Nodes' = Nodes /\ \A n : ClusterCount(n)' = ClusterCount(n)
    BY <2>1, CountsStay
  <2>3. /\ \A n : Owned(n)' = Owned(n)
        /\ \A n, c : LinkOf(n, c)' = LinkOf(n, c)
    BY <2>1, <2>2 DEF Owned, LinkOf
  <2> QED BY <1>1, <2>1, <2>2, <2>3 DEF Linking
<1> QED BY <1>2, <1>3, <1>4, <1>5, <1>6 DEF Next

LEMMA StepKeepsDots ==
    ASSUME IInv, [Next]_vars PROVE Dots'
<1>1. /\ Len(tree.size) \in Nat /\ Nodes = 1..Len(tree.size)
      /\ at \in Nat /\ Dots /\ dotdot \in [Nodes -> Nat]
  BY DEF IInv, TypeOK, IsTree, Nodes
<1>2. CASE Allocate \/ Allocated \/ Link
  BY <1>2 DEF Allocate, Allocated, Link, Dots
<1>3. CASE Linked
  <2>1. Nodes' = Nodes /\ phase' = "directories" /\ at' = 1
    BY <1>3, CountsStay DEF Linked, written
  <2> QED BY <1>1, <2>1 DEF Dots
<1>4. CASE WriteDirectory
  <2>1. /\ Nodes' = Nodes /\ tree' = tree /\ start' = start /\ at' = at + 1 /\ at \in Nodes
        /\ phase = "directories" /\ phase' = "directories"
        /\ dotdot' = IF tree.isDir[at] THEN [dotdot EXCEPT ![at] = ParentCluster(at)] ELSE dotdot
    BY <1>4, CountsStay DEF WriteDirectory
  <2>2. \A n : ParentCluster(n)' = ParentCluster(n)
    BY <2>1 DEF ParentCluster
  <2>3. ASSUME NEW n \in Nodes, tree.isDir[n], n < at + 1 PROVE dotdot'[n] = ParentCluster(n)
    <3>1. CASE n = at
      BY <1>1, <2>1, <2>3, <3>1
    <3>2. CASE n # at
      BY <1>1, <2>1, <2>3, <3>2 DEF Dots
    <3> QED BY <3>1, <3>2
  <2>4. \A n \in Nodes : tree.isDir[n] => n >= at + 1 \/ dotdot'[n] = ParentCluster(n)
    BY <1>1, <2>3
  <2> QED BY <2>1, <2>2, <2>4 DEF Dots
<1>5. CASE Written
  <2>1. /\ Nodes' = Nodes /\ tree' = tree /\ start' = start /\ dotdot' = dotdot
        /\ phase = "directories" /\ phase' = "written" /\ at \notin Nodes
    BY <1>5, CountsStay DEF Written, written
  <2>2. \A n : ParentCluster(n)' = ParentCluster(n)
    BY <2>1 DEF ParentCluster
  <2>3. \A n \in Nodes : n < at
    BY <1>1, <2>1 DEF IInv, TypeOK
  <2> QED BY <1>1, <2>1, <2>2, <2>3 DEF Dots
<1>6. CASE Read \/ Follow \/ Damaged \/ Done \/ UNCHANGED vars
  <2>1. /\ tree' = tree /\ start' = start /\ dotdot' = dotdot
        /\ \/ phase' = phase /\ at' = at
           \/ phase \in {"written", "read", "ok"} /\ phase' # "directories"
    BY <1>6 DEF Read, Follow, Damaged, Done, vars, written
  <2>2. Nodes' = Nodes
    BY <2>1, CountsStay
  <2>3. \A n : ParentCluster(n)' = ParentCluster(n)
    BY <2>1 DEF ParentCluster
  <2> QED BY <1>1, <2>1, <2>2, <2>3 DEF Dots
<1> QED BY <1>2, <1>3, <1>4, <1>5, <1>6 DEF Next

-----------------------------------------------------------------------------
(* Where the reader goes from its node's k-th cluster. *)
LEMMA ChainGoesOn ==
    ASSUME IInv, phase = "read", Len(out) < ClusterCount(reading)
    PROVE  /\ reading \in Nodes /\ start[reading] # 0
           /\ cursor = start[reading] + Len(out)
           /\ cursor \in Owned(reading) /\ cursor \in Clusters
           /\ fat[cursor] = LinkOf(reading, cursor)
<1>1. reading \in Nodes /\ cursor = start[reading] + Len(out)
  BY DEF IInv, Reading
<1>2. ClusterCount(reading) \in Nat /\ Len(out) \in Nat /\ start \in [Nodes -> Nat]
  BY <1>1, CountIsEnough DEF IInv, TypeOK
<1>3. start[reading] # 0
  BY <1>1, <1>2 DEF IInv, Allocation
<1>4. cursor \in Owned(reading)
  BY <1>1, <1>2, <1>3 DEF Owned
<1>5. cursor \in Clusters
  BY <1>1, <1>4, AllocationKeepsApart DEF ChainsApart
<1>6. fat[cursor] = LinkOf(reading, cursor)
  BY <1>1, <1>4 DEF IInv, Linking
<1> QED BY <1>1, <1>3, <1>4, <1>5, <1>6

(* While the node has clusters left the reader is inside the chain, on one it has not
   seen; when it has them all it has come to the chain's end. *)
LEMMA ReaderKnowsTheEnd ==
    ASSUME IInv, phase = "read"
    PROVE  /\ Len(out) < ClusterCount(reading) => InChain /\ ~Seen(cursor) /\ cursor \in Clusters
           /\ Len(out) = ClusterCount(reading) => ~InChain
           /\ Len(out) <= ClusterCount(reading)
           /\ reading \in Nodes /\ ClusterCount(reading) \in Nat /\ Len(out) \in Nat
<1>1. reading \in Nodes /\ Len(out) <= ClusterCount(reading) /\ out \in Seq(Clusters)
  BY DEF IInv, Reading, TypeOK
<1>2. ClusterCount(reading) \in Nat /\ Len(out) \in Nat /\ start \in [Nodes -> Nat]
  BY <1>1, CountIsEnough DEF IInv, TypeOK
<1>3. ASSUME Len(out) < ClusterCount(reading)
      PROVE  InChain /\ ~Seen(cursor) /\ cursor \in Clusters
  <2>1. cursor \in Clusters /\ cursor = start[reading] + Len(out)
    BY <1>3, ChainGoesOn
  <2>2. InChain
    BY <2>1, ClustersAssumption DEF InChain, Clusters, LastInChain
  <2>3. \A k \in DOMAIN out : k \in 1..Len(out) /\ out[k] = start[reading] + k - 1
    BY <1>1 DEF IInv, Reading
  <2>4. ~Seen(cursor)
    BY <1>1, <1>2, <2>1, <2>3 DEF Seen
  <2> QED BY <2>1, <2>2, <2>4
<1>4. Len(out) = ClusterCount(reading) => ~InChain
  BY DEF IInv, Reading, InChain, LastInChain, EndOfChain
<1> QED BY <1>1, <1>2, <1>3, <1>4

LEMMA StepKeepsReading ==
    ASSUME IInv, [Next]_vars PROVE Reading' /\ phase' # "damaged"
<1>1. CASE Allocate \/ Allocated \/ Link \/ Linked \/ WriteDirectory \/ Written
  BY <1>1 DEF Allocate, Allocated, Link, Linked, WriteDirectory, Written, Reading, IInv
<1>2. CASE Read
  <2>1. /\ tree' = tree /\ start' = start /\ reading' \in Nodes /\ cursor' = start[reading']
        /\ out' = <<>> /\ phase' = "read" /\ phase = "written"
    BY <1>2 DEF Read, written
  <2>2. Nodes' = Nodes /\ \A n : ClusterCount(n)' = ClusterCount(n)
    BY <2>1, CountsStay
  <2>3. start \in [Nodes -> Nat] /\ \A n \in Nodes : ClusterCount(n) \in Nat
    <3>1. IsTree(tree) /\ start \in [Nodes -> Nat]
      BY DEF IInv, TypeOK
    <3> QED BY <3>1, CountIsEnough
  <2>4. ClusterCount(reading') = 0 => start[reading'] = 0
    BY <2>1 DEF IInv, Allocation
  <2>5. ClusterCount(reading)' = ClusterCount(reading')
    BY <2>1 DEF ClusterCount, Bytes, Children, Nodes
  <2>6. Len(out') = 0 /\ DOMAIN out' = {}
    BY <2>1
  <2> QED BY <2>1, <2>2, <2>3, <2>4, <2>5, <2>6 DEF Reading
<1>3. CASE Follow
  <2>1. /\ tree' = tree /\ start' = start /\ reading' = reading /\ phase' = "read"
        /\ phase = "read" /\ out' = Append(out, cursor) /\ cursor' = fat[cursor] /\ InChain
        /\ out \in Seq(Clusters) /\ cursor \in Clusters
    BY <1>3 DEF Follow, written, IInv, TypeOK
  <2>2. Nodes' = Nodes /\ ClusterCount(reading)' = ClusterCount(reading)
    BY <2>1, CountsStay
  <2>3. Len(out) < ClusterCount(reading) /\ reading \in Nodes
        /\ ClusterCount(reading) \in Nat /\ Len(out) \in Nat
    BY <2>1, ReaderKnowsTheEnd
  <2>4. cursor = start[reading] + Len(out) /\ cursor' = LinkOf(reading, cursor)
    BY <2>1, <2>3, ChainGoesOn
  <2>5. Len(out') = Len(out) + 1 /\ DOMAIN out' = 1..(Len(out) + 1)
    BY <2>1
  <2>6. \A k \in DOMAIN out' : out'[k] = start[reading] + k - 1
    <3> SUFFICES ASSUME NEW k \in 1..(Len(out) + 1) PROVE out'[k] = start[reading] + k - 1
      BY <2>5
    <3>1. CASE k = Len(out) + 1
      BY <2>1, <2>3, <2>4, <3>1 DEF IInv, TypeOK
    <3>2. CASE k # Len(out) + 1
      <4>1. k \in 1..Len(out) /\ out'[k] = out[k]
        BY <2>1, <2>3, <3>2
      <4> QED BY <2>1, <4>1 DEF IInv, Reading
    <3> QED BY <3>1, <3>2
  <2>7. start[reading] \in Nat
    BY <2>3 DEF IInv, TypeOK
  <2>8. IF Len(out') = ClusterCount(reading) THEN cursor' = EndOfChain
        ELSE cursor' = start[reading] + Len(out')
    BY <2>3, <2>4, <2>5, <2>7 DEF LinkOf
  <2>9. Len(out') <= ClusterCount(reading)
    BY <2>3, <2>5
  <2> QED BY <2>1, <2>2, <2>3, <2>6, <2>8, <2>9 DEF Reading
<1>4. CASE Damaged
  <2>1. phase = "read"
    BY <1>4 DEF Damaged
  <2>2. Len(out) * kClusterSize < Bytes(reading) => Len(out) # ClusterCount(reading)
    <3>1. reading \in Nodes
      BY <2>1, ReaderKnowsTheEnd
    <3>2. ClusterCount(reading) * kClusterSize >= Bytes(reading) /\ Bytes(reading) \in Nat
          /\ ClusterCount(reading) \in Nat
      BY <3>1, CountIsEnough DEF IInv, TypeOK
    <3> QED BY <3>2 DEF kClusterSize
  <2> QED BY <1>4, <2>1, <2>2, ReaderKnowsTheEnd DEF Damaged
<1>5. CASE Done
  <2>1. /\ tree' = tree /\ start' = start /\ reading' = reading /\ phase' = "ok" /\ phase = "read"
        /\ out' = out /\ cursor' = cursor /\ ~InChain
    BY <1>5 DEF Done, written
  <2>2. Nodes' = Nodes /\ ClusterCount(reading)' = ClusterCount(reading)
    BY <2>1, CountsStay
  <2>3. Len(out) = ClusterCount(reading)
    BY <2>1, ReaderKnowsTheEnd
  <2> QED BY <2>1, <2>2, <2>3 DEF Reading, IInv
<1>6. CASE UNCHANGED vars
  <2>1. Nodes' = Nodes /\ ClusterCount(reading)' = ClusterCount(reading)
    BY <1>6, CountsStay DEF vars
  <2> QED BY <1>6, <2>1 DEF vars, Reading, IInv
<1> QED BY <1>1, <1>2, <1>3, <1>4, <1>5, <1>6 DEF Next

-----------------------------------------------------------------------------
THEOREM InvariantHolds == Spec => []IInv
<1>1. IInv /\ [Next]_vars => IInv'
  BY StepKeepsTypes, StepKeepsAllocation, StepKeepsLinking, StepKeepsDots, StepKeepsReading
     DEF IInv
<1> QED BY InitialState, <1>1, PTL DEF Spec

(* Every state of every layout is well-formed, the allocation's counter included. *)
THEOREM TypesHold == Spec => []TypeOK
<1>1. IInv => TypeOK
  BY DEF IInv
<1> QED BY InvariantHolds, <1>1, PTL

(* No two entries of a written disk share a cluster, and none has one off the disk. *)
THEOREM ClustersAreApart == Spec => []ChainsApart
BY InvariantHolds, AllocationKeepsApart, PTL

(* readChain never calls damaged what writeImage wrote, and yields exactly its clusters. *)
THEOREM WrittenChainsReadBack == Spec => []ReadsBack
<1>1. IInv => ReadsBack
  BY DEF IInv, Reading, ReadsBack
<1> QED BY InvariantHolds, <1>1, PTL

(* Every folder's ".." names its parent's own cluster. *)
THEOREM ParentsAreNamed == Spec => []ParentIsNamed
<1>1. ASSUME IInv PROVE ParentIsNamed
  <2> SUFFICES ASSUME phase \in {"written", "read", "ok"}, NEW n \in Nodes, tree.isDir[n]
               PROVE  IF tree.parent[n] = 0 THEN dotdot[n] = 0
                      ELSE dotdot[n] \in Owned(tree.parent[n])
    BY DEF ParentIsNamed
  <2>1. dotdot[n] = ParentCluster(n)
    BY <1>1 DEF IInv, Dots
  <2>2. CASE tree.parent[n] = 0
    BY <2>1, <2>2 DEF ParentCluster
  <2>3. CASE tree.parent[n] # 0
    <3> DEFINE p == tree.parent[n]
    <3>1. p \in Nodes /\ tree.isDir[p]
      BY <1>1, <2>3, ParentIsANode DEF IInv, TypeOK
    <3>2. ClusterCount(p) \in Nat /\ ClusterCount(p) # 0
      BY <1>1, <3>1, CountIsEnough DEF IInv, TypeOK
    <3>3. start[p] # 0 /\ start[p] \in Nat
      BY <1>1, <3>1, <3>2 DEF IInv, Allocation, TypeOK
    <3>4. start[p] \in Owned(p)
      BY <3>2, <3>3 DEF Owned
    <3> QED BY <2>1, <2>3, <3>4 DEF ParentCluster
  <2> QED BY <2>2, <2>3
<1> QED BY InvariantHolds, <1>1, PTL

(* What was written reads back whole, under its parent.                    *)
THEOREM WrittenIsReadBack == Spec => []WrittenReadsBack
<1>1. ReadsBack /\ ParentIsNamed => WrittenReadsBack
  BY DEF WrittenReadsBack
<1> QED
  BY <1>1, WrittenChainsReadBack, ParentsAreNamed, PTL
=============================================================================

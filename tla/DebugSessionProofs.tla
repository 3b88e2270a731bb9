------------------------- MODULE DebugSessionProofs -------------------------
(***************************************************************************)
(* What DebugSession promises, proved for every program, breakpoint list   *)
(* and number of steps, sessions and edits.  The invariant, IInv, speaks   *)
(* of the line: the command in flight and those behind it.  A line changes *)
(* in four ways - more is put behind it, its head goes out, what was in    *)
(* flight is done, a Continue thins it - and the first lemmas say what     *)
(* each way keeps of each part of the invariant.  Each handler is then     *)
(* shown to take a good frame to a good frame, each action to be such a    *)
(* handler and a dispatch, and the theorems follow.                        *)
(***************************************************************************)
EXTENDS DebugSessionInv, SequenceLemmas, FiniteSetTheorems, FunctionTheorems, TLAPS

(* What a Continue keeps of a queue: all that is kept, in its order.        *)
LEMMA KeptIs ==
  ASSUME NEW q \in Seq(Requests)
  PROVE  /\ Kept(q) \in Seq(Requests)
         /\ \E h \in [1..Len(Kept(q)) -> DOMAIN q] :
              /\ \A i, j \in 1..Len(Kept(q)) : i < j => h[i] < h[j]
              /\ \A i \in 1..Len(Kept(q)) : Kept(q)[i] = q[h[i]] /\ Keeps(q[h[i]])
              /\ \A k \in DOMAIN q : Keeps(q[k]) => \E i \in 1..Len(Kept(q)) : h[i] = k
<1> DEFINE places == {i \in DOMAIN q : Keeps(q[i])}
           Below(i) == {j \in places : j <= i}
           N == Cardinality(places)
           rank == [i \in places |-> Cardinality(Below(i))]
           Place(n) == CHOOSE i \in places : Cardinality(Below(i)) = n
<1>1. /\ Len(q) \in Nat /\ DOMAIN q = 1..Len(q) /\ places \subseteq 1..Len(q)
      /\ \A i \in DOMAIN q : q[i] \in Requests
  OBVIOUS
<1>2. IsFiniteSet(places) /\ N \in Nat
  <2>1. IsFiniteSet(1..Len(q))
    BY <1>1, FS_Interval
  <2> QED BY <1>1, <2>1, FS_Subset, FS_CardinalityType
<1>3. \A i \in places : /\ IsFiniteSet(Below(i)) /\ Cardinality(Below(i)) \in Nat
                        /\ Cardinality(Below(i)) <= N /\ Cardinality(Below(i)) # 0
  <2>1. SUFFICES ASSUME NEW i \in places
        PROVE  /\ IsFiniteSet(Below(i)) /\ Cardinality(Below(i)) \in Nat
               /\ Cardinality(Below(i)) <= N /\ Cardinality(Below(i)) # 0
    BY <2>1
  <2>2. Below(i) \in SUBSET places /\ i \in Below(i)
    BY <1>1
  <2> HIDE DEF places
  <2>3. IsFiniteSet(Below(i)) /\ Cardinality(Below(i)) <= N
    BY <1>2, <2>2, FS_Subset
  <2>4. Cardinality(Below(i)) \in Nat
    BY <2>3, FS_CardinalityType
  <2>5. Cardinality(Below(i)) # 0
    BY <2>2, <2>3, FS_EmptySet
  <2> QED BY <2>3, <2>4, <2>5
<1>4. \A i, j \in places : i < j => Cardinality(Below(i)) < Cardinality(Below(j))
  <2>1. SUFFICES ASSUME NEW i \in places, NEW j \in places, i < j
        PROVE  Cardinality(Below(i)) < Cardinality(Below(j))
    BY <2>1
  <2>2. Below(i) \in SUBSET Below(j) /\ j \in Below(j) /\ j \notin Below(i)
    BY <1>1, <2>1
  <2>3. IsFiniteSet(Below(j))
    BY <1>3
  <2>4. /\ Cardinality(Below(i)) <= Cardinality(Below(j))
        /\ Cardinality(Below(j)) = Cardinality(Below(i)) => Below(j) = Below(i)
    <3> HIDE DEF Below
    <3> QED BY <2>2, <2>3, FS_Subset
  <2>5. Cardinality(Below(i)) # Cardinality(Below(j))
    BY <2>2, <2>4
  <2>6. Cardinality(Below(i)) \in Nat /\ Cardinality(Below(j)) \in Nat
    BY <1>3
  <2> HIDE DEF Below
  <2> QED BY <2>4, <2>5, <2>6
<1>5. \A i, j \in places : Cardinality(Below(i)) < Cardinality(Below(j)) => i < j
  <2>1. \A i, j \in places : i < j \/ i = j \/ j < i
    BY <1>1
  <2> HIDE DEF places, Below
  <2> QED BY <1>3, <1>4, <2>1
<1>6. \A i, j \in places : Cardinality(Below(i)) = Cardinality(Below(j)) => i = j
  <2>1. \A i, j \in places : i < j \/ i = j \/ j < i
    BY <1>1
  <2> HIDE DEF places, Below
  <2> QED BY <1>3, <1>4, <2>1
<1>7. rank \in Surjection(places, 1..N)
  <2> HIDE DEF places, Below
  <2>1. rank \in [places -> 1..N]
    BY <1>2, <1>3
  <2>2. rank \in Injection(places, 1..N)
    BY <1>6, <2>1 DEF Injection, IsInjective
  <2>3. IsFiniteSet(1..N) /\ Cardinality(1..N) = N
    BY <1>2, FS_Interval
  <2> HIDE DEF rank
  <2> QED BY <2>2, <2>3, FS_Injection
<1>8. \A n \in 1..N : \E i \in places : Cardinality(Below(i)) = n
  <2> HIDE DEF places, Below
  <2> QED BY <1>7 DEF Surjection
<1>9. \A n \in 1..N : Place(n) \in places /\ Cardinality(Below(Place(n))) = n
  <2> HIDE DEF places, Below
  <2> QED BY <1>8
<1>10. Kept(q) = [n \in 1..N |-> q[Place(n)]]
  BY DEF Kept
<1> DEFINE h == [n \in 1..N |-> Place(n)]
<1>11. Kept(q) \in Seq(Requests) /\ Len(Kept(q)) = N
  <2>1. \A n \in 1..N : q[Place(n)] \in Requests
    BY <1>1, <1>9
  <2> HIDE DEF N, Place
  <2> QED BY <1>2, <1>10, <2>1
<1>12. h \in [1..N -> DOMAIN q]
  BY <1>9
<1>13. \A i, j \in 1..N : i < j => h[i] < h[j]
  <2> HIDE DEF places, Below, Place
  <2>1. SUFFICES ASSUME NEW i \in 1..N, NEW j \in 1..N, i < j
        PROVE  Place(i) < Place(j)
    BY <2>1
  <2> QED BY <1>5, <1>9, <2>1
<1>14. \A i \in 1..N : Kept(q)[i] = q[h[i]] /\ Keeps(q[h[i]])
  <2>1. \A i \in 1..N : Keeps(q[Place(i)])
    BY <1>9
  <2> HIDE DEF N, Place
  <2> QED BY <1>10, <2>1
<1>15. \A k \in DOMAIN q : Keeps(q[k]) => \E i \in 1..N : h[i] = k
  <2>1. SUFFICES ASSUME NEW k \in places PROVE \E i \in 1..N : Place(i) = k
    BY <2>1
  <2> DEFINE r == Cardinality(Below(k))
  <2>2. r \in 1..N
    <3> HIDE DEF places, Below
    <3> QED BY <1>2, <1>3
  <2>3. Place(r) \in places /\ Cardinality(Below(Place(r))) = r
    <3> HIDE DEF places, Below, r, Place
    <3> QED BY <1>9, <2>2
  <2>4. Place(r) = k
    <3> HIDE DEF places, Below, Place
    <3> QED BY <1>6, <2>3
  <2> HIDE DEF places, Below, r, Place, N
  <2> QED BY <2>2, <2>4
<1> HIDE DEF N, h
<1> QED BY <1>11, <1>12, <1>13, <1>14, <1>15

Commands == Requests \union {NoCommand}

(* A line of commands, the one in flight at place 0.                        *)
IsLine(L) == \E n \in Nat : DOMAIN L = 0..n /\ \A i \in 0..n : L[i] \in Commands

(* M is L with more behind it.                                              *)
Grown(L, M, b) ==
  \E n, k \in Nat :
    /\ DOMAIN L = 0..n /\ DOMAIN M = 0..(n + k) /\ DOMAIN b = 1..k
    /\ \A i \in 0..n : M[i] = L[i]
    /\ \A i \in 1..k : M[n + i] = b[i]

(* M is L when its head has gone out.                                       *)
Shifted(L, M) ==
  \E n \in Nat :
    /\ DOMAIN L = 0..(n + 1) /\ DOMAIN M = 0..n /\ L[0] = NoCommand
    /\ \A i \in 0..n : M[i] = L[i + 1]

(* M is L when what was in flight is done.                                  *)
Emptied(L, M) ==
  /\ DOMAIN M = DOMAIN L /\ 0 \in DOMAIN L /\ M[0] = NoCommand
  /\ \E n \in Nat : DOMAIN L = 0..n
  /\ \A i \in DOMAIN L : i # 0 => M[i] = L[i]

(* M is what a Continue leaves of L.                                        *)
Thinned(L, M) ==
  \E n, k \in Nat : \E h \in [0..k -> 0..n] :
    /\ DOMAIN L = 0..n /\ DOMAIN M = 0..k /\ h[0] = 0
    /\ \A i, j \in 0..k : i < j => h[i] < h[j]
    /\ \A i \in 0..k : M[i] = L[h[i]] /\ (i = 0 \/ Keeps(M[i]))
    /\ \A i \in 0..n : Keeps(L[i]) => \E j \in 0..k : h[j] = i

(* The places of a line.                                                    *)
LEMMA LineIs ==
  ASSUME NEW q \in Seq(Requests), NEW c \in Commands
  PROVE  /\ Len(q) \in Nat /\ DOMAIN q = 1..Len(q) /\ DOMAIN Line(c, q) = 0..Len(q)
         /\ Line(c, q)[0] = c
         /\ \A i \in 1..Len(q) : Line(c, q)[i] = q[i] /\ q[i] \in Requests
         /\ IsLine(Line(c, q))
<1>1. /\ Len(q) \in Nat /\ DOMAIN q = 1..Len(q)
      /\ \A i \in 1..Len(q) : q[i] \in Requests
  OBVIOUS
<1>2. DOMAIN Line(c, q) = 0..Len(q) /\ Line(c, q)[0] = c
  BY <1>1 DEF Line
<1>3. \A i \in 1..Len(q) : Line(c, q)[i] = q[i]
  BY <1>1 DEF Line
<1>4. \A i \in 0..Len(q) : Line(c, q)[i] \in Commands
  <2> TAKE i \in 0..Len(q)
  <2>1. CASE i = 0
    BY <1>2, <2>1
  <2>2. CASE i # 0
    <3>1. i \in 1..Len(q)
      BY <1>1, <2>2
    <3> QED BY <1>1, <1>3, <3>1 DEF Commands
  <2> QED BY <2>1, <2>2
<1> QED BY <1>1, <1>2, <1>3, <1>4 DEF IsLine

(* What is put behind a queue is put behind its line.                       *)
LEMMA LineGrows ==
  ASSUME NEW q \in Seq(Requests), NEW c \in Commands, NEW b \in Seq(Requests)
  PROVE  q \o b \in Seq(Requests) /\ Grown(Line(c, q), Line(c, q \o b), b)
<1>1. /\ q \o b \in Seq(Requests) /\ Len(q \o b) = Len(q) + Len(b)
      /\ Len(q) \in Nat /\ Len(b) \in Nat /\ DOMAIN b = 1..Len(b)
      /\ \A i \in 1..Len(q) : (q \o b)[i] = q[i]
      /\ \A i \in 1..Len(b) : (q \o b)[Len(q) + i] = b[i]
  BY ConcatIs
<1> DEFINE L == Line(c, q)
           M == Line(c, q \o b)
<1>2. /\ DOMAIN L = 0..Len(q) /\ DOMAIN M = 0..(Len(q) + Len(b)) /\ L[0] = c /\ M[0] = c
      /\ \A i \in 1..Len(q) : L[i] = q[i]
      /\ \A i \in 1..(Len(q) + Len(b)) : M[i] = (q \o b)[i]
  BY <1>1, LineIs
<1> HIDE DEF L, M
<1>3. \A i \in 0..Len(q) : M[i] = L[i]
  <2> TAKE i \in 0..Len(q)
  <2>1. i = 0 \/ i \in 1..Len(q)
    BY <1>1
  <2>2. i # 0 => i \in 1..(Len(q) + Len(b))
    BY <1>1
  <2> QED BY <1>1, <1>2, <2>1, <2>2
<1>4. \A i \in 1..Len(b) : M[Len(q) + i] = b[i]
  <2> TAKE i \in 1..Len(b)
  <2>1. Len(q) + i \in 1..(Len(q) + Len(b))
    BY <1>1
  <2> QED BY <1>1, <1>2, <2>1
<1>5. Grown(L, M, b)
  BY <1>1, <1>2, <1>3, <1>4 DEF Grown
<1> QED BY <1>1, <1>5 DEF L, M

(* When the head of the queue goes out, the line shifts.                    *)
LEMMA LineShifts ==
  ASSUME NEW q \in Seq(Requests), q # <<>>
  PROVE  /\ Tail(q) \in Seq(Requests) /\ Head(q) \in Requests
         /\ Shifted(Line(NoCommand, q), Line(Head(q), Tail(q)))
<1>1. /\ Tail(q) \in Seq(Requests) /\ Len(Tail(q)) = Len(q) - 1
      /\ \A i \in 1 .. Len(q) - 1 : Tail(q)[i] = q[i + 1]
      /\ Head(q) = q[1] /\ Head(q) \in Requests /\ Len(q) \in Nat \ {0}
  BY TailIs
<1> DEFINE L == Line(NoCommand, q)
           M == Line(Head(q), Tail(q))
           n == Len(q) - 1
<1>2. NoCommand \in Commands /\ Head(q) \in Commands
  BY <1>1 DEF Commands
<1>3. /\ DOMAIN L = 0..Len(q) /\ L[0] = NoCommand /\ DOMAIN M = 0..Len(Tail(q))
      /\ \A i \in 1..Len(q) : L[i] = q[i]
      /\ \A i \in 1..Len(Tail(q)) : M[i] = Tail(q)[i]
      /\ M[0] = Head(q)
  BY <1>1, <1>2, LineIs
<1>4. n \in Nat /\ Len(q) = n + 1
  BY <1>1
<1> HIDE DEF L, M, n
<1>5. \A i \in 0..n : M[i] = L[i + 1]
  <2> TAKE i \in 0..n
  <2>1. i + 1 \in 1..Len(q) /\ (i = 0 \/ i \in 1..n)
    BY <1>4
  <2>2. Len(Tail(q)) = n
    BY <1>1, <1>4
  <2> QED BY <1>1, <1>3, <1>4, <2>1, <2>2
<1>6. Len(Tail(q)) = n
  BY <1>1, <1>4
<1>7. Shifted(L, M)
  BY <1>3, <1>4, <1>5, <1>6 DEF Shifted
<1> QED BY <1>1, <1>7 DEF L, M

(* When the command in flight is done, its place is empty.                  *)
LEMMA LineEmpties ==
  ASSUME NEW q \in Seq(Requests), NEW c \in Commands
  PROVE  Emptied(Line(c, q), Line(NoCommand, q))
<1>1. NoCommand \in Commands
  BY DEF Commands
<1> QED BY <1>1, LineIs DEF Emptied

(* A Continue thins the line.                                               *)
LEMMA LineThins ==
  ASSUME NEW q \in Seq(Requests), NEW c \in Commands
  PROVE  Kept(q) \in Seq(Requests) /\ Thinned(Line(c, q), Line(c, Kept(q)))
<1> DEFINE L == Line(c, q)
           M == Line(c, Kept(q))
           n == Len(q)
           k == Len(Kept(q))
<1>1. Kept(q) \in Seq(Requests)
  BY KeptIs
<1>2. PICK h \in [1..k -> DOMAIN q] :
        /\ \A i, j \in 1..k : i < j => h[i] < h[j]
        /\ \A i \in 1..k : Kept(q)[i] = q[h[i]] /\ Keeps(q[h[i]])
        /\ \A l \in DOMAIN q : Keeps(q[l]) => \E i \in 1..k : h[i] = l
  BY KeptIs
<1>3. /\ n \in Nat /\ DOMAIN q = 1..n /\ DOMAIN L = 0..n /\ L[0] = c
      /\ \A i \in 1..n : L[i] = q[i]
  BY LineIs
<1>4. /\ k \in Nat /\ DOMAIN M = 0..k /\ M[0] = c
      /\ \A i \in 1..k : M[i] = Kept(q)[i]
  BY <1>1, LineIs
<1> HIDE DEF L, M, n, k
<1> DEFINE g == [i \in 0..k |-> IF i = 0 THEN 0 ELSE h[i]]
<1>5. /\ g \in [0..k -> 0..n] /\ g[0] = 0
      /\ \A i \in 1..k : g[i] = h[i] /\ h[i] \in 1..n
  BY <1>2, <1>3, <1>4
<1> HIDE DEF g
<1>6. \A i, j \in 0..k : i < j => g[i] < g[j]
  <2> SUFFICES ASSUME NEW i \in 0..k, NEW j \in 0..k, i < j PROVE g[i] < g[j]
    OBVIOUS
  <2>1. j \in 1..k /\ (i = 0 \/ i \in 1..k)
    BY <1>4
  <2>2. CASE i = 0
    BY <1>3, <1>5, <2>1, <2>2
  <2>3. CASE i \in 1..k
    BY <1>2, <1>5, <2>1, <2>3
  <2> QED BY <2>1, <2>2, <2>3
<1>7. \A i \in 0..k : M[i] = L[g[i]] /\ (i = 0 \/ Keeps(M[i]))
  <2> TAKE i \in 0..k
  <2>1. CASE i = 0
    BY <1>3, <1>4, <1>5, <2>1
  <2>2. CASE i \in 1..k
    BY <1>2, <1>3, <1>4, <1>5, <2>2
  <2> QED BY <1>4, <2>1, <2>2
<1>8. \A i \in 0..n : Keeps(L[i]) => \E j \in 0..k : g[j] = i
  <2> SUFFICES ASSUME NEW i \in 0..n, Keeps(L[i]) PROVE \E j \in 0..k : g[j] = i
    OBVIOUS
  <2>1. CASE i = 0
    BY <1>4, <1>5, <2>1
  <2>2. CASE i \in 1..n
    <3>1. PICK j \in 1..k : h[j] = i
      BY <1>2, <1>3, <2>2
    <3>2. j \in 0..k /\ g[j] = i
      BY <1>4, <1>5, <3>1
    <3> QED BY <3>2
  <2> QED BY <1>3, <2>1, <2>2
<1>9. Thinned(L, M)
  BY <1>3, <1>4, <1>5, <1>6, <1>7, <1>8 DEF Thinned
<1> QED BY <1>1, <1>9 DEF L, M

(* M is L without the places of D, which may be left empty.                 *)
Embeds(L, M, D, n, k, h) ==
  /\ DOMAIN L = 0..n /\ DOMAIN M = 0..k
  /\ \A i, j \in 0..k : i < j => h[i] < h[j]
  /\ \A i \in 0..k : M[i] = NoCommand \/ (M[i] = L[h[i]] /\ h[i] \notin D)
  /\ \A i \in 0..n : i \in D \/ \E j \in 0..k : h[j] = i /\ M[j] = L[i]

Less(L, M, D) == \E n, k \in Nat : \E h \in [0..k -> 0..n] : Embeds(L, M, D, n, k, h)

(* A line that shifted has lost its place 0.                                *)
LEMMA ShiftedIsLess ==
  ASSUME NEW L, NEW M, Shifted(L, M)
  PROVE  Less(L, M, {0})
<1>1. PICK n \in Nat : /\ DOMAIN L = 0..(n + 1) /\ DOMAIN M = 0..n /\ L[0] = NoCommand
                       /\ \A i \in 0..n : M[i] = L[i + 1]
  BY DEF Shifted
<1> DEFINE h == [i \in 0..n |-> i + 1]
<1>2. h \in [0..n -> 0..(n + 1)] /\ \A i \in 0..n : h[i] = i + 1
  BY <1>1
<1> HIDE DEF h
<1>3. \A i, j \in 0..n : i < j => h[i] < h[j]
  BY <1>2
<1>4. \A i \in 0..n : M[i] = L[h[i]] /\ h[i] \notin {0}
  BY <1>1, <1>2
<1>5. \A i \in 0..(n + 1) : i \in {0} \/ \E j \in 0..n : h[j] = i /\ M[j] = L[i]
  <2> SUFFICES ASSUME NEW i \in 0..(n + 1), i # 0
               PROVE  \E j \in 0..n : h[j] = i /\ M[j] = L[i]
    OBVIOUS
  <2>1. i - 1 \in 0..n /\ (i - 1) + 1 = i
    BY <1>1
  <2> QED BY <1>1, <1>2, <2>1
<1> DEFINE a == n + 1
<1>6. a \in Nat /\ h \in [0..n -> 0..a] /\ DOMAIN L = 0..a /\ DOMAIN M = 0..n
  BY <1>1, <1>2
<1>7. \A i \in 0..a : i \in {0} \/ \E j \in 0..n : h[j] = i /\ M[j] = L[i]
  BY <1>5
<1> HIDE DEF a
<1>8. \E g \in [0..n -> 0..a] :
        /\ DOMAIN L = 0..a /\ DOMAIN M = 0..n
        /\ \A i, j \in 0..n : i < j => g[i] < g[j]
        /\ \A i \in 0..n : M[i] = NoCommand \/ (M[i] = L[g[i]] /\ g[i] \notin {0})
        /\ \A i \in 0..a : i \in {0} \/ \E j \in 0..n : g[j] = i /\ M[j] = L[i]
  BY <1>3, <1>4, <1>6, <1>7, Zenon
<1> QED BY <1>6, <1>8, Zenon DEF Less, Embeds

(* So has one whose command in flight is done.                              *)
LEMMA EmptiedIsLess ==
  ASSUME NEW L, NEW M, Emptied(L, M)
  PROVE  Less(L, M, {0})
<1>1. PICK n \in Nat : DOMAIN L = 0..n /\ DOMAIN M = 0..n
  BY DEF Emptied
<1>2. M[0] = NoCommand /\ \A i \in 0..n : i # 0 => M[i] = L[i]
  BY <1>1 DEF Emptied
<1> DEFINE h == [i \in 0..n |-> i]
<1>3. h \in [0..n -> 0..n] /\ \A i \in 0..n : h[i] = i
  OBVIOUS
<1> HIDE DEF h
<1>4. \A i, j \in 0..n : i < j => h[i] < h[j]
  BY <1>3
<1>5. \A i \in 0..n : M[i] = NoCommand \/ (M[i] = L[h[i]] /\ h[i] \notin {0})
  BY <1>2, <1>3
<1>6. \A i \in 0..n : i \in {0} \/ \E j \in 0..n : h[j] = i /\ M[j] = L[i]
  BY <1>2, <1>3
<1> QED BY <1>1, <1>3, <1>4, <1>5, <1>6 DEF Less, Embeds

Unkept(L) == {i \in DOMAIN L : ~Keeps(L[i]) /\ i # 0}

(* A thinned line has lost what a Continue does not keep.                   *)
LEMMA ThinnedIsLess ==
  ASSUME NEW L, NEW M, Thinned(L, M)
  PROVE  Less(L, M, Unkept(L))
<1>1. PICK n \in Nat, k \in Nat : \E h \in [0..k -> 0..n] :
        /\ DOMAIN L = 0..n /\ DOMAIN M = 0..k /\ h[0] = 0
        /\ \A i, j \in 0..k : i < j => h[i] < h[j]
        /\ \A i \in 0..k : M[i] = L[h[i]] /\ (i = 0 \/ Keeps(M[i]))
        /\ \A i \in 0..n : Keeps(L[i]) => \E j \in 0..k : h[j] = i
  BY DEF Thinned
<1>2. PICK h \in [0..k -> 0..n] :
        /\ DOMAIN L = 0..n /\ DOMAIN M = 0..k /\ h[0] = 0
        /\ \A i, j \in 0..k : i < j => h[i] < h[j]
        /\ \A i \in 0..k : M[i] = L[h[i]] /\ (i = 0 \/ Keeps(M[i]))
        /\ \A i \in 0..n : Keeps(L[i]) => \E j \in 0..k : h[j] = i
  BY <1>1
<1>3. \A i \in 0..k : M[i] = L[h[i]] /\ h[i] \notin Unkept(L)
  BY <1>2 DEF Unkept
<1>4. \A i \in 0..n : i \in Unkept(L) \/ \E j \in 0..k : h[j] = i /\ M[j] = L[i]
  <2> SUFFICES ASSUME NEW i \in 0..n, i \notin Unkept(L)
               PROVE  \E j \in 0..k : h[j] = i /\ M[j] = L[i]
    OBVIOUS
  <2>1. CASE i = 0
    BY <1>1, <1>2, <2>1
  <2>2. CASE Keeps(L[i])
    BY <1>2, <2>2
  <2> QED BY <1>2, <2>1, <2>2 DEF Unkept
<1> DEFINE D == Unkept(L)
<1>5. /\ \A i \in 0..k : M[i] = NoCommand \/ (M[i] = L[h[i]] /\ h[i] \notin D)
      /\ \A i \in 0..n : i \in D \/ \E j \in 0..k : h[j] = i /\ M[j] = L[i]
  BY <1>3, <1>4
<1> HIDE DEF D
<1>6. \E g \in [0..k -> 0..n] :
        /\ DOMAIN L = 0..n /\ DOMAIN M = 0..k
        /\ \A i, j \in 0..k : i < j => g[i] < g[j]
        /\ \A i \in 0..k : M[i] = NoCommand \/ (M[i] = L[g[i]] /\ g[i] \notin D)
        /\ \A i \in 0..n : i \in D \/ \E j \in 0..k : g[j] = i /\ M[j] = L[i]
  BY <1>2, <1>5, Zenon
<1>7. Less(L, M, D)
  BY <1>6, Zenon DEF Less, Embeds
<1> QED BY <1>7 DEF D

-----------------------------------------------------------------------------
(* What is left after some commands are gone.                               *)

(* A kind that was not lost is still held.                                  *)
LEMMA HoldsLess ==
  ASSUME NEW L, NEW M, NEW D, Less(L, M, D), NEW kind, Holds(L, kind),
         \A d \in D : d \in DOMAIN L => L[d].kind # kind
  PROVE  Holds(M, kind)
BY DEF Less, Embeds, Holds

(* So is a command that was not lost.                                       *)
LEMMA HasLess ==
  ASSUME NEW L, NEW M, NEW D, Less(L, M, D), NEW kind, NEW n, Has(L, kind, n),
         \A d \in D : d \in DOMAIN L => L[d].kind # kind \/ L[d].n # n
  PROVE  Has(M, kind, n)
<1>1. PICK i \in DOMAIN L : L[i].kind = kind /\ L[i].n = n
  BY DEF Has
<1>2. \E j \in DOMAIN M : M[j] = L[i]
  BY <1>1 DEF Less, Embeds
<1> QED BY <1>1, <1>2 DEF Has

(* Nothing is left that was not there.                                      *)
LEMMA LessIsOld ==
  ASSUME NEW L, NEW M, NEW D, Less(L, M, D), NEW i \in DOMAIN M
  PROVE  M[i] = NoCommand \/ \E j \in DOMAIN L : M[i] = L[j] /\ j \notin D
BY DEF Less, Embeds

(* What is armed in the end stays so when no arming is lost, but done.      *)
LEMMA EndsLess ==
  ASSUME NEW L, NEW M, NEW D, Less(L, M, D), NEW kinds, NEW kind \in kinds, "none" \notin kinds,
         NEW n, NEW done, Ends(L, kinds, kind, n, done),
         \A d \in D : d \in DOMAIN L /\ L[d].kind \in kinds =>
                        d = 0 /\ (L[d].kind = kind => done = L[d].n)
  PROVE  Ends(M, kinds, kind, n, done)
<1>1. PICK a \in Nat, k \in Nat : \E h \in [0..k -> 0..a] : Embeds(L, M, D, a, k, h)
  BY DEF Less
<1>2. PICK h \in [0..k -> 0..a] : Embeds(L, M, D, a, k, h)
  BY <1>1
<1> USE <1>2 DEF Embeds
<1>3. \A i \in 0..k : M[i].kind \in kinds => M[i] = L[h[i]] /\ h[i] \notin D
  BY DEF NoCommand
<1>4. CASE \E i \in 0..a : /\ L[i].kind = kind /\ L[i].n = n
                           /\ \A j \in 0..a : j > i => L[j].kind \notin kinds
  <2>1. PICK i \in 0..a : /\ L[i].kind = kind /\ L[i].n = n
                          /\ \A j \in 0..a : j > i => L[j].kind \notin kinds
    BY <1>4
  <2>2. CASE i \notin D
    <3>1. PICK j \in 0..k : h[j] = i /\ M[j] = L[i]
      BY <1>2, <2>2
    <3>2. \A x \in 0..k : x > j => M[x].kind \notin kinds
      <4> SUFFICES ASSUME NEW x \in 0..k, x > j, M[x].kind \in kinds PROVE FALSE
        OBVIOUS
      <4>1. M[x] = L[h[x]] /\ h[x] > i /\ h[x] \in 0..a
        BY <1>2, <1>3, <3>1
      <4> QED BY <2>1, <4>1
    <3> QED BY <1>2, <2>1, <3>1, <3>2 DEF Ends
  <2>3. CASE i \in D
    <3>1. i = 0 /\ done = n
      BY <1>2, <2>1, <2>3
    <3>2. \A x \in 0..k : M[x].kind \notin kinds
      <4> SUFFICES ASSUME NEW x \in 0..k, M[x].kind \in kinds PROVE FALSE
        OBVIOUS
      <4>1. M[x] = L[h[x]] /\ h[x] # 0 /\ h[x] \in 0..a
        BY <1>3, <2>3, <3>1
      <4> QED BY <2>1, <3>1, <4>1
    <3> QED BY <1>2, <3>1, <3>2 DEF Ends
  <2> QED BY <2>2, <2>3
<1>5. CASE done = n /\ \A i \in 0..a : L[i].kind \notin kinds
  BY <1>2, <1>3, <1>5 DEF Ends
<1> QED BY <1>2, <1>4, <1>5 DEF Ends

(* Reports stay fresh when no register read is lost, but done.              *)
LEMMA ReportsLess ==
  ASSUME NEW L, NEW M, NEW D, Less(L, M, D), NEW m, NEW r, ReportsAreFresh(L, m, r),
         \A d \in D : d \in DOMAIN L /\ L[d].kind = "regs" =>
                        d = 0 /\ r.valid /\ r.move = m.move
  PROVE  ReportsAreFresh(M, m, r)
<1>1. PICK a \in Nat, k \in Nat : \E h \in [0..k -> 0..a] : Embeds(L, M, D, a, k, h)
  BY DEF Less
<1>2. PICK h \in [0..k -> 0..a] : Embeds(L, M, D, a, k, h)
  BY <1>1
<1>3. /\ DOMAIN L = 0..a /\ DOMAIN M = 0..k
      /\ \A i, j \in 0..k : i < j => h[i] < h[j]
      /\ \A i \in 0..k : M[i] = NoCommand \/ (M[i] = L[h[i]] /\ h[i] \notin D)
      /\ \A i \in 0..a : i \in D \/ \E j \in 0..k : h[j] = i /\ M[j] = L[i]
  BY <1>2 DEF Embeds
<1>4. \A i \in 0..k : (M[i].emits \/ M[i].kind \in {"regs", "step"}) =>
        M[i] = L[h[i]] /\ h[i] \notin D /\ h[i] \in 0..a
  BY <1>3 DEF NoCommand
<1>5. ASSUME NEW i \in 0..k, M[i].emits
      PROVE  ReadFirst(M, i) \/ ReadAlready(M, i, m, r) \/ NotRead(M, i, r)
  <2> DEFINE p == h[i]
  <2>1. M[i] = L[p] /\ p \in 0..a /\ p \notin D /\ L[p].emits
    BY <1>4, <1>5
  <2>2. \A x \in 0..k : x < i => h[x] < p
    BY <1>3
  <2> HIDE DEF p
  <2>3. ReadFirst(L, p) \/ ReadAlready(L, p, m, r) \/ NotRead(L, p, r)
    BY <1>3, <2>1 DEF ReportsAreFresh
  <2>4. CASE ReadFirst(L, p)
    <3>1. PICK j \in 0..a : /\ j <= p /\ L[j].kind = "regs"
                            /\ \A x \in 0..a : j < x /\ x < p => L[x].kind # "step"
      BY <1>3, <2>4 DEF ReadFirst
    <3>2. CASE j \in D
      <4>1. j = 0 /\ r.valid /\ r.move = m.move
        BY <1>3, <3>1, <3>2
      <4>2. \A x \in 0..k : x < i => M[x].kind # "step"
        <5> SUFFICES ASSUME NEW x \in 0..k, x < i, M[x].kind = "step" PROVE FALSE
          OBVIOUS
        <5>1. M[x] = L[h[x]] /\ h[x] \notin D /\ h[x] \in 0..a /\ h[x] < p
          BY <1>4, <2>2
        <5> QED BY <3>1, <3>2, <4>1, <5>1
      <4> QED BY <1>3, <4>1, <4>2 DEF ReadAlready
    <3>3. CASE j \notin D
      <4>1. PICK y \in 0..k : h[y] = j /\ M[y] = L[j]
        BY <1>3, <3>3
      <4>2. y <= i
        BY <1>3, <3>1, <4>1 DEF p
      <4>3. \A x \in 0..k : y < x /\ x < i => M[x].kind # "step"
        <5> SUFFICES ASSUME NEW x \in 0..k, y < x, x < i, M[x].kind = "step" PROVE FALSE
          OBVIOUS
        <5>1. M[x] = L[h[x]] /\ h[x] \in 0..a /\ h[x] < p /\ j < h[x]
          BY <1>3, <1>4, <2>2, <4>1
        <5> QED BY <3>1, <5>1
      <4> QED BY <1>3, <3>1, <4>1, <4>2, <4>3 DEF ReadFirst
    <3> QED BY <3>2, <3>3
  <2>5. CASE ReadAlready(L, p, m, r)
    <3>1. \A x \in 0..k : x < i => M[x].kind # "step"
      <4> SUFFICES ASSUME NEW x \in 0..k, x < i, M[x].kind = "step" PROVE FALSE
        OBVIOUS
      <4>1. M[x] = L[h[x]] /\ h[x] \in 0..a /\ h[x] < p
        BY <1>4, <2>2
      <4> QED BY <1>3, <2>5, <4>1 DEF ReadAlready
    <3> QED BY <1>3, <2>5, <3>1 DEF ReadAlready
  <2>6. CASE NotRead(L, p, r)
    <3>1. \A x \in 0..k : x < i => M[x].kind # "regs"
      <4> SUFFICES ASSUME NEW x \in 0..k, x < i, M[x].kind = "regs" PROVE FALSE
        OBVIOUS
      <4>1. M[x] = L[h[x]] /\ h[x] \in 0..a /\ h[x] < p
        BY <1>4, <2>2
      <4> QED BY <1>3, <2>6, <4>1 DEF NotRead
    <3> QED BY <1>3, <2>1, <2>6, <3>1 DEF NotRead
  <2> QED BY <2>3, <2>4, <2>5, <2>6
<1> QED BY <1>3, <1>5 DEF ReportsAreFresh

(* What a Continue leaves reports nothing, but for what is in flight.       *)
LEMMA ReportsThinned ==
  ASSUME NEW L, NEW M, IsLine(L), Thinned(L, M), NEW m, NEW r, ReportsAreFresh(L, m, r)
  PROVE  ReportsAreFresh(M, m, r)
<1>1. PICK n \in Nat, k \in Nat : \E h \in [0..k -> 0..n] :
        /\ DOMAIN L = 0..n /\ DOMAIN M = 0..k /\ h[0] = 0
        /\ \A i \in 0..k : M[i] = L[h[i]] /\ (i = 0 \/ Keeps(M[i]))
  BY DEF Thinned
<1>2. PICK h \in [0..k -> 0..n] :
        /\ DOMAIN L = 0..n /\ DOMAIN M = 0..k /\ h[0] = 0
        /\ \A i \in 0..k : M[i] = L[h[i]] /\ (i = 0 \/ Keeps(M[i]))
  BY <1>1
<1>3. \A i \in 0..n : L[i] \in Commands
  BY <1>2 DEF IsLine
<1>4. \A i \in 0..k : M[i].emits => i = 0
  <2> SUFFICES ASSUME NEW i \in 0..k, M[i].emits, Keeps(M[i]) PROVE FALSE
    BY <1>2
  <2>1. M[i] \in Commands
    BY <1>2, <1>3
  <2> QED BY <2>1 DEF Commands, Requests, NoCommand, Keeps
<1>5. 0 \in 0..n /\ 0 \in 0..k /\ M[0] = L[0]
  BY <1>1, <1>2
<1>6. M[0].emits => ReadFirst(M, 0) \/ ReadAlready(M, 0, m, r) \/ NotRead(M, 0, r)
  <2> SUFFICES ASSUME L[0].emits
               PROVE  ReadFirst(M, 0) \/ ReadAlready(M, 0, m, r) \/ NotRead(M, 0, r)
    BY <1>5
  <2>1. ReadFirst(L, 0) \/ ReadAlready(L, 0, m, r) \/ NotRead(L, 0, r)
    BY <1>2, <1>5 DEF ReportsAreFresh
  <2>2. CASE ReadFirst(L, 0)
    <3>1. L[0].kind = "regs"
      BY <1>2, <2>2 DEF ReadFirst
    <3> QED BY <1>2, <1>5, <3>1 DEF ReadFirst
  <2>3. CASE ReadAlready(L, 0, m, r)
    BY <1>2, <2>3 DEF ReadAlready
  <2>4. CASE NotRead(L, 0, r)
    BY <1>2, <1>5, <2>4 DEF NotRead
  <2> QED BY <2>1, <2>2, <2>3, <2>4
<1> QED BY <1>2, <1>4, <1>6 DEF ReportsAreFresh

(* Reports stay fresh behind a register read of their own batch.            *)
LEMMA ReportsGrow ==
  ASSUME NEW L, NEW M, NEW b, Grown(L, M, b), NEW m, NEW r, ReportsAreFresh(L, m, r),
         \A i \in DOMAIN b : b[i].emits =>
           \E j \in DOMAIN b : /\ j <= i /\ b[j].kind = "regs"
                               /\ \A x \in DOMAIN b : j < x /\ x < i => b[x].kind # "step"
  PROVE  ReportsAreFresh(M, m, r)
<1>1. PICK n \in Nat, k \in Nat :
        /\ DOMAIN L = 0..n /\ DOMAIN M = 0..(n + k) /\ DOMAIN b = 1..k
        /\ \A i \in 0..n : M[i] = L[i]
        /\ \A i \in 1..k : M[n + i] = b[i]
  BY DEF Grown
<1>2. ASSUME NEW i \in 0..n, M[i].emits
      PROVE  ReadFirst(M, i) \/ ReadAlready(M, i, m, r) \/ NotRead(M, i, r)
  <2>1. ReadFirst(L, i) \/ ReadAlready(L, i, m, r) \/ NotRead(L, i, r)
    BY <1>1, <1>2 DEF ReportsAreFresh
  <2>2. ReadFirst(L, i) => ReadFirst(M, i)
    BY <1>1 DEF ReadFirst
  <2>3. ReadAlready(L, i, m, r) => ReadAlready(M, i, m, r)
    BY <1>1 DEF ReadAlready
  <2>4. NotRead(L, i, r) => NotRead(M, i, r)
    BY <1>1 DEF NotRead
  <2> QED BY <2>1, <2>2, <2>3, <2>4
<1>3. ASSUME NEW i \in 1..k, M[n + i].emits PROVE ReadFirst(M, n + i)
  <2>1. PICK j \in 1..k : /\ j <= i /\ b[j].kind = "regs"
                          /\ \A x \in 1..k : j < x /\ x < i => b[x].kind # "step"
    BY <1>1, <1>3
  <2>2. \A x \in 0..(n + k) : n + j < x /\ x < n + i => M[x].kind # "step"
    <3> TAKE x \in 0..(n + k)
    <3> HAVE n + j < x /\ x < n + i
    <3>1. x - n \in 1..k /\ x = n + (x - n) /\ j < x - n /\ x - n < i
      BY <1>1
    <3> QED BY <1>1, <2>1, <3>1
  <2>3. n + j \in 0..(n + k) /\ n + j <= n + i /\ M[n + j].kind = "regs"
    BY <1>1, <2>1
  <2> QED BY <1>1, <2>2, <2>3 DEF ReadFirst
<1>4. \A i \in 0..(n + k) : i \in 0..n \/ (i - n \in 1..k /\ i = n + (i - n))
  BY <1>1
<1> QED BY <1>1, <1>2, <1>3, <1>4 DEF ReportsAreFresh

(* Frames that differ in what is queued at most.                            *)
Same(f, g) ==
  /\ g.ctl = f.ctl /\ g.win = f.win /\ g.ghost = f.ghost /\ g.model = f.model
  /\ g.lane.stopped = f.lane.stopped /\ g.lane.continuing = f.lane.continuing

(* A one-shot is still cleared when no clear is lost, but done.             *)
LEMMA ShotLess ==
  ASSUME NEW L, NEW M, NEW D, Less(L, M, D), NEW m, NEW f, ShotIsCleared(f, L, m),
         \A d \in D : d \in DOMAIN L /\ L[d].kind = "clear" => d = 0 /\ 2 \notin m.shots
  PROVE  ShotIsCleared(f, M, m)
<1>1. PICK a \in Nat, k \in Nat : \E h \in [0..k -> 0..a] : Embeds(L, M, D, a, k, h)
  BY DEF Less
<1>2. PICK h \in [0..k -> 0..a] : Embeds(L, M, D, a, k, h)
  BY <1>1
<1>3. /\ DOMAIN L = 0..a /\ DOMAIN M = 0..k
      /\ \A i, j \in 0..k : i < j => h[i] < h[j]
      /\ \A i \in 0..k : M[i] = NoCommand \/ (M[i] = L[h[i]] /\ h[i] \notin D)
      /\ \A i \in 0..a : i \in D \/ \E j \in 0..k : h[j] = i /\ M[j] = L[i]
  BY <1>2 DEF Embeds
<1> SUFFICES ASSUME ~f.ctl.guided
             PROVE  /\ 2 \in m.shots => Holds(M, "clear")
                    /\ \A i \in 0..k : M[i].kind = "once" /\ M[i].n = 2 =>
                         \E j \in 0..k : j > i /\ M[j].kind = "clear"
  BY <1>3 DEF ShotIsCleared
<1>4. ASSUME 2 \in m.shots PROVE Holds(M, "clear")
  <2>1. Holds(L, "clear")
    BY <1>4 DEF ShotIsCleared
  <2>2. PICK i \in 0..a : L[i].kind = "clear"
    BY <1>3, <2>1 DEF Holds
  <2>3. i \notin D
    BY <1>3, <1>4, <2>2
  <2> QED BY <1>3, <2>2, <2>3 DEF Holds
<1>5. ASSUME NEW i \in 0..k, M[i].kind = "once", M[i].n = 2
      PROVE  \E j \in 0..k : j > i /\ M[j].kind = "clear"
  <2>1. M[i] = L[h[i]] /\ h[i] \in 0..a
    BY <1>3, <1>5 DEF NoCommand
  <2>2. PICK j \in 0..a : j > h[i] /\ L[j].kind = "clear"
    BY <1>3, <1>5, <2>1 DEF ShotIsCleared
  <2>3. j \notin D
    BY <1>3, <2>1, <2>2
  <2>4. PICK y \in 0..k : h[y] = j /\ M[y] = L[j]
    BY <1>3, <2>3
  <2>5. y > i
    BY <1>3, <2>1, <2>2, <2>4
  <2> QED BY <2>2, <2>4, <2>5
<1> QED BY <1>4, <1>5

(* The bases still come when no read of them is lost, but done.             *)
LEMMA BasesLess ==
  ASSUME NEW L, NEW M, NEW D, Less(L, M, D), NEW m, NEW r, NEW f, BasesCome(f, L, m, r),
         \A d \in D : d \in DOMAIN L =>
           /\ L[d].emits /\ r.bases => f.win.bases
           /\ L[d].kind = "basepage" /\ m.loaded => d = 0 /\ r.bases
           /\ L[d].emits => d = 0
  PROVE  BasesCome(f, M, m, r)
<1>1. PICK a \in Nat, k \in Nat : \E h \in [0..k -> 0..a] : Embeds(L, M, D, a, k, h)
  BY DEF Less
<1>2. PICK h \in [0..k -> 0..a] : Embeds(L, M, D, a, k, h)
  BY <1>1
<1>3. /\ DOMAIN L = 0..a /\ DOMAIN M = 0..k
      /\ \A i, j \in 0..k : i < j => h[i] < h[j]
      /\ \A i \in 0..k : M[i] = NoCommand \/ (M[i] = L[h[i]] /\ h[i] \notin D)
      /\ \A i \in 0..a : i \in D \/ \E j \in 0..k : h[j] = i /\ M[j] = L[i]
  BY <1>2 DEF Embeds
<1> SUFFICES ASSUME f.lane.stopped, ~f.lane.continuing, m.loaded, ~f.win.bases
             PROVE  \/ r.bases /\ (\E j \in 0..k : M[j].emits)
                    \/ \E i, j \in 0..k : i <= j /\ M[i].kind = "basepage" /\ M[j].emits
  BY <1>3 DEF BasesCome
<1>4. CASE r.bases /\ \E j \in 0..a : L[j].emits
  <2>1. PICK j \in 0..a : L[j].emits
    BY <1>4
  <2>2. j \notin D
    BY <1>3, <1>4, <2>1
  <2> QED BY <1>3, <1>4, <2>1, <2>2
<1>5. CASE \E i, j \in 0..a : i <= j /\ L[i].kind = "basepage" /\ L[j].emits
  <2>1. PICK i \in 0..a, j \in 0..a : i <= j /\ L[i].kind = "basepage" /\ L[j].emits
    BY <1>5
  <2>2. CASE i \in D
    <3>1. i = 0 /\ r.bases
      BY <1>3, <2>1, <2>2
    <3>2. j \notin D
      BY <1>3, <2>1, <3>1
    <3> QED BY <1>3, <2>1, <3>1, <3>2
  <2>3. CASE i \notin D
    <3>1. j \notin D
      <4> SUFFICES ASSUME j \in D PROVE FALSE
        OBVIOUS
      <4>1. j = 0
        BY <1>3, <2>1
      <4>2. i = 0
        BY <2>1, <4>1
      <4> QED BY <2>3, <4>1, <4>2
    <3>2. PICK x \in 0..k : h[x] = i /\ M[x] = L[i]
      BY <1>3, <2>3
    <3>3. PICK y \in 0..k : h[y] = j /\ M[y] = L[j]
      BY <1>3, <3>1
    <3>4. x <= y
      BY <1>3, <2>1, <3>2, <3>3
    <3> QED BY <2>1, <3>2, <3>3, <3>4
  <2> QED BY <2>2, <2>3
<1> QED BY <1>3, <1>4, <1>5 DEF BasesCome

(* The recorded stops do not depend on what is lost.                        *)
LEMMA StopsLess ==
  ASSUME NEW L, NEW M, NEW D, Less(L, M, D), NEW r, NEW f, StopsAreRecorded(f, L, r)
  PROVE  StopsAreRecorded(f, M, r)
<1>1. \A i \in DOMAIN M : M[i].kind = "save" => \E j \in DOMAIN L : M[i] = L[j]
  BY LessIsOld DEF NoCommand
<1>2. \A i \in DOMAIN M : M[i].kind = "save" => M[i].n \in DOMAIN f.win.anchors
  BY <1>1 DEF StopsAreRecorded
<1> QED BY <1>2 DEF StopsAreRecorded

(* A Continue keeps its end when no one-shot is lost, but armed.            *)
LEMMA ContinueLess ==
  ASSUME NEW L, NEW M, NEW D, Less(L, M, D), NEW m, NEW f, ContinueHasItsEnd(f, L, m),
         \A d \in D : d \in DOMAIN L =>
           /\ L[d].kind = "once" => L[d].n \in m.shots
           /\ L[d].kind = "profileOn" => m.profiling
  PROVE  ContinueHasItsEnd(f, M, m)
<1> SUFFICES ASSUME f.lane.continuing PROVE ContinueHasItsEnd(f, M, m)
  BY DEF ContinueHasItsEnd
<1>1. \A i \in DOMAIN M : M[i].kind \in {"none", "once", "profileOn", "dump"}
  <2>1. \A i \in DOMAIN L : L[i].kind \in {"none", "once", "profileOn", "dump"}
    BY DEF ContinueHasItsEnd
  <2> QED BY <2>1, LessIsOld DEF NoCommand
<1>2. \A x \in {1, 2, 3} : x \in m.shots \/ Has(L, "once", x) => x \in m.shots \/ Has(M, "once", x)
  BY HasLess
<1>3. m.profiling \/ Holds(L, "profileOn") => m.profiling \/ Holds(M, "profileOn")
  BY HoldsLess
<1> QED BY <1>1, <1>2, <1>3 DEF ContinueHasItsEnd

(* A step-out waits on when no dump is lost.                                *)
LEMMA StepOutLess ==
  ASSUME NEW L, NEW M, NEW D, Less(L, M, D), NEW m, NEW f, StepOutWaits(f, L, m),
         \A d \in D : d \in DOMAIN L /\ L[d].kind = "dump" => ~f.ctl.stepOut
  PROVE  StepOutWaits(f, M, m)
<1> SUFFICES ASSUME f.ctl.stepOut PROVE StepOutWaits(f, M, m)
  BY DEF StepOutWaits
<1>1. Holds(M, "dump")
  BY HoldsLess DEF StepOutWaits
<1>2. \A i \in DOMAIN M : M[i].kind = "none" \/ (M[i].kind = "dump" /\ M[i].n = m.move)
  BY LessIsOld DEF StepOutWaits, NoCommand
<1> QED BY <1>1, <1>2 DEF StepOutWaits

(* A save that is waited for is still there.                                *)
LEMMA SavesLess ==
  ASSUME NEW L, NEW M, NEW D, Less(L, M, D), NEW m, NEW f, SavesAreHere(f, L, m),
         \A d \in D : d \in DOMAIN L /\ L[d].kind = "save" => L[d].n # f.win.saving
  PROVE  SavesAreHere(f, M, m)
<1>1. f.win.saving # 0 => Has(M, "save", f.win.saving)
  BY HasLess DEF SavesAreHere
<1>2. ~Holds(L, "step") => ~Holds(M, "step")
  BY LessIsOld DEF Holds, NoCommand
<1>3. \A i \in DOMAIN M : M[i].kind = "save" =>
        f.win.anchors[M[i].n].pc = m.pc /\ ~Holds(M, "step")
  BY <1>2, LessIsOld DEF SavesAreHere, NoCommand
<1> QED BY <1>1, <1>3 DEF SavesAreHere

(* The views still come when no disassembly is lost, but shown.             *)
LEMMA ViewsLess ==
  ASSUME NEW L, NEW M, NEW D, Less(L, M, D), NEW m, NEW f, ViewsCome(f, L, m),
         \A d \in D : d \in DOMAIN L /\ L[d].kind = "disasm" =>
           d = 0 /\ f.win.seen.valid /\ f.win.seen.move = m.move
  PROVE  ViewsCome(f, M, m)
<1>1. PICK a \in Nat, k \in Nat : \E h \in [0..k -> 0..a] : Embeds(L, M, D, a, k, h)
  BY DEF Less
<1>2. PICK h \in [0..k -> 0..a] : Embeds(L, M, D, a, k, h)
  BY <1>1
<1>3. /\ DOMAIN L = 0..a /\ DOMAIN M = 0..k
      /\ \A i, j \in 0..k : i < j => h[i] < h[j]
      /\ \A i \in 0..k : M[i] = NoCommand \/ (M[i] = L[h[i]] /\ h[i] \notin D)
      /\ \A i \in 0..a : i \in D \/ \E j \in 0..k : h[j] = i /\ M[j] = L[i]
  BY <1>2 DEF Embeds
<1>4. f.lane.stopped => (f.win.seen.valid /\ f.win.seen.move = m.move) \/ Holds(M, "disasm")
  <2> SUFFICES ASSUME f.lane.stopped, ~(f.win.seen.valid /\ f.win.seen.move = m.move)
               PROVE  Holds(M, "disasm")
    OBVIOUS
  <2>1. Holds(L, "disasm")
    BY DEF ViewsCome
  <2> QED BY <2>1, HoldsLess
<1>5. ASSUME NEW i \in 0..k, M[i].kind = "step"
      PROVE  /\ \A j \in 0..k : j < i => M[j].kind = "none"
             /\ \E j \in 0..k : j > i /\ M[j].kind = "disasm"
  <2>1. M[i] = L[h[i]] /\ h[i] \in 0..a
    BY <1>3, <1>5 DEF NoCommand
  <2>2. /\ \A j \in 0..a : j < h[i] => L[j].kind = "none"
        /\ \E j \in 0..a : j > h[i] /\ L[j].kind = "disasm"
    <3> DEFINE p == h[i]
    <3>1. p \in DOMAIN L /\ L[p].kind = "step"
      BY <1>3, <1>5, <2>1
    <3> HIDE DEF p
    <3>2. /\ \A j \in DOMAIN L : j < p => L[j].kind = "none"
          /\ \E j \in DOMAIN L : j > p /\ L[j].kind = "disasm"
      BY <3>1 DEF ViewsCome
    <3> QED BY <1>3, <3>2 DEF p
  <2>3. \A j \in 0..k : j < i => M[j].kind = "none"
    BY <1>3, <2>2 DEF NoCommand
  <2>4. PICK j \in 0..a : j > h[i] /\ L[j].kind = "disasm"
    BY <2>2
  <2>5. j \notin D
    BY <1>3, <2>1, <2>4
  <2>6. PICK y \in 0..k : h[y] = j /\ M[y] = L[j]
    BY <1>3, <2>5
  <2>7. y > i
    BY <1>3, <2>1, <2>4, <2>6
  <2> QED BY <2>3, <2>4, <2>6, <2>7
<1> QED BY <1>3, <1>4, <1>5 DEF ViewsCome

(* Events still come when no disassembly is lost, but told.                 *)
LEMMA EventsLess ==
  ASSUME NEW L, NEW M, NEW D, Less(L, M, D), NEW m, NEW f, EventsCome(f, L, m),
         \A d \in D : d \in DOMAIN L =>
           /\ L[d].kind = "disasm" => ~f.ctl.stopEvent /\ ~f.ctl.stepEvent
           /\ L[d].kind = "step" => m.by = "step"
  PROVE  EventsCome(f, M, m)
<1>1. f.ctl.stopEvent \/ f.ctl.stepEvent => Holds(M, "disasm")
  BY HoldsLess DEF EventsCome
<1>2. f.ctl.stepEvent => ~f.ctl.stopEvent /\ (m.by = "step" \/ Holds(M, "step"))
  BY HoldsLess DEF EventsCome
<1> QED BY <1>1, <1>2 DEF EventsCome

(* The setup still comes when none of it is lost, but done.                 *)
LEMMA SetupLess ==
  ASSUME NEW L, NEW M, NEW D, Less(L, M, D), NEW m, NEW f, SetupComes(f, L, m),
         \A d \in D : d \in DOMAIN L =>
           /\ L[d].kind \in {"symbols", "turbo", "replaylog"} => L[d].kind \in m.done
           /\ L[d].kind = "uae" => d = 0 /\ m.engine = "uae"
  PROVE  SetupComes(f, M, m)
<1>1. PICK a \in Nat, k \in Nat : \E h \in [0..k -> 0..a] : Embeds(L, M, D, a, k, h)
  BY DEF Less
<1>2. PICK h \in [0..k -> 0..a] : Embeds(L, M, D, a, k, h)
  BY <1>1
<1>3. /\ DOMAIN L = 0..a /\ DOMAIN M = 0..k
      /\ \A i, j \in 0..k : i < j => h[i] < h[j]
      /\ \A i \in 0..k : M[i] = NoCommand \/ (M[i] = L[h[i]] /\ h[i] \notin D)
      /\ \A i \in 0..a : i \in D \/ \E j \in 0..k : h[j] = i /\ M[j] = L[i]
  BY <1>2 DEF Embeds
<1>4. /\ f.ctl.attached => "symbols" \in m.done \/ Holds(M, "symbols")
      /\ f.ctl.turbo => "turbo" \in m.done \/ Holds(M, "turbo")
      /\ f.win.logging => "replaylog" \in m.done \/ Holds(M, "replaylog")
  BY HoldsLess DEF SetupComes
<1>5. \A i \in 0..k : M[i].kind = "ext" => M[i] = L[h[i]] /\ h[i] \in 0..a /\ h[i] \notin D
  BY <1>3 DEF NoCommand
<1>6. \/ m.engine = "uae" /\ ~Holds(M, "ext")
      \/ \E i \in 0..k : M[i].kind = "uae" /\ \A j \in 0..k : j > i => M[j].kind # "ext"
  <2>1. CASE m.engine = "uae" /\ ~Holds(L, "ext")
    BY <1>3, <1>5, <2>1 DEF Holds
  <2>2. CASE \E i \in 0..a : L[i].kind = "uae" /\ \A j \in 0..a : j > i => L[j].kind # "ext"
    <3>1. PICK i \in 0..a : L[i].kind = "uae" /\ \A j \in 0..a : j > i => L[j].kind # "ext"
      BY <2>2
    <3>2. CASE i \in D
      <4>1. i = 0 /\ m.engine = "uae"
        BY <1>3, <3>1, <3>2
      <4>2. ASSUME NEW j \in 0..k, M[j].kind = "ext" PROVE FALSE
        <5>1. h[j] \in 0..a /\ h[j] # 0 /\ L[h[j]].kind = "ext"
          BY <1>5, <3>2, <4>1, <4>2
        <5> QED BY <3>1, <4>1, <5>1
      <4> QED BY <1>3, <4>1, <4>2 DEF Holds
    <3>3. CASE i \notin D
      <4>1. PICK y \in 0..k : h[y] = i /\ M[y] = L[i]
        BY <1>3, <3>3
      <4>2. ASSUME NEW j \in 0..k, j > y, M[j].kind = "ext" PROVE FALSE
        <5>1. h[j] \in 0..a /\ h[j] > i /\ L[h[j]].kind = "ext"
          BY <1>3, <1>5, <4>1, <4>2
        <5> QED BY <3>1, <5>1
      <4> QED BY <3>1, <4>1, <4>2
    <3> QED BY <3>2, <3>3
  <2> QED BY <1>3, <2>1, <2>2 DEF SetupComes
<1> QED BY <1>3, <1>4, <1>6 DEF SetupComes

(* What a line holds when more is put behind it.                            *)
LEMMA GrownIs ==
  ASSUME NEW L, NEW M, NEW b, Grown(L, M, b)
  PROVE  /\ \A i \in DOMAIN L : i \in DOMAIN M /\ M[i] = L[i]
         /\ \A i \in DOMAIN b : \E j \in DOMAIN M : M[j] = b[i] /\ j \notin DOMAIN L
         /\ \A i \in DOMAIN M : i \notin DOMAIN L => \E j \in DOMAIN b : M[i] = b[j]
         /\ \A i \in DOMAIN L, j \in DOMAIN M : j \notin DOMAIN L => i < j
         /\ \A i, j \in DOMAIN M : i < j /\ i \notin DOMAIN L => j \notin DOMAIN L
<1>1. PICK n \in Nat, k \in Nat :
        /\ DOMAIN L = 0..n /\ DOMAIN M = 0..(n + k) /\ DOMAIN b = 1..k
        /\ \A i \in 0..n : M[i] = L[i]
        /\ \A i \in 1..k : M[n + i] = b[i]
  BY DEF Grown
<1>2. \A i \in 1..k : n + i \in 0..(n + k) /\ n + i \notin 0..n
  BY <1>1
<1>3. \A i \in 0..(n + k) : i \notin 0..n => i - n \in 1..k /\ i = n + (i - n)
  BY <1>1
<1>4. \A i \in 0..(n + k) : i \notin 0..n => \E j \in 1..k : M[i] = b[j]
  BY <1>1, <1>3
<1>5. \A i \in 1..k : \E j \in 0..(n + k) : M[j] = b[i] /\ j \notin 0..n
  BY <1>1, <1>2
<1>6. \A i \in 0..n : i \in 0..(n + k) /\ M[i] = L[i]
  BY <1>1
<1>7. \A i \in 0..n, j \in 0..(n + k) : j \notin 0..n => i < j
  BY <1>1
<1>8. \A i, j \in 0..(n + k) : i < j /\ i \notin 0..n => j \notin 0..n
  BY <1>1
<1> QED BY <1>1, <1>4, <1>5, <1>6, <1>7, <1>8

(* The same in order, for two of the new ones.                              *)
LEMMA GrownInOrder ==
  ASSUME NEW L, NEW M, NEW b, Grown(L, M, b), NEW p \in DOMAIN b
  PROVE  \E i \in DOMAIN M :
           /\ M[i] = b[p] /\ i \notin DOMAIN L
           /\ \A j \in DOMAIN M : j > i => \E x \in DOMAIN b : x > p /\ M[j] = b[x]
           /\ \A x \in DOMAIN b : x > p => \E j \in DOMAIN M : j > i /\ M[j] = b[x]
<1>1. PICK n \in Nat, k \in Nat :
        /\ DOMAIN L = 0..n /\ DOMAIN M = 0..(n + k) /\ DOMAIN b = 1..k
        /\ \A i \in 0..n : M[i] = L[i]
        /\ \A i \in 1..k : M[n + i] = b[i]
  BY DEF Grown
<1> DEFINE i == n + p
<1>2. i \in 0..(n + k) /\ i \notin 0..n /\ M[i] = b[p]
  BY <1>1
<1>3. \A j \in 0..(n + k) : j > i => j - n \in 1..k /\ j - n > p /\ j = n + (j - n)
  BY <1>1
<1>4. \A j \in 0..(n + k) : j > i => \E x \in 1..k : x > p /\ M[j] = b[x]
  BY <1>1, <1>3
<1>5. \A x \in 1..k : x > p => n + x \in 0..(n + k) /\ n + x > i
  BY <1>1
<1>6. \A x \in 1..k : x > p => \E j \in 0..(n + k) : j > i /\ M[j] = b[x]
  BY <1>1, <1>5
<1> HIDE DEF i
<1>7. /\ i \in DOMAIN M /\ M[i] = b[p] /\ i \notin DOMAIN L
      /\ \A j \in DOMAIN M : j > i => \E x \in DOMAIN b : x > p /\ M[j] = b[x]
      /\ \A x \in DOMAIN b : x > p => \E j \in DOMAIN M : j > i /\ M[j] = b[x]
  BY <1>1, <1>2, <1>4, <1>6
<1> QED BY <1>7, Zenon

(* A kind that is held is held in a longer line.                            *)
LEMMA HoldsGrow ==
  ASSUME NEW L, NEW M, NEW b, Grown(L, M, b), NEW kind, Holds(L, kind)
  PROVE  Holds(M, kind)
BY GrownIs DEF Holds

(* So is a command.                                                         *)
LEMMA HasGrow ==
  ASSUME NEW L, NEW M, NEW b, Grown(L, M, b), NEW kind, NEW n, Has(L, kind, n)
  PROVE  Has(M, kind, n)
BY GrownIs DEF Has

(* What was put is held.                                                    *)
LEMMA PutIsHeld ==
  ASSUME NEW L, NEW M, NEW b, Grown(L, M, b), NEW p \in DOMAIN b
  PROVE  Holds(M, b[p].kind) /\ Has(M, b[p].kind, b[p].n)
BY GrownIs DEF Holds, Has

(* A kind that was not put was held before.                                 *)
LEMMA HeldIsOld ==
  ASSUME NEW L, NEW M, NEW b, Grown(L, M, b), NEW kind, Holds(M, kind),
         \A i \in DOMAIN b : b[i].kind # kind
  PROVE  Holds(L, kind)
BY GrownIs DEF Holds

(* What is armed in the end stays so behind other kinds.                    *)
LEMMA EndsGrow ==
  ASSUME NEW L, NEW M, NEW b, Grown(L, M, b), NEW kinds, NEW kind, NEW n, NEW done,
         Ends(L, kinds, kind, n, done), \A i \in DOMAIN b : b[i].kind \notin kinds
  PROVE  Ends(M, kinds, kind, n, done)
<1>1. \A i \in DOMAIN M : i \notin DOMAIN L => M[i].kind \notin kinds
  BY GrownIs
<1>2. CASE done = n /\ \A i \in DOMAIN L : L[i].kind \notin kinds
  BY <1>1, <1>2, GrownIs DEF Ends
<1>3. CASE \E i \in DOMAIN L : /\ L[i].kind = kind /\ L[i].n = n
                               /\ \A j \in DOMAIN L : j > i => L[j].kind \notin kinds
  BY <1>1, <1>3, GrownIs DEF Ends
<1> QED BY <1>2, <1>3 DEF Ends

(* The last arming put is what is armed in the end.                         *)
LEMMA EndsPlanned ==
  ASSUME NEW L, NEW M, NEW b, Grown(L, M, b), NEW kinds, NEW done, NEW p \in DOMAIN b,
         \A i \in DOMAIN b : i > p => b[i].kind \notin kinds
  PROVE  Ends(M, kinds, b[p].kind, b[p].n, done)
<1>1. PICK i \in DOMAIN M :
           /\ M[i] = b[p] /\ i \notin DOMAIN L
           /\ \A j \in DOMAIN M : j > i => \E x \in DOMAIN b : x > p /\ M[j] = b[x]
  BY GrownInOrder
<1>2. \A j \in DOMAIN M : j > i => M[j].kind \notin kinds
  BY <1>1
<1> QED BY <1>1, <1>2 DEF Ends

(* A one-shot is put by the guided run that is on.                          *)
LEMMA ShotGrows ==
  ASSUME NEW L, NEW M, NEW b, Grown(L, M, b), NEW f, NEW m, ShotIsCleared(f, L, m),
         \A i \in DOMAIN b : b[i].kind = "once" /\ b[i].n = 2 => f.ctl.guided
  PROVE  ShotIsCleared(f, M, m)
<1> SUFFICES ASSUME ~f.ctl.guided
             PROVE  /\ 2 \in m.shots => Holds(M, "clear")
                    /\ \A i \in DOMAIN M : M[i].kind = "once" /\ M[i].n = 2 =>
                         \E j \in DOMAIN M : j > i /\ M[j].kind = "clear"
  BY DEF ShotIsCleared
<1>1. 2 \in m.shots => Holds(M, "clear")
  BY HoldsGrow DEF ShotIsCleared
<1>2. ASSUME NEW i \in DOMAIN M, M[i].kind = "once", M[i].n = 2
      PROVE  \E j \in DOMAIN M : j > i /\ M[j].kind = "clear"
  <2>1. i \in DOMAIN L /\ M[i] = L[i]
    BY <1>2, GrownIs
  <2>2. PICK j \in DOMAIN L : j > i /\ L[j].kind = "clear"
    BY <1>2, <2>1 DEF ShotIsCleared
  <2> QED BY <2>2, GrownIs
<1> QED BY <1>1, <1>2

(* A clear that is put clears every one-shot before it.                     *)
LEMMA ShotPlanned ==
  ASSUME NEW L, NEW M, NEW b, Grown(L, M, b), NEW f, NEW m, NEW p \in DOMAIN b,
         b[p].kind = "clear", \A i \in DOMAIN b : b[i].kind # "once"
  PROVE  ShotIsCleared(f, M, m)
<1>1. PICK i \in DOMAIN M : M[i].kind = "clear" /\ i \notin DOMAIN L
  BY GrownIs
<1>2. ASSUME NEW j \in DOMAIN M, M[j].kind = "once"
      PROVE  i > j
  <2>1. j \in DOMAIN L
    BY <1>2, GrownIs
  <2>2. j < i
    BY <1>1, <2>1, GrownIs
  <2>3. j \in Int /\ i \in Int
    BY DEF Grown
  <2> QED BY <2>2, <2>3
<1> QED BY <1>1, <1>2 DEF ShotIsCleared, Holds

(* Bases that come still come.                                              *)
LEMMA BasesGrow ==
  ASSUME NEW L, NEW M, NEW b, Grown(L, M, b), NEW f, NEW m, NEW r, BasesCome(f, L, m, r)
  PROVE  BasesCome(f, M, m, r)
<1> SUFFICES ASSUME f.lane.stopped, ~f.lane.continuing, m.loaded, ~f.win.bases
             PROVE  BasesCome(f, M, m, r)
  BY DEF BasesCome
<1>1. CASE r.bases /\ \E j \in DOMAIN L : L[j].emits
  BY <1>1, GrownIs DEF BasesCome
<1>2. CASE \E i, j \in DOMAIN L : i <= j /\ L[i].kind = "basepage" /\ L[j].emits
  BY <1>2, GrownIs DEF BasesCome
<1> QED BY <1>1, <1>2 DEF BasesCome

(* A batch that reads the base page and reports after it.                   *)
LEMMA BasesRead ==
  ASSUME NEW L, NEW M, NEW b, Grown(L, M, b), NEW f, NEW m, NEW r,
         NEW p \in DOMAIN b, b[p].kind = "basepage",
         NEW x \in DOMAIN b, b[x].emits, p <= x
  PROVE  BasesCome(f, M, m, r)
<1>1. PICK i \in DOMAIN M :
           /\ M[i] = b[p]
           /\ \A y \in DOMAIN b : y > p => \E j \in DOMAIN M : j > i /\ M[j] = b[y]
  BY GrownInOrder
<1>2. p \in Int /\ x \in Int /\ DOMAIN M \subseteq Int
  BY DEF Grown
<1>3. CASE p = x
  BY <1>1, <1>2, <1>3 DEF BasesCome
<1>4. CASE x > p
  <2>1. PICK j \in DOMAIN M : j > i /\ M[j] = b[x]
    BY <1>1, <1>4
  <2>2. i <= j
    BY <1>2, <2>1
  <2> QED BY <1>1, <2>1, <2>2 DEF BasesCome
<1> QED BY <1>2, <1>3, <1>4

(* A save is put for a stop that is recorded.                               *)
LEMMA StopsGrow ==
  ASSUME NEW L, NEW M, NEW b, Grown(L, M, b), NEW f, NEW r, StopsAreRecorded(f, L, r),
         \A i \in DOMAIN b : b[i].kind = "save" => b[i].n \in DOMAIN f.win.anchors
  PROVE  StopsAreRecorded(f, M, r)
<1>1. \A i \in DOMAIN M : M[i].kind = "save" => M[i].n \in DOMAIN f.win.anchors
  BY GrownIs DEF StopsAreRecorded
<1> QED BY <1>1 DEF StopsAreRecorded

(* A step is put when no save is coming.                                    *)
LEMMA SavesGrow ==
  ASSUME NEW L, NEW M, NEW b, Grown(L, M, b), NEW f, NEW m, SavesAreHere(f, L, m),
         \A i \in DOMAIN b : b[i].kind # "save" /\ (b[i].kind = "step" => ~Holds(L, "save"))
  PROVE  SavesAreHere(f, M, m)
<1>1. f.win.saving # 0 => Has(M, "save", f.win.saving)
  BY HasGrow DEF SavesAreHere
<1>2. ASSUME NEW i \in DOMAIN M, M[i].kind = "save"
      PROVE  f.win.anchors[M[i].n].pc = m.pc /\ ~Holds(M, "step")
  <2>1. i \in DOMAIN L /\ M[i] = L[i]
    BY <1>2, GrownIs
  <2>2. Holds(L, "save")
    BY <1>2, <2>1 DEF Holds
  <2>3. \A j \in DOMAIN b : b[j].kind # "step"
    BY <2>2
  <2> QED BY <1>2, <2>1, <2>3, HeldIsOld DEF SavesAreHere
<1> QED BY <1>1, <1>2 DEF SavesAreHere

(* The views still come behind anything but a step.                         *)
LEMMA ViewsGrow ==
  ASSUME NEW L, NEW M, NEW b, Grown(L, M, b), NEW f, NEW m, ViewsCome(f, L, m),
         \A i \in DOMAIN b : b[i].kind # "step"
  PROVE  ViewsCome(f, M, m)
<1>1. f.lane.stopped => (f.win.seen.valid /\ f.win.seen.move = m.move) \/ Holds(M, "disasm")
  BY HoldsGrow DEF ViewsCome
<1>2. ASSUME NEW i \in DOMAIN M, M[i].kind = "step"
      PROVE  /\ \A j \in DOMAIN M : j < i => M[j].kind = "none"
             /\ \E j \in DOMAIN M : j > i /\ M[j].kind = "disasm"
  <2>1. i \in DOMAIN L /\ M[i] = L[i]
    BY <1>2, GrownIs
  <2>2. /\ \A j \in DOMAIN L : j < i => L[j].kind = "none"
        /\ \E j \in DOMAIN L : j > i /\ L[j].kind = "disasm"
    BY <1>2, <2>1 DEF ViewsCome
  <2>3. \A j \in DOMAIN M : j < i => j \in DOMAIN L
    <3>1. \A j \in DOMAIN M : j \notin DOMAIN L => i < j
      BY <2>1, GrownIs
    <3>2. DOMAIN M \subseteq Int
      BY DEF Grown
    <3> QED BY <1>2, <3>1, <3>2
  <2> QED BY <2>2, <2>3, GrownIs
<1> QED BY <1>1, <1>2 DEF ViewsCome

(* Events that come still come.                                             *)
LEMMA EventsGrow ==
  ASSUME NEW L, NEW M, NEW b, Grown(L, M, b), NEW f, NEW m, EventsCome(f, L, m)
  PROVE  EventsCome(f, M, m)
<1>1. f.ctl.stopEvent \/ f.ctl.stepEvent => Holds(M, "disasm")
  BY HoldsGrow DEF EventsCome
<1>2. f.ctl.stepEvent => ~f.ctl.stopEvent /\ (m.by = "step" \/ Holds(M, "step"))
  BY HoldsGrow DEF EventsCome
<1> QED BY <1>1, <1>2 DEF EventsCome

(* The disassembler that is changed is changed back.                        *)
LEMMA SetupGrows ==
  ASSUME NEW L, NEW M, NEW b, Grown(L, M, b), NEW f, NEW m, SetupComes(f, L, m),
         \/ \A i \in DOMAIN b : b[i].kind # "ext"
         \/ \E p \in DOMAIN b : b[p].kind = "uae" /\ \A i \in DOMAIN b : i > p => b[i].kind # "ext"
  PROVE  SetupComes(f, M, m)
<1>1. /\ f.ctl.attached => "symbols" \in m.done \/ Holds(M, "symbols")
      /\ f.ctl.turbo => "turbo" \in m.done \/ Holds(M, "turbo")
      /\ f.win.logging => "replaylog" \in m.done \/ Holds(M, "replaylog")
  BY HoldsGrow DEF SetupComes
<1>2. \/ m.engine = "uae" /\ ~Holds(M, "ext")
      \/ \E i \in DOMAIN M : M[i].kind = "uae" /\ \A j \in DOMAIN M : j > i => M[j].kind # "ext"
  <2>1. CASE \A i \in DOMAIN b : b[i].kind # "ext"
    <3>1. CASE m.engine = "uae" /\ ~Holds(L, "ext")
      BY <2>1, <3>1, HeldIsOld
    <3>2. CASE \E i \in DOMAIN L : L[i].kind = "uae" /\ \A j \in DOMAIN L : j > i => L[j].kind # "ext"
      BY <2>1, <3>2, GrownIs
    <3> QED BY <3>1, <3>2 DEF SetupComes
  <2>2. CASE \E p \in DOMAIN b : b[p].kind = "uae" /\ \A i \in DOMAIN b : i > p => b[i].kind # "ext"
    <3>1. PICK p \in DOMAIN b : b[p].kind = "uae" /\ \A i \in DOMAIN b : i > p => b[i].kind # "ext"
      BY <2>2
    <3>2. PICK i \in DOMAIN M :
           /\ M[i] = b[p]
           /\ \A j \in DOMAIN M : j > i => \E x \in DOMAIN b : x > p /\ M[j] = b[x]
      BY GrownInOrder
    <3> QED BY <3>1, <3>2
  <2> QED BY <2>1, <2>2
<1> QED BY <1>1, <1>2 DEF SetupComes

Body(f, L, m, r) == LineOK(f, L, m, r) /\ PatienceOK(f, L, m)

(* The body of the invariant does not depend on the queue but by the line.  *)
LEMMA BodySame ==
  ASSUME NEW f, NEW g, Same(f, g), NEW L, NEW m, NEW r, Body(f, L, m, r)
  PROVE  Body(g, L, m, r)
<1>1. EndsArmed(g, L, m) /\ EndsCovered(g, L, m) /\ ShotIsCleared(g, L, m)
  BY DEF Same, Body, LineOK, EndsArmed, EndsCovered, ShotIsCleared
<1>2. ReportsAreFresh(L, m, r) /\ SaveIsComing(g, L) /\ BasesCome(g, L, m, r)
  BY DEF Same, Body, LineOK, SaveIsComing, BasesCome
<1>3. StopsAreRecorded(g, L, r)
  BY DEF Same, Body, LineOK, StopsAreRecorded
<1>4. user = "patient" => ContinueHasItsEnd(g, L, m) /\ StepOutWaits(g, L, m) /\ SavesAreHere(g, L, m)
  BY DEF Same, Body, PatienceOK, ContinueHasItsEnd, StepOutWaits, SavesAreHere
<1>5. user = "patient" => ViewsCome(g, L, m) /\ EventsCome(g, L, m) /\ SetupComes(g, L, m)
  BY DEF Same, Body, PatienceOK, ViewsCome, EventsCome, SetupComes
<1> QED BY <1>1, <1>2, <1>3, <1>4, <1>5 DEF Body, LineOK, PatienceOK

(* The parts of a frame.                                                    *)
LEMMA FrameIs ==
  ASSUME NEW f \in FrameType
  PROVE  /\ f = [lane |-> f.lane, ctl |-> f.ctl, win |-> f.win, ghost |-> f.ghost, model |-> f.model]
         /\ f.lane \in LaneType /\ f.ctl \in ControlType /\ f.win \in WindowType
         /\ f.ghost \in GhostType /\ f.model \in Nat \ {0}
BY DEF FrameType

(* The parts of a lane.                                                     *)
LEMMA LaneIs ==
  ASSUME NEW l \in LaneType
  PROVE  /\ l = [queue |-> l.queue, current |-> l.current, stopped |-> l.stopped,
                 continuing |-> l.continuing, entry |-> l.entry]
         /\ l.queue \in Seq(Requests) /\ l.current \in Commands /\ l.stopped \in BOOLEAN
         /\ l.continuing \in BOOLEAN /\ l.entry \in BOOLEAN
BY DEF LaneType, Commands

(* Requests put behind the others.                                          *)
LEMMA PutIs ==
  ASSUME NEW f \in FrameType, NEW b \in Seq(Requests)
  PROVE  /\ Put(f, b) \in FrameType /\ Same(f, Put(f, b))
         /\ Put(f, b).lane.queue = f.lane.queue \o b
         /\ Put(f, b).lane.current = f.lane.current
         /\ Put(f, b).lane.entry = f.lane.entry
<1> DEFINE q == f.lane.queue \o b
           l == Enqueue(f.lane, b)
           g == Put(f, b)
<1>1. q \in Seq(Requests)
  BY FrameIs, LaneIs
<1>2. f.lane \in LaneType
  BY FrameIs
<1>3. /\ l \in LaneType /\ l.queue = q /\ l.current = f.lane.current /\ l.stopped = f.lane.stopped
      /\ l.continuing = f.lane.continuing /\ l.entry = f.lane.entry
  BY <1>1, <1>2 DEF Enqueue, LaneType
<1>4. g = [f EXCEPT !.lane = l]
  BY DEF Put
<1> HIDE DEF q, l, g
<1>5. g \in FrameType /\ g.lane = l /\ g.ctl = f.ctl /\ g.win = f.win /\ g.ghost = f.ghost /\ g.model = f.model
  BY <1>3, <1>4 DEF FrameType
<1> QED BY <1>3, <1>5 DEF Same, q, g

(* What may be put behind anything.                                         *)
Neutral(b, guided) ==
  /\ b \in Seq(Requests)
  /\ \A i \in DOMAIN b :
       /\ b[i].kind \notin {"clear", "arm", "watch", "save", "step", "ext", "uae"}
       /\ b[i].kind = "once" /\ b[i].n = 2 => guided
       /\ b[i].emits => \E j \in DOMAIN b : j <= i /\ b[j].kind = "regs"

(* What is neutral keeps the body of the invariant.                         *)
LEMMA PutBody ==
  ASSUME NEW f \in FrameType, NEW c \in Commands, NEW m, NEW r,
         Body(f, Line(c, f.lane.queue), m, r),
         NEW b, Neutral(b, f.ctl.guided),
         user = "patient" => ~f.lane.continuing /\ ~f.ctl.stepOut
  PROVE  Body(Put(f, b), Line(c, Put(f, b).lane.queue), m, r)
<1> DEFINE L == Line(c, f.lane.queue)
           M == Line(c, f.lane.queue \o b)
<1>1. b \in Seq(Requests) /\ f.lane.queue \in Seq(Requests)
  BY FrameIs, LaneIs DEF Neutral
<1>2. Grown(L, M, b)
  BY <1>1, LineGrows
<1>3. LineOK(f, L, m, r) /\ PatienceOK(f, L, m)
  BY DEF Body
<1> HIDE DEF L, M
<1>4. EndsArmed(f, M, m)
  BY <1>2, <1>3, EndsGrow DEF LineOK, EndsArmed, Neutral
<1>5. EndsCovered(f, M, m)
  BY <1>2, <1>3, HoldsGrow DEF LineOK, EndsCovered
<1>6. ShotIsCleared(f, M, m)
  BY <1>2, <1>3, ShotGrows DEF LineOK, Neutral
<1>7. ReportsAreFresh(M, m, r)
  BY <1>2, <1>3, ReportsGrow DEF LineOK, Neutral
<1>8. SaveIsComing(f, M)
  BY <1>2, <1>3, HoldsGrow DEF LineOK, SaveIsComing
<1>9. BasesCome(f, M, m, r)
  BY <1>2, <1>3, BasesGrow DEF LineOK
<1>10. StopsAreRecorded(f, M, r)
  BY <1>2, <1>3, StopsGrow DEF LineOK, Neutral
<1>11. ASSUME user = "patient" PROVE PatienceOK(f, M, m)
  <2>1. ContinueHasItsEnd(f, M, m) /\ StepOutWaits(f, M, m)
    BY <1>11 DEF ContinueHasItsEnd, StepOutWaits
  <2>2. SavesAreHere(f, M, m)
    BY <1>2, <1>3, <1>11, SavesGrow DEF PatienceOK, Neutral
  <2>3. ViewsCome(f, M, m)
    BY <1>2, <1>3, <1>11, ViewsGrow DEF PatienceOK, Neutral
  <2>4. EventsCome(f, M, m)
    BY <1>2, <1>3, <1>11, EventsGrow DEF PatienceOK
  <2>5. SetupComes(f, M, m)
    BY <1>2, <1>3, <1>11, SetupGrows DEF PatienceOK, Neutral
  <2> QED BY <2>1, <2>2, <2>3, <2>4, <2>5 DEF PatienceOK
<1>12. Body(f, M, m, r)
  BY <1>4, <1>5, <1>6, <1>7, <1>8, <1>9, <1>10, <1>11 DEF Body, LineOK, PatienceOK
<1> QED BY <1>1, <1>12, PutIs, BodySame DEF M

(* What a command is.                                                       *)
LEMMA CommandIs ==
  ASSUME NEW k \in Kinds \ {"disasm", "once"}, NEW n \in Nat
  PROVE  /\ Command(k, n) \in Requests /\ Command(k, n).kind = k /\ Command(k, n).n = n
         /\ ~Command(k, n).emits
BY DEF Command, Requests, Kinds

(* What a one-shot is.                                                      *)
LEMMA OnceIs ==
  ASSUME NEW n \in {1, 2, 3}
  PROVE  /\ Command("once", n) \in Requests /\ Command("once", n).kind = "once"
         /\ Command("once", n).n = n /\ ~Command("once", n).emits
BY DEF Command, Requests, Kinds

(* What a read that reports is.                                             *)
LEMMA ReadIs ==
  ASSUME NEW k \in {"regs", "basepage", "disasm"}
  PROVE  /\ StateRead(k) \in Requests /\ StateRead(k).kind = k /\ StateRead(k).emits
         /\ StateRead(k).n = 0
BY DEF StateRead, Requests, Kinds

(* What a refresh is made of.                                               *)
LEMMA RefreshIs ==
  /\ RefreshBatch \in Seq(Requests) /\ DOMAIN RefreshBatch = 1..3
  /\ RefreshBatch[1] = Command("regs", 0) /\ RefreshBatch[2] = Command("basepage", 0)
  /\ RefreshBatch[3] = StateRead("disasm")
<1>1. Command("regs", 0) \in Requests /\ Command("basepage", 0) \in Requests
      /\ StateRead("disasm") \in Requests
  BY CommandIs, ReadIs DEF Kinds
<1> QED BY <1>1 DEF RefreshBatch

(* A refresh reads the registers before it reports.                         *)
LEMMA RefreshIsNeutral ==
  ASSUME NEW guided \in BOOLEAN
  PROVE  Neutral(RefreshBatch, guided)
<1>1. /\ RefreshBatch[1].kind = "regs" /\ RefreshBatch[2].kind = "basepage"
      /\ RefreshBatch[3].kind = "disasm"
  BY RefreshIs, CommandIs, ReadIs DEF Kinds
<1>2. 1 \in DOMAIN RefreshBatch /\ \A i \in DOMAIN RefreshBatch : i \in {1, 2, 3} /\ 1 <= i
  BY RefreshIs
<1> QED BY <1>1, <1>2, RefreshIs DEF Neutral

(* A single request that nothing depends on.                                *)
LEMMA OneIsNeutral ==
  ASSUME NEW c \in Requests, ~c.emits, NEW guided \in BOOLEAN,
         c.kind \notin {"clear", "arm", "watch", "save", "step", "ext", "uae"},
         c.kind = "once" /\ c.n = 2 => guided
  PROVE  <<c>> \in Seq(Requests) /\ DOMAIN <<c>> = 1..1 /\ <<c>>[1] = c /\ Neutral(<<c>>, guided)
<1> DEFINE b == <<c>>
<1>1. b \in Seq(Requests) /\ DOMAIN b = 1..1 /\ b[1] = c
  OBVIOUS
<1> HIDE DEF b
<1>2. \A i \in DOMAIN b : b[i] = c
  BY <1>1
<1>3. Neutral(b, guided)
  BY <1>1, <1>2 DEF Neutral
<1> QED BY <1>1, <1>3 DEF b

(* Nothing is neutral.                                                      *)
LEMMA NoneIsNeutral ==
  ASSUME NEW guided \in BOOLEAN
  PROVE  Neutral(<<>>, guided)
BY DEF Neutral

(* Two neutral batches are one.                                             *)
LEMMA NeutralTogether ==
  ASSUME NEW guided \in BOOLEAN, NEW a, NEW b, Neutral(a, guided), Neutral(b, guided)
  PROVE  Neutral(a \o b, guided)
<1>1. /\ a \o b \in Seq(Requests) /\ Len(a) \in Nat /\ Len(b) \in Nat
      /\ DOMAIN a = 1..Len(a) /\ DOMAIN b = 1..Len(b) /\ DOMAIN (a \o b) = 1..(Len(a) + Len(b))
      /\ \A i \in 1..Len(a) : (a \o b)[i] = a[i]
      /\ \A i \in 1..Len(b) : (a \o b)[Len(a) + i] = b[i]
  BY ConcatIs DEF Neutral
<1> DEFINE n == Len(a)
           k == Len(b)
           s == a \o b
<1> HIDE DEF n, k, s
<1>2. /\ s \in Seq(Requests) /\ n \in Nat /\ k \in Nat
      /\ DOMAIN a = 1..n /\ DOMAIN b = 1..k /\ DOMAIN s = 1..(n + k)
      /\ \A i \in 1..n : s[i] = a[i]
      /\ \A i \in 1..k : s[n + i] = b[i]
  BY <1>1 DEF n, k, s
<1>3. ASSUME NEW i \in 1..n
      PROVE  /\ s[i].kind \notin {"clear", "arm", "watch", "save", "step", "ext", "uae"}
             /\ s[i].kind = "once" /\ s[i].n = 2 => guided
             /\ s[i].emits => \E j \in 1..(n + k) : j <= i /\ s[j].kind = "regs"
  <2>1. s[i].emits => \E j \in 1..n : j <= i /\ a[j].kind = "regs"
    BY <1>2 DEF Neutral
  <2>2. 1..n \subseteq 1..(n + k)
    BY <1>2
  <2>3. /\ a[i].kind \notin {"clear", "arm", "watch", "save", "step", "ext", "uae"}
        /\ a[i].kind = "once" /\ a[i].n = 2 => guided
    BY <1>2 DEF Neutral
  <2> QED BY <1>2, <2>1, <2>2, <2>3
<1>4. ASSUME NEW i \in 1..k
      PROVE  /\ s[n + i].kind \notin {"clear", "arm", "watch", "save", "step", "ext", "uae"}
             /\ s[n + i].kind = "once" /\ s[n + i].n = 2 => guided
             /\ s[n + i].emits => \E j \in 1..(n + k) : j <= n + i /\ s[j].kind = "regs"
  <2>1. s[n + i].emits => \E j \in 1..k : j <= i /\ b[j].kind = "regs"
    BY <1>2 DEF Neutral
  <2>2. \A j \in 1..k : n + j \in 1..(n + k) /\ (j <= i => n + j <= n + i)
    BY <1>2
  <2>3. /\ b[i].kind \notin {"clear", "arm", "watch", "save", "step", "ext", "uae"}
        /\ b[i].kind = "once" /\ b[i].n = 2 => guided
    BY <1>2 DEF Neutral
  <2>4. s[n + i] = b[i]
    BY <1>2
  <2>5. s[n + i].emits => \E j \in 1..(n + k) : j <= n + i /\ s[j].kind = "regs"
    <3>1. ASSUME s[n + i].emits PROVE \E j \in 1..(n + k) : j <= n + i /\ s[j].kind = "regs"
      <4>1. PICK j \in 1..k : j <= i /\ b[j].kind = "regs"
        BY <2>1, <3>1
      <4>2. n + j \in 1..(n + k) /\ n + j <= n + i /\ s[n + j] = b[j]
        BY <1>2, <2>2, <4>1
      <4> QED BY <4>1, <4>2
    <3> QED BY <3>1
  <2> QED BY <2>3, <2>4, <2>5
<1>5. \A i \in 1..(n + k) : i \in 1..n \/ (i - n \in 1..k /\ i = n + (i - n))
  BY <1>2
<1>6. Neutral(s, guided)
  <2>1. ASSUME NEW i \in 1..(n + k)
        PROVE  /\ s[i].kind \notin {"clear", "arm", "watch", "save", "step", "ext", "uae"}
               /\ s[i].kind = "once" /\ s[i].n = 2 => guided
               /\ s[i].emits => \E j \in 1..(n + k) : j <= i /\ s[j].kind = "regs"
    <3>1. CASE i \in 1..n
      BY <1>3, <3>1
    <3>2. CASE i - n \in 1..k /\ i = n + (i - n)
      <4> DEFINE x == i - n
      <4>1. x \in 1..k /\ i = n + x
        BY <3>2
      <4> HIDE DEF x
      <4> QED BY <1>4, <4>1
    <3> QED BY <1>5, <3>1, <3>2
  <2> QED BY <1>2, <2>1 DEF Neutral
<1> QED BY <1>6 DEF s

(* Three requests in a row.                                                 *)
LEMMA ThreeAre ==
  ASSUME NEW S, NEW x \in S, NEW y \in S, NEW z \in S
  PROVE  /\ <<x>> \o <<y>> \o <<z>> \in Seq(S) /\ DOMAIN (<<x>> \o <<y>> \o <<z>>) = 1..3
         /\ (<<x>> \o <<y>> \o <<z>>)[1] = x /\ (<<x>> \o <<y>> \o <<z>>)[2] = y
         /\ (<<x>> \o <<y>> \o <<z>>)[3] = z
<1> DEFINE a == <<x>>
           b == <<y>>
           c == <<z>>
           s == a \o b
<1>1. a \in Seq(S) /\ Len(a) = 1 /\ b \in Seq(S) /\ Len(b) = 1 /\ c \in Seq(S) /\ Len(c) = 1
      /\ a[1] = x /\ b[1] = y /\ c[1] = z
  OBVIOUS
<1> HIDE DEF a, b, c
<1>2. s \in Seq(S) /\ Len(s) = 2 /\ s[1] = x /\ s[2] = y
  <2>1. /\ s \in Seq(S) /\ Len(s) = Len(a) + Len(b)
        /\ \A i \in 1..Len(a) : s[i] = a[i]
        /\ \A i \in 1..Len(b) : s[Len(a) + i] = b[i]
    <3>1. a \in Seq(S) /\ b \in Seq(S)
      BY <1>1
    <3> QED BY <3>1, ConcatIs
  <2> QED BY <1>1, <2>1
<1> HIDE DEF s
<1>3. s \o c \in Seq(S) /\ DOMAIN (s \o c) = 1..3 /\ (s \o c)[1] = x /\ (s \o c)[2] = y /\ (s \o c)[3] = z
  <2>1. /\ s \o c \in Seq(S) /\ DOMAIN (s \o c) = 1..Len(s) + Len(c)
        /\ \A i \in 1..Len(s) : (s \o c)[i] = s[i]
        /\ \A i \in 1..Len(c) : (s \o c)[Len(s) + i] = c[i]
    BY <1>1, <1>2, ConcatIs
  <2> QED BY <1>1, <1>2, <2>1
<1> QED BY <1>3 DEF s, a, b, c

(* Two requests in a row.                                                   *)
LEMMA TwoAre ==
  ASSUME NEW S, NEW x \in S, NEW z \in S
  PROVE  /\ <<x>> \o <<>> \o <<z>> \in Seq(S) /\ DOMAIN (<<x>> \o <<>> \o <<z>>) = 1..2
         /\ (<<x>> \o <<>> \o <<z>>)[1] = x /\ (<<x>> \o <<>> \o <<z>>)[2] = z
<1> DEFINE a == <<x>>
           c == <<z>>
<1>1. a \in Seq(S) /\ Len(a) = 1 /\ c \in Seq(S) /\ Len(c) = 1 /\ a[1] = x /\ c[1] = z
  OBVIOUS
<1> HIDE DEF a, c
<1>2. a \o <<>> = a
  BY <1>1, ConcatEmptySeq
<1>3. a \o c \in Seq(S) /\ DOMAIN (a \o c) = 1..2 /\ (a \o c)[1] = x /\ (a \o c)[2] = z
  <2>1. /\ a \o c \in Seq(S) /\ DOMAIN (a \o c) = 1..Len(a) + Len(c)
        /\ \A i \in 1..Len(a) : (a \o c)[i] = a[i]
        /\ \A i \in 1..Len(c) : (a \o c)[Len(a) + i] = c[i]
    BY <1>1, ConcatIs
  <2> QED BY <1>1, <2>1
<1> QED BY <1>2, <1>3 DEF a, c

(* What arming the breakpoints asks for.                                    *)
LEMMA PlanIs ==
  ASSUME NEW f \in FrameType
  PROVE  /\ Plan(f) \in Seq(Requests)
         /\ \A i \in DOMAIN Plan(f) : Plan(f)[i].kind \in {"clear", "arm", "watch"} /\ ~Plan(f)[i].emits
         /\ 1 \in DOMAIN Plan(f) /\ Plan(f)[1].kind = "clear"
         /\ f.win.bases =>
              /\ DOMAIN Plan(f) = 1..3
              /\ Plan(f)[2].kind = "arm" /\ Plan(f)[2].n = f.model
              /\ Plan(f)[3].kind = "watch" /\ Plan(f)[3].n = f.model
<1> DEFINE x == Command("clear", 0)
           y == Command("arm", f.model)
           z == Command("watch", f.model)
<1>1. f.model \in Nat /\ f.win.bases \in BOOLEAN
  BY FrameIs DEF WindowType
<1>2. /\ x \in Requests /\ x.kind = "clear" /\ ~x.emits
      /\ y \in Requests /\ y.kind = "arm" /\ y.n = f.model /\ ~y.emits
      /\ z \in Requests /\ z.kind = "watch" /\ z.n = f.model /\ ~z.emits
  BY <1>1, CommandIs DEF Kinds
<1>3. CASE f.win.bases
  <2>1. Plan(f) = <<x>> \o <<y>> \o <<z>>
    BY <1>3 DEF Plan
  <2> DEFINE b == <<x>> \o <<y>> \o <<z>>
  <2> HIDE DEF x, y, z
  <2>2. b \in Seq(Requests) /\ DOMAIN b = 1..3 /\ b[1] = x /\ b[2] = y /\ b[3] = z
    BY <1>2, ThreeAre
  <2> HIDE DEF b
  <2>3. \A i \in 1..3 : i = 1 \/ i = 2 \/ i = 3
    OBVIOUS
  <2>4. /\ b \in Seq(Requests) /\ \A i \in DOMAIN b : b[i].kind \in {"clear", "arm", "watch"} /\ ~b[i].emits
        /\ 1 \in DOMAIN b /\ b[1].kind = "clear"
        /\ DOMAIN b = 1..3 /\ b[2].kind = "arm" /\ b[2].n = f.model
        /\ b[3].kind = "watch" /\ b[3].n = f.model
    BY <1>2, <2>2, <2>3
  <2>5. Plan(f) = b
    BY <2>1 DEF b
  <2> QED BY <2>4, <2>5
<1>4. CASE ~f.win.bases
  <2>1. Plan(f) = <<x>> \o <<>> \o <<z>>
    BY <1>4 DEF Plan
  <2> DEFINE b == <<x>> \o <<>> \o <<z>>
  <2> HIDE DEF x, y, z
  <2>2. b \in Seq(Requests) /\ DOMAIN b = 1..2 /\ b[1] = x /\ b[2] = z
    BY <1>2, TwoAre
  <2> HIDE DEF b
  <2>3. \A i \in 1..2 : i = 1 \/ i = 2
    OBVIOUS
  <2> QED BY <1>2, <1>4, <2>1, <2>2, <2>3 DEF b
<1> QED BY <1>1, <1>3, <1>4

(* The types of what a frame holds.                                         *)
LEMMA ControlIs ==
  ASSUME NEW f \in FrameType
  PROVE  /\ f.ctl.attached \in BOOLEAN /\ f.ctl.armed \in BOOLEAN /\ f.ctl.stepOut \in BOOLEAN
         /\ f.ctl.stopEvent \in BOOLEAN /\ f.ctl.stepEvent \in BOOLEAN /\ f.ctl.turbo \in BOOLEAN
         /\ f.ctl.coverage \in BOOLEAN /\ f.ctl.profileSave \in BOOLEAN /\ f.ctl.guided \in BOOLEAN
         /\ f.win.bases \in BOOLEAN /\ f.lane.queue \in Seq(Requests) /\ f.model \in Nat
BY DEF FrameType, ControlType, WindowType, LaneType

(* What arming the breakpoints leaves as it was.                            *)
LEMMA ArmIs ==
  ASSUME NEW f \in FrameType
  PROVE  LET g == ArmBreakpoints(f)
         IN  /\ g \in FrameType /\ g.lane = Put(f, Plan(f)).lane
             /\ g.win = f.win /\ g.ghost = f.ghost /\ g.model = f.model
             /\ g.ctl = [f.ctl EXCEPT !.armed = f.ctl.armed \/ f.win.bases]
<1> DEFINE v == f.ctl.armed \/ f.win.bases
           p == Put(f, Plan(f))
           g == ArmBreakpoints(f)
<1>1. v \in BOOLEAN
  OBVIOUS
<1>2. /\ p \in FrameType /\ p.ctl = f.ctl /\ p.win = f.win /\ p.ghost = f.ghost /\ p.model = f.model
  BY PlanIs, PutIs DEF Same
<1>3. g = [p EXCEPT !.ctl.armed = p.ctl.armed \/ f.win.bases]
  BY DEF ArmBreakpoints
<1>4. g = [p EXCEPT !.ctl.armed = v]
  BY <1>2, <1>3
<1> HIDE DEF v, p, g
<1>5. /\ g \in FrameType /\ g.lane = p.lane /\ g.win = p.win /\ g.ghost = p.ghost /\ g.model = p.model
      /\ g.ctl = [p.ctl EXCEPT !.armed = v]
  BY <1>1, <1>2, <1>4 DEF FrameType, ControlType
<1> QED BY <1>2, <1>5 DEF v, p, g

(* Re-arming restores what an edit or the end of a guided run broke.        *)
LEMMA ArmBody ==
  ASSUME NEW f \in FrameType, NEW c \in Commands, NEW m, NEW r,
         LET L == Line(c, f.lane.queue)
         IN  /\ EndsCovered(f, L, m) /\ ReportsAreFresh(L, m, r) /\ SaveIsComing(f, L)
             /\ BasesCome(f, L, m, r) /\ StopsAreRecorded(f, L, r) /\ PatienceOK(f, L, m),
         f.ctl.armed => f.win.bases,
         user = "patient" => ~f.lane.continuing /\ ~f.ctl.stepOut
  PROVE  LET g == ArmBreakpoints(f) IN Body(g, Line(c, g.lane.queue), m, r)
<1> DEFINE b == Plan(f)
           L == Line(c, f.lane.queue)
           M == Line(c, f.lane.queue \o b)
           g == ArmBreakpoints(f)
           v == f.ctl.armed \/ f.win.bases
<1>1. b \in Seq(Requests) /\ f.lane.queue \in Seq(Requests)
  BY PlanIs, ControlIs
<1>2. Grown(L, M, b)
  BY <1>1, LineGrows
<1>3. /\ g.lane.queue = f.lane.queue \o b /\ g.lane.stopped = f.lane.stopped
      /\ g.lane.continuing = f.lane.continuing /\ g.win = f.win /\ g.model = f.model /\ g.ghost = f.ghost
  <2>1. /\ Put(f, b).lane.queue = f.lane.queue \o b /\ Put(f, b).lane.stopped = f.lane.stopped
        /\ Put(f, b).lane.continuing = f.lane.continuing
    BY <1>1, PutIs DEF Same
  <2>2. g.lane = Put(f, b).lane /\ g.win = f.win /\ g.model = f.model /\ g.ghost = f.ghost
    BY ArmIs
  <2> QED BY <2>1, <2>2
<1>4. g.ctl = [f.ctl EXCEPT !.armed = v] /\ f.ctl \in ControlType
  BY ArmIs, FrameIs
<1>5. /\ g.ctl.attached = f.ctl.attached /\ g.ctl.stepOut = f.ctl.stepOut
      /\ g.ctl.stopEvent = f.ctl.stopEvent /\ g.ctl.stepEvent = f.ctl.stepEvent
      /\ g.ctl.turbo = f.ctl.turbo /\ g.ctl.coverage = f.ctl.coverage
      /\ g.ctl.profileSave = f.ctl.profileSave /\ g.ctl.guided = f.ctl.guided
      /\ g.ctl.armed = v
  BY <1>4 DEF ControlType
<1>6. /\ \A i \in DOMAIN b : b[i].kind \in {"clear", "arm", "watch"} /\ ~b[i].emits
      /\ 1 \in DOMAIN b /\ b[1].kind = "clear"
      /\ f.win.bases => /\ DOMAIN b = 1..3
                        /\ b[2].kind = "arm" /\ b[2].n = f.model
                        /\ b[3].kind = "watch" /\ b[3].n = f.model
  BY PlanIs
<1>7. /\ EndsCovered(f, L, m) /\ ReportsAreFresh(L, m, r) /\ SaveIsComing(f, L)
      /\ BasesCome(f, L, m, r) /\ StopsAreRecorded(f, L, r) /\ PatienceOK(f, L, m)
  OBVIOUS
<1>8. v <=> f.win.bases
  OBVIOUS
<1> HIDE DEF b, L, M, g, v
<1>9. EndsArmed(g, M, m)
  <2> SUFFICES ASSUME f.win.bases
               PROVE  /\ Ends(M, {"clear", "arm"}, "arm", f.model, m.bp)
                      /\ Ends(M, {"clear", "watch"}, "watch", f.model, m.wp)
    BY <1>3, <1>5, <1>8 DEF EndsArmed
  <2>1. 2 \in DOMAIN b /\ 3 \in DOMAIN b /\ \A i \in DOMAIN b : (i > 2 => i = 3) /\ ~(i > 3)
    BY <1>6
  <2>2. \A i \in DOMAIN b : i > 2 => b[i].kind \notin {"clear", "arm"}
    BY <1>6, <2>1
  <2>3. \A i \in DOMAIN b : i > 3 => b[i].kind \notin {"clear", "watch"}
    BY <1>6, <2>1
  <2>4. Ends(M, {"clear", "arm"}, b[2].kind, b[2].n, m.bp)
    BY <1>2, <2>1, <2>2, EndsPlanned
  <2>5. Ends(M, {"clear", "watch"}, b[3].kind, b[3].n, m.wp)
    BY <1>2, <2>1, <2>3, EndsPlanned
  <2> QED BY <1>6, <2>4, <2>5
<1>10. EndsCovered(g, M, m)
  BY <1>2, <1>5, <1>7, HoldsGrow DEF EndsCovered
<1>11. ShotIsCleared(g, M, m)
  BY <1>2, <1>6, ShotPlanned
<1>12. ReportsAreFresh(M, m, r)
  BY <1>2, <1>6, <1>7, ReportsGrow
<1>13. SaveIsComing(g, M)
  BY <1>2, <1>5, <1>7, HoldsGrow DEF SaveIsComing
<1>14. BasesCome(g, M, m, r)
  <2>1. BasesCome(f, M, m, r)
    BY <1>2, <1>7, BasesGrow
  <2> QED BY <1>3, <2>1 DEF BasesCome
<1>15. StopsAreRecorded(g, M, r)
  <2>1. StopsAreRecorded(f, M, r)
    BY <1>2, <1>6, <1>7, StopsGrow
  <2> QED BY <1>3, <2>1 DEF StopsAreRecorded
<1>16. ASSUME user = "patient" PROVE PatienceOK(g, M, m)
  <2>1. ContinueHasItsEnd(g, M, m) /\ StepOutWaits(g, M, m)
    BY <1>3, <1>5, <1>16 DEF ContinueHasItsEnd, StepOutWaits
  <2>2. SavesAreHere(f, M, m)
    BY <1>2, <1>6, <1>7, <1>16, SavesGrow DEF PatienceOK
  <2>3. ViewsCome(f, M, m)
    BY <1>2, <1>6, <1>7, <1>16, ViewsGrow DEF PatienceOK
  <2>4. EventsCome(f, M, m)
    BY <1>2, <1>7, <1>16, EventsGrow DEF PatienceOK
  <2>5. SetupComes(f, M, m)
    BY <1>2, <1>6, <1>7, <1>16, SetupGrows DEF PatienceOK
  <2>6. SavesAreHere(g, M, m) /\ ViewsCome(g, M, m)
    BY <1>3, <2>2, <2>3 DEF SavesAreHere, ViewsCome
  <2>7. EventsCome(g, M, m) /\ SetupComes(g, M, m)
    BY <1>3, <1>5, <2>4, <2>5 DEF EventsCome, SetupComes
  <2> QED BY <2>1, <2>6, <2>7 DEF PatienceOK
<1>17. Body(g, M, m, r)
  BY <1>9, <1>10, <1>11, <1>12, <1>13, <1>14, <1>15, <1>16 DEF Body, LineOK, PatienceOK
<1> QED BY <1>3, <1>17 DEF M, g, b

(* A frame of a handler that runs at a stop, about the command c.           *)
Good(f, c, m, r) ==
  f \in FrameType /\ f.lane.stopped /\ Attached(f, r) /\ Body(f, Line(c, f.lane.queue), m, r)

(* What is neutral keeps a frame good.                                      *)
LEMMA PutGood ==
  ASSUME NEW f, NEW c \in Commands, NEW m, NEW r, Good(f, c, m, r),
         NEW b, Neutral(b, f.ctl.guided),
         user = "patient" => ~f.lane.continuing /\ ~f.ctl.stepOut
  PROVE  /\ Good(Put(f, b), c, m, r) /\ Same(f, Put(f, b))
         /\ Put(f, b).lane.current = f.lane.current /\ Put(f, b).lane.entry = f.lane.entry
<1>1. f \in FrameType /\ b \in Seq(Requests)
  BY DEF Good, Neutral
<1>2. /\ Put(f, b) \in FrameType /\ Same(f, Put(f, b))
      /\ Put(f, b).lane.current = f.lane.current /\ Put(f, b).lane.entry = f.lane.entry
  BY <1>1, PutIs
<1>3. Body(Put(f, b), Line(c, Put(f, b).lane.queue), m, r)
  BY <1>1, PutBody DEF Good
<1>4. Attached(Put(f, b), r) /\ Put(f, b).lane.stopped
  BY <1>2 DEF Good, Attached, Same
<1> QED BY <1>2, <1>3, <1>4 DEF Good

(* What a patient user's line is while a report is handled.                 *)
LEMMA PatientReports ==
  ASSUME NEW f, NEW c \in Requests, c.emits, NEW m, NEW r, Good(f, c, m, r), user = "patient"
  PROVE  ~f.lane.continuing /\ ~f.ctl.stepOut /\ ~Holds(Line(c, f.lane.queue), "step")
<1> DEFINE L == Line(c, f.lane.queue)
<1>1. PatienceOK(f, L, m)
  BY DEF Good, Body
<1>2. f.lane.queue \in Seq(Requests)
  BY ControlIs DEF Good
<1>3. c \in Commands
  BY DEF Commands
<1>4. 0 \in DOMAIN L /\ L[0] = c /\ DOMAIN L \subseteq Nat
  BY <1>2, <1>3, LineIs
<1>5. c.kind \in {"regs", "basepage", "disasm"}
  BY DEF Requests
<1> HIDE DEF L
<1>6. ~f.lane.continuing
  BY <1>1, <1>4, <1>5 DEF PatienceOK, ContinueHasItsEnd
<1>7. ~f.ctl.stepOut
  BY <1>1, <1>4, <1>5 DEF PatienceOK, StepOutWaits
<1>8. ~Holds(L, "step")
  <2> SUFFICES ASSUME NEW i \in DOMAIN L, L[i].kind = "step" PROVE FALSE
    BY DEF Holds
  <2>1. i > 0
    BY <1>4, <1>5
  <2>2. \A j \in DOMAIN L : j < i => L[j].kind = "none"
    BY <1>1 DEF PatienceOK, ViewsCome
  <2> QED BY <1>4, <1>5, <2>1, <2>2
<1> QED BY <1>6, <1>7, <1>8 DEF L

(* What a reported state says: all of it is of the machine, or nothing.     *)
ReportIs(c, m, r) ==
  /\ r \in States
  /\ r.valid => r.move = m.move /\ r.pc = m.pc
  /\ ~r.valid => c.kind = "basepage"

(* A state that is reported is seen.                                        *)
LEMMA SeenGood ==
  ASSUME NEW f, NEW c \in Requests, c.emits, NEW m, NEW r, ReportIs(c, m, r), Good(f, c, m, r)
  PROVE  LET g == [f EXCEPT !.win.seen = r]
         IN  /\ Good(g, c, m, r) /\ g.lane = f.lane /\ g.ctl = f.ctl
             /\ g.ghost = f.ghost /\ g.model = f.model
             /\ g.win = [f.win EXCEPT !.seen = r]
<1> DEFINE g == [f EXCEPT !.win.seen = r]
           L == Line(c, f.lane.queue)
<1>1. f \in FrameType /\ f.win \in WindowType /\ r \in States
  BY FrameIs DEF Good, ReportIs
<1>2. /\ g \in FrameType /\ g.lane = f.lane /\ g.ctl = f.ctl /\ g.ghost = f.ghost /\ g.model = f.model
      /\ g.win = [f.win EXCEPT !.seen = r]
  BY <1>1 DEF FrameType, WindowType
<1>3. /\ g.win.seen = r /\ g.win.bases = f.win.bases /\ g.win.anchors = f.win.anchors
      /\ g.win.saving = f.win.saving /\ g.win.after = f.win.after /\ g.win.logging = f.win.logging
  BY <1>1, <1>2 DEF WindowType
<1>4. LineOK(f, L, m, r) /\ PatienceOK(f, L, m) /\ Attached(f, r) /\ f.lane.stopped
  BY DEF Good, Body
<1> HIDE DEF g, L
<1>5. LineOK(g, L, m, r)
  <2>1. EndsArmed(g, L, m) /\ EndsCovered(g, L, m) /\ ShotIsCleared(g, L, m)
    BY <1>2, <1>4 DEF LineOK, EndsArmed, EndsCovered, ShotIsCleared
  <2>2. ReportsAreFresh(L, m, r) /\ SaveIsComing(g, L) /\ BasesCome(g, L, m, r)
    BY <1>2, <1>3, <1>4 DEF LineOK, SaveIsComing, BasesCome
  <2>3. StopsAreRecorded(g, L, r)
    BY <1>2, <1>3, <1>4 DEF LineOK, StopsAreRecorded
  <2> QED BY <2>1, <2>2, <2>3 DEF LineOK
<1>6. ASSUME user = "patient" PROVE PatienceOK(g, L, m)
  <2>1. ContinueHasItsEnd(g, L, m) /\ StepOutWaits(g, L, m) /\ SavesAreHere(g, L, m)
    BY <1>2, <1>3, <1>4, <1>6 DEF PatienceOK, ContinueHasItsEnd, StepOutWaits, SavesAreHere
  <2>2. EventsCome(g, L, m) /\ SetupComes(g, L, m)
    BY <1>2, <1>3, <1>4, <1>6 DEF PatienceOK, EventsCome, SetupComes
  <2>3. (g.win.seen.valid /\ g.win.seen.move = m.move) \/ Holds(L, "disasm")
    <3>1. CASE r.valid
      BY <1>3, <3>1 DEF ReportIs
    <3>2. CASE ~r.valid
      BY <1>4, <1>6, <3>2 DEF PatienceOK, ViewsCome, Attached
    <3> QED BY <3>1, <3>2
  <2>4. ViewsCome(g, L, m)
    BY <1>4, <1>6, <2>3 DEF PatienceOK, ViewsCome
  <2> QED BY <2>1, <2>2, <2>4 DEF PatienceOK
<1>7. Attached(g, r)
  BY <1>2, <1>3, <1>4 DEF Attached
<1>8. Good(g, c, m, r)
  BY <1>2, <1>4, <1>5, <1>6, <1>7 DEF Good, Body, PatienceOK, L
<1> QED BY <1>2, <1>8 DEF g

(* The input log is asked for once.                                         *)
LEMMA StartInputLogGood ==
  ASSUME NEW f, NEW c \in Requests, c.emits, NEW m, NEW r, Good(f, c, m, r)
  PROVE  LET g == StartInputLog(f)
         IN  /\ Good(g, c, m, r) /\ g.ctl = f.ctl /\ g.ghost = f.ghost /\ g.model = f.model
             /\ g.lane.stopped = f.lane.stopped /\ g.lane.current = f.lane.current
             /\ g.lane.continuing = f.lane.continuing
             /\ g.win.seen = f.win.seen /\ g.win.bases = f.win.bases
             /\ g.win.anchors = f.win.anchors /\ g.win.saving = f.win.saving
<1>1. CASE f.win.logging
  BY <1>1 DEF StartInputLog
<1>2. CASE ~f.win.logging
  <2> DEFINE b == <<Command("replaylog", 0)>>
             p == Put(f, b)
             g == StartInputLog(f)
             L == Line(c, p.lane.queue)
  <2>1. f \in FrameType /\ c \in Commands /\ f.ctl.guided \in BOOLEAN
    BY ControlIs DEF Good, Commands
  <2>2. /\ Neutral(b, f.ctl.guided) /\ b \in Seq(Requests) /\ DOMAIN b = 1..1
        /\ b[1].kind = "replaylog"
    <3>1. Command("replaylog", 0) \in Requests /\ Command("replaylog", 0).kind = "replaylog"
          /\ ~Command("replaylog", 0).emits
      BY CommandIs DEF Kinds
    <3> QED BY <2>1, <3>1, OneIsNeutral
  <2>3. user = "patient" => ~f.lane.continuing /\ ~f.ctl.stepOut
    BY PatientReports
  <2>4. /\ Good(p, c, m, r) /\ Same(f, p) /\ p.lane.current = f.lane.current
        /\ p.lane.queue = f.lane.queue \o b
    <3> HIDE DEF b
    <3> QED BY <2>1, <2>2, <2>3, PutGood, PutIs
  <2>5. Holds(L, "replaylog")
    <3>1. f.lane.queue \in Seq(Requests)
      BY <2>1, ControlIs
    <3>2. Grown(Line(c, f.lane.queue), L, b)
      BY <2>1, <2>2, <2>4, <3>1, LineGrows
    <3>3. 1 \in DOMAIN b
      BY <2>2
    <3> HIDE DEF b, L
    <3> QED BY <2>2, <3>2, <3>3, PutIsHeld
  <2>6. g = [p EXCEPT !.win.logging = TRUE]
    BY <1>2 DEF StartInputLog
  <2>7. p \in FrameType /\ p.win \in WindowType
    BY <2>4, FrameIs DEF Good
  <2> HIDE DEF b, p, g
  <2>8. /\ g \in FrameType /\ g.lane = p.lane /\ g.ctl = p.ctl /\ g.ghost = p.ghost /\ g.model = p.model
        /\ g.win = [p.win EXCEPT !.logging = TRUE]
    BY <2>6, <2>7 DEF FrameType, WindowType
  <2>9. /\ g.win.seen = p.win.seen /\ g.win.bases = p.win.bases /\ g.win.anchors = p.win.anchors
        /\ g.win.saving = p.win.saving /\ g.win.after = p.win.after
    BY <2>7, <2>8 DEF WindowType
  <2>10. LineOK(p, L, m, r) /\ PatienceOK(p, L, m) /\ Attached(p, r) /\ p.lane.stopped
    BY <2>4 DEF Good, Body
  <2> HIDE DEF L
  <2>11. LineOK(g, L, m, r)
    <3>1. EndsArmed(g, L, m) /\ EndsCovered(g, L, m) /\ ShotIsCleared(g, L, m)
      BY <2>8, <2>10 DEF LineOK, EndsArmed, EndsCovered, ShotIsCleared
    <3>2. ReportsAreFresh(L, m, r) /\ SaveIsComing(g, L) /\ BasesCome(g, L, m, r)
      BY <2>8, <2>9, <2>10 DEF LineOK, SaveIsComing, BasesCome
    <3>3. StopsAreRecorded(g, L, r)
      BY <2>8, <2>9, <2>10 DEF LineOK, StopsAreRecorded
    <3> QED BY <3>1, <3>2, <3>3 DEF LineOK
  <2>12. ASSUME user = "patient" PROVE PatienceOK(g, L, m)
    <3>1. ContinueHasItsEnd(g, L, m) /\ StepOutWaits(g, L, m) /\ SavesAreHere(g, L, m)
      BY <2>8, <2>9, <2>10, <2>12 DEF PatienceOK, ContinueHasItsEnd, StepOutWaits, SavesAreHere
    <3>2. EventsCome(g, L, m) /\ ViewsCome(g, L, m)
      BY <2>8, <2>9, <2>10, <2>12 DEF PatienceOK, EventsCome, ViewsCome
    <3>3. SetupComes(g, L, m)
      BY <2>5, <2>8, <2>10, <2>12 DEF PatienceOK, SetupComes
    <3> QED BY <3>1, <3>2, <3>3 DEF PatienceOK
  <2>13. Attached(g, r)
    BY <2>8, <2>9, <2>10 DEF Attached
  <2>14. Good(g, c, m, r)
    BY <2>8, <2>10, <2>11, <2>12, <2>13 DEF Good, Body, PatienceOK, L
  <2> QED BY <2>4, <2>8, <2>9, <2>14 DEF Same, g
<1> QED BY <1>1, <1>2

(* The two outcomes of RememberAnchor().                                    *)
Renewed(f, last, move) == [f EXCEPT !.win.anchors[last].move = move]
Recorded(f, last, a) ==
  [Put(f, <<Command("save", last + 1)>>)
     EXCEPT !.win.anchors = Append(@, a), !.win.saving = last + 1]

(* The state of one recorded stop is that of the machine again.             *)
LEMMA RenewedGood ==
  ASSUME NEW f, NEW c \in Requests, c.emits, NEW m, NEW r, ReportIs(c, m, r), Good(f, c, m, r),
         r.valid, NEW last, last = Len(f.win.anchors), last > 0, f.win.anchors[last].pc = r.pc
  PROVE  LET g == Renewed(f, last, r.move)
         IN  /\ Good(g, c, m, r) /\ g.ctl = f.ctl /\ g.ghost = f.ghost /\ g.model = f.model
             /\ g.lane = f.lane /\ g.win.seen = f.win.seen /\ g.win.bases = f.win.bases
<1> DEFINE g == Renewed(f, last, r.move)
           old == f.win.anchors
           a == [old EXCEPT ![last].move = r.move]
           L == Line(c, f.lane.queue)
<1>1. f \in FrameType /\ f.win \in WindowType /\ r.move \in Nat
  BY FrameIs DEF Good, ReportIs, States
<1>2. old \in Seq(Anchors) /\ last \in DOMAIN old /\ last \in Nat /\ DOMAIN old = 1..last
  BY <1>1 DEF WindowType
<1>3. old[last] \in Anchors
  BY <1>2
<1>4. [old[last] EXCEPT !.move = r.move] \in Anchors
  BY <1>1, <1>3 DEF Anchors
<1>5. a = [old EXCEPT ![last] = [old[last] EXCEPT !.move = r.move]]
  OBVIOUS
<1>6. /\ a \in Seq(Anchors) /\ DOMAIN a = DOMAIN old /\ Len(a) = last
      /\ \A i \in DOMAIN old : i # last => a[i] = old[i]
      /\ a[last] = [old[last] EXCEPT !.move = r.move]
  <2> HIDE DEF old, a
  <2> QED BY <1>2, <1>4, <1>5
<1>7. g = [f EXCEPT !.win.anchors = a]
  BY DEF Renewed
<1> HIDE DEF a, g
<1>8. /\ g \in FrameType /\ g.lane = f.lane /\ g.ctl = f.ctl /\ g.ghost = f.ghost /\ g.model = f.model
      /\ g.win = [f.win EXCEPT !.anchors = a]
  BY <1>1, <1>6, <1>7 DEF FrameType, WindowType
<1>9. /\ g.win.seen = f.win.seen /\ g.win.bases = f.win.bases /\ g.win.anchors = a
      /\ g.win.saving = f.win.saving /\ g.win.after = f.win.after /\ g.win.logging = f.win.logging
  BY <1>1, <1>8 DEF WindowType
<1>10. /\ a[last].move = r.move /\ a[last].pc = old[last].pc
       /\ a[last].file = old[last].file /\ a[last].filePc = old[last].filePc
  BY <1>3, <1>6 DEF Anchors
<1>11. \A i \in DOMAIN old : a[i].pc = old[i].pc /\ a[i].file = old[i].file /\ a[i].filePc = old[i].filePc
  BY <1>6, <1>10
<1>12. LineOK(f, L, m, r) /\ PatienceOK(f, L, m) /\ Attached(f, r) /\ f.lane.stopped
  BY DEF Good, Body
<1>13. \A i \in DOMAIN old : old[i] \in Anchors /\ old[i].move \in Nat
  <2> HIDE DEF old
  <2>1. \A i \in DOMAIN old : old[i] \in Anchors
    BY <1>2
  <2> QED BY <2>1 DEF Anchors
<1> HIDE DEF L
<1>14. StopsAreRecorded(g, L, r)
  <2>1. /\ \A i, j \in DOMAIN old : i < j => old[i].move < old[j].move
        /\ old # <<>> => old[last].move <= r.move
        /\ f.win.saving <= last
        /\ \A i \in DOMAIN L : L[i].kind = "save" => L[i].n \in DOMAIN old
    BY <1>12 DEF LineOK, StopsAreRecorded
  <2>2. old[last].move <= r.move
    BY <1>2, <2>1
  <2>3. ASSUME NEW i \in DOMAIN a, NEW j \in DOMAIN a, i < j
        PROVE  a[i].move < a[j].move
    <3>1. i # last /\ i \in DOMAIN old /\ j \in DOMAIN old /\ i < last
      BY <1>2, <1>6, <2>3
    <3>2. a[i].move = old[i].move
      BY <1>6, <3>1
    <3>3. old[i].move < old[last].move
      BY <1>2, <2>1, <3>1
    <3>4. CASE j = last
      BY <1>1, <1>2, <1>10, <1>13, <2>2, <3>1, <3>2, <3>3, <3>4
    <3>5. CASE j # last
      BY <1>6, <2>1, <2>3, <3>1, <3>2, <3>5
    <3> QED BY <3>4, <3>5
  <2>4. r.valid /\ a[last].move <= r.move /\ (a[last].move = r.move => a[last].pc = r.pc)
    BY <1>1, <1>10
  <2> QED BY <1>6, <1>9, <2>1, <2>3, <2>4 DEF StopsAreRecorded
<1>15. LineOK(g, L, m, r)
  <2>1. EndsArmed(g, L, m) /\ EndsCovered(g, L, m) /\ ShotIsCleared(g, L, m)
    BY <1>8, <1>12 DEF LineOK, EndsArmed, EndsCovered, ShotIsCleared
  <2>2. ReportsAreFresh(L, m, r) /\ SaveIsComing(g, L) /\ BasesCome(g, L, m, r)
    BY <1>8, <1>9, <1>12 DEF LineOK, SaveIsComing, BasesCome
  <2> QED BY <1>14, <2>1, <2>2 DEF LineOK
<1>16. ASSUME user = "patient" PROVE PatienceOK(g, L, m)
  <2>1. ContinueHasItsEnd(g, L, m) /\ StepOutWaits(g, L, m)
    BY <1>8, <1>9, <1>12, <1>16 DEF PatienceOK, ContinueHasItsEnd, StepOutWaits
  <2>2. EventsCome(g, L, m) /\ SetupComes(g, L, m) /\ ViewsCome(g, L, m)
    BY <1>8, <1>9, <1>12, <1>16 DEF PatienceOK, EventsCome, SetupComes, ViewsCome
  <2>3. \A i \in DOMAIN L : L[i].kind = "save" => a[L[i].n].pc = m.pc /\ ~Holds(L, "step")
    <3>1. \A i \in DOMAIN L : L[i].kind = "save" =>
            L[i].n \in DOMAIN old /\ old[L[i].n].pc = m.pc /\ ~Holds(L, "step")
      BY <1>12, <1>16 DEF PatienceOK, SavesAreHere, LineOK, StopsAreRecorded
    <3> QED BY <1>11, <3>1
  <2>4. \A i \in DOMAIN a : a[i].file # 0 => a[i].filePc = a[i].pc
    BY <1>6, <1>11, <1>12, <1>16 DEF PatienceOK, SavesAreHere
  <2>5. f.win.after = "none" /\ (f.win.saving # 0 => Has(L, "save", f.win.saving))
    BY <1>12, <1>16 DEF PatienceOK, SavesAreHere
  <2>6. SavesAreHere(g, L, m)
    BY <1>9, <2>3, <2>4, <2>5 DEF SavesAreHere
  <2> QED BY <2>1, <2>2, <2>6 DEF PatienceOK
<1>17. Attached(g, r)
  BY <1>8, <1>9, <1>12 DEF Attached
<1>18. Good(g, c, m, r)
  BY <1>8, <1>12, <1>15, <1>16, <1>17 DEF Good, Body, PatienceOK, L
<1> QED BY <1>8, <1>9, <1>18 DEF g

(* A stop is recorded, and its statesave asked for.                         *)
LEMMA RecordedGood ==
  ASSUME NEW f, NEW c \in Requests, c.emits, NEW m, NEW r, ReportIs(c, m, r), Good(f, c, m, r),
         r.valid, NEW last, last = Len(f.win.anchors),
         last > 0 => f.win.anchors[last].pc # r.pc,
         NEW a \in Anchors, a.pc = r.pc, a.move = r.move, a.file = 0
  PROVE  LET g == Recorded(f, last, a)
         IN  /\ Good(g, c, m, r) /\ g.ctl = f.ctl /\ g.ghost = f.ghost /\ g.model = f.model
             /\ g.lane.stopped = f.lane.stopped /\ g.lane.current = f.lane.current
             /\ g.lane.continuing = f.lane.continuing
             /\ g.win.seen = f.win.seen /\ g.win.bases = f.win.bases
<1> DEFINE g == Recorded(f, last, a)
           old == f.win.anchors
           n == last + 1
           b == <<Command("save", n)>>
           p == Put(f, b)
           s == Append(old, a)
           K == Line(c, f.lane.queue)
           L == Line(c, p.lane.queue)
<1>1. f \in FrameType /\ f.win \in WindowType /\ r.move \in Nat /\ c \in Commands
  BY FrameIs DEF Good, ReportIs, States, Commands
<1>2. old \in Seq(Anchors) /\ last \in Nat /\ DOMAIN old = 1..last /\ n \in Nat \ {0}
  BY <1>1 DEF WindowType
<1>3. /\ s \in Seq(Anchors) /\ Len(s) = n /\ DOMAIN s = 1..n /\ s[n] = a
      /\ \A i \in DOMAIN old : i \in DOMAIN s /\ s[i] = old[i] /\ i # n
      /\ \A i \in DOMAIN s : i = n \/ i \in DOMAIN old
  <2>1. /\ s \in Seq(Anchors) /\ Len(s) = Len(old) + 1
        /\ \A i \in 1 .. Len(old) : s[i] = old[i]
        /\ s[Len(old) + 1] = a
        /\ DOMAIN s = 1 .. Len(old) + 1
    BY <1>2, AppendIs
  <2> HIDE DEF s
  <2> QED BY <1>2, <2>1
<1>4. /\ Command("save", n) \in Requests /\ Command("save", n).kind = "save"
      /\ Command("save", n).n = n /\ ~Command("save", n).emits
  BY <1>2, CommandIs DEF Kinds
<1>5. b \in Seq(Requests) /\ DOMAIN b = 1..1 /\ b[1].kind = "save" /\ b[1].n = n /\ ~b[1].emits
  BY <1>4
<1>6. /\ p \in FrameType /\ Same(f, p) /\ p.lane.queue = f.lane.queue \o b
      /\ p.lane.current = f.lane.current
  <2> HIDE DEF b
  <2> QED BY <1>1, <1>5, PutIs
<1>7. Grown(K, L, b)
  <2>1. f.lane.queue \in Seq(Requests)
    BY <1>1, ControlIs
  <2> HIDE DEF b
  <2> QED BY <1>1, <1>5, <1>6, <2>1, LineGrows
<1>8. p.win = f.win /\ p.ctl = f.ctl /\ p.ghost = f.ghost /\ p.model = f.model
  BY <1>6 DEF Same
<1>9. PICK w : w = [p EXCEPT !.win.anchors = s]
  OBVIOUS
<1>10. g = [w EXCEPT !.win.saving = n]
  <2>1. g = [p EXCEPT !.win.anchors = Append(p.win.anchors, a), !.win.saving = n]
    BY DEF Recorded
  <2> HIDE DEF p, n, g
  <2>2. Append(p.win.anchors, a) = s
    BY <1>8
  <2> HIDE DEF s
  <2> QED BY <1>9, <2>1, <2>2
<1>11. /\ \A i \in DOMAIN b : b[i].kind = "save" /\ b[i].n = n /\ ~b[i].emits
       /\ 1 \in DOMAIN b
  BY <1>5
<1> HIDE DEF b, p, s, n, g
<1>12. /\ w \in FrameType /\ w.lane = p.lane /\ w.ctl = p.ctl /\ w.ghost = p.ghost /\ w.model = p.model
       /\ w.win = [p.win EXCEPT !.anchors = s]
  BY <1>1, <1>3, <1>6, <1>8, <1>9 DEF FrameType, WindowType
<1>13. /\ g \in FrameType /\ g.lane = p.lane /\ g.ctl = p.ctl /\ g.ghost = p.ghost /\ g.model = p.model
       /\ g.win = [w.win EXCEPT !.saving = n]
  BY <1>2, <1>10, <1>12 DEF FrameType, WindowType
<1>14. /\ g.win.seen = f.win.seen /\ g.win.bases = f.win.bases /\ g.win.anchors = s
       /\ g.win.saving = n /\ g.win.after = f.win.after /\ g.win.logging = f.win.logging
  BY <1>1, <1>8, <1>12, <1>13 DEF WindowType
<1>15. /\ g.lane.stopped = f.lane.stopped /\ g.lane.continuing = f.lane.continuing
       /\ g.lane.queue = p.lane.queue /\ g.lane.current = f.lane.current
       /\ g.ctl = f.ctl /\ g.ghost = f.ghost /\ g.model = f.model
  BY <1>6, <1>13 DEF Same
<1>16. LineOK(f, K, m, r) /\ PatienceOK(f, K, m) /\ Attached(f, r) /\ f.lane.stopped
  BY DEF Good, Body
<1>17. user = "patient" => ~f.lane.continuing /\ ~f.ctl.stepOut /\ ~Holds(K, "step")
  BY PatientReports
<1> HIDE DEF K, L
<1>18. StopsAreRecorded(g, L, r)
  <2>1. /\ \A i, j \in DOMAIN old : i < j => old[i].move < old[j].move
        /\ old # <<>> => old[last].move <= r.move /\ (old[last].move = r.move => old[last].pc = r.pc)
        /\ \A i \in DOMAIN K : K[i].kind = "save" => K[i].n \in DOMAIN old
    BY <1>16 DEF LineOK, StopsAreRecorded
  <2>2. \A i \in DOMAIN old : old[i] \in Anchors /\ old[i].move \in Nat
    <3> HIDE DEF old
    <3>1. \A i \in DOMAIN old : old[i] \in Anchors
      BY <1>2
    <3> QED BY <3>1 DEF Anchors
  <2>3. \A i \in DOMAIN old : old[i].move < r.move
    <3> SUFFICES ASSUME NEW i \in DOMAIN old PROVE old[i].move < r.move
      OBVIOUS
    <3>1. last \in DOMAIN old /\ old # <<>> /\ last > 0
      BY <1>2
    <3>2. old[last].move < r.move
      BY <1>1, <2>1, <2>2, <3>1
    <3>3. i = last \/ old[i].move < old[last].move
      BY <1>2, <2>1, <3>1
    <3> QED BY <1>1, <2>2, <3>1, <3>2, <3>3
  <2>4. ASSUME NEW i \in DOMAIN s, NEW j \in DOMAIN s, i < j
        PROVE  s[i].move < s[j].move
    <3>1. i \in DOMAIN old
      BY <1>2, <1>3, <2>4
    <3>2. CASE j = n
      BY <1>3, <2>3, <3>1, <3>2
    <3>3. CASE j \in DOMAIN old
      BY <1>3, <2>1, <2>4, <3>1, <3>3
    <3> QED BY <1>3, <3>2, <3>3
  <2>5. s[n].move <= r.move /\ s[n].pc = r.pc
    BY <1>1, <1>3
  <2>6. \A i \in DOMAIN L : L[i].kind = "save" => L[i].n \in DOMAIN s
    <3> SUFFICES ASSUME NEW i \in DOMAIN L, L[i].kind = "save" PROVE L[i].n \in DOMAIN s
      OBVIOUS
    <3>1. CASE i \in DOMAIN K
      <4>1. L[i] = K[i]
        BY <1>7, <3>1, GrownIs
      <4> QED BY <1>3, <2>1, <3>1, <4>1
    <3>2. CASE i \notin DOMAIN K
      <4>1. PICK j \in DOMAIN b : L[i] = b[j]
        BY <1>7, <3>2, GrownIs
      <4> QED BY <1>2, <1>3, <1>11, <4>1
    <3> QED BY <3>1, <3>2
  <2> QED BY <1>2, <1>3, <1>14, <2>4, <2>5, <2>6 DEF StopsAreRecorded
<1>19. LineOK(g, L, m, r)
  <2>1. EndsArmed(g, L, m)
    <3>1. EndsArmed(f, L, m)
      BY <1>7, <1>11, <1>16, EndsGrow DEF LineOK, EndsArmed
    <3> QED BY <1>15, <3>1 DEF EndsArmed
  <2>2. EndsCovered(g, L, m) /\ SaveIsComing(g, L)
    BY <1>7, <1>15, <1>16, HoldsGrow DEF LineOK, EndsCovered, SaveIsComing
  <2>3. ShotIsCleared(g, L, m)
    <3>1. ShotIsCleared(f, L, m)
      BY <1>7, <1>11, <1>16, ShotGrows DEF LineOK
    <3> QED BY <1>15, <3>1 DEF ShotIsCleared
  <2>4. ReportsAreFresh(L, m, r)
    BY <1>7, <1>11, <1>16, ReportsGrow DEF LineOK
  <2>5. BasesCome(g, L, m, r)
    <3>1. BasesCome(f, L, m, r)
      BY <1>7, <1>16, BasesGrow DEF LineOK
    <3> QED BY <1>14, <1>15, <3>1 DEF BasesCome
  <2> QED BY <1>18, <2>1, <2>2, <2>3, <2>4, <2>5 DEF LineOK
<1>20. ASSUME user = "patient" PROVE PatienceOK(g, L, m)
  <2>1. ContinueHasItsEnd(g, L, m) /\ StepOutWaits(g, L, m)
    BY <1>15, <1>17, <1>20 DEF ContinueHasItsEnd, StepOutWaits
  <2>2. ViewsCome(g, L, m)
    <3>1. ViewsCome(f, L, m)
      BY <1>7, <1>11, <1>16, <1>20, ViewsGrow DEF PatienceOK
    <3> QED BY <1>14, <1>15, <3>1 DEF ViewsCome
  <2>3. EventsCome(g, L, m)
    <3>1. EventsCome(f, L, m)
      BY <1>7, <1>16, <1>20, EventsGrow DEF PatienceOK
    <3> QED BY <1>15, <3>1 DEF EventsCome
  <2>4. SetupComes(g, L, m)
    <3>1. SetupComes(f, L, m)
      BY <1>7, <1>11, <1>16, <1>20, SetupGrows DEF PatienceOK
    <3> QED BY <1>14, <1>15, <3>1 DEF SetupComes
  <2>5. SavesAreHere(g, L, m)
    <3>1. /\ f.win.after = "none"
          /\ \A i \in DOMAIN K : K[i].kind = "save" => K[i].n \in DOMAIN old /\ old[K[i].n].pc = m.pc
          /\ \A i \in DOMAIN old : old[i].file # 0 => old[i].filePc = old[i].pc
      BY <1>16, <1>20 DEF PatienceOK, SavesAreHere, LineOK, StopsAreRecorded
    <3>2. Has(L, "save", n)
      BY <1>7, <1>11, PutIsHeld
    <3>3. ~Holds(L, "step")
      BY <1>7, <1>11, <1>17, <1>20, HeldIsOld
    <3>4. \A i \in DOMAIN L : L[i].kind = "save" => s[L[i].n].pc = m.pc
      <4> SUFFICES ASSUME NEW i \in DOMAIN L, L[i].kind = "save" PROVE s[L[i].n].pc = m.pc
        OBVIOUS
      <4>1. CASE i \in DOMAIN K
        <5>1. L[i] = K[i]
          BY <1>7, <4>1, GrownIs
        <5> QED BY <1>3, <3>1, <4>1, <5>1
      <4>2. CASE i \notin DOMAIN K
        <5>1. PICK j \in DOMAIN b : L[i] = b[j]
          BY <1>7, <4>2, GrownIs
        <5>2. r.pc = m.pc
          BY DEF ReportIs
        <5> QED BY <1>3, <1>11, <5>1, <5>2
      <4> QED BY <4>1, <4>2
    <3>5. \A i \in DOMAIN s : s[i].file # 0 => s[i].filePc = s[i].pc
      BY <1>3, <3>1
    <3> QED BY <1>14, <3>1, <3>2, <3>3, <3>4, <3>5 DEF SavesAreHere
  <2> QED BY <2>1, <2>2, <2>3, <2>4, <2>5 DEF PatienceOK
<1>21. Attached(g, r)
  BY <1>14, <1>15, <1>16 DEF Attached
<1>22. Good(g, c, m, r)
  BY <1>13, <1>15, <1>16, <1>19, <1>20, <1>21 DEF Good, Body, PatienceOK, L
<1> QED BY <1>14, <1>15, <1>22 DEF g

(* A stop is recorded, or is the last one recorded.                         *)
LEMMA RememberAnchorGood ==
  ASSUME NEW f, NEW c \in Requests, c.emits, NEW m, NEW r, ReportIs(c, m, r), Good(f, c, m, r),
         r.valid
  PROVE  LET g == RememberAnchor(f, r)
         IN  /\ Good(g, c, m, r) /\ g.ctl = f.ctl /\ g.ghost = f.ghost /\ g.model = f.model
             /\ g.lane.stopped = f.lane.stopped /\ g.lane.current = f.lane.current
             /\ g.lane.continuing = f.lane.continuing
             /\ g.win.seen = f.win.seen /\ g.win.bases = f.win.bases
<1> DEFINE last == Len(f.win.anchors)
           a == [pc |-> r.pc, move |-> r.move, isStop |-> ~f.ctl.stepEvent,
                 file |-> 0, filePc |-> 0]
<1>1. f \in FrameType /\ f.win.anchors \in Seq(Anchors)
  BY FrameIs DEF Good, WindowType
<1>2. last \in Nat
  BY <1>1
<1> DEFINE g == RememberAnchor(f, r)
<1>3. CASE last > 0 /\ f.win.anchors[last].pc = r.pc
  <2>1. g = Renewed(f, last, r.move)
    BY <1>3 DEF RememberAnchor, Renewed
  <2>2. last = Len(f.win.anchors)
    OBVIOUS
  <2> HIDE DEF last, g
  <2>3. /\ Good(g, c, m, r) /\ g.ctl = f.ctl /\ g.ghost = f.ghost /\ g.model = f.model
        /\ g.lane = f.lane /\ g.win.seen = f.win.seen /\ g.win.bases = f.win.bases
    BY <1>3, <2>1, <2>2, RenewedGood
  <2> QED BY <2>3 DEF g
<1>4. CASE ~(last > 0 /\ f.win.anchors[last].pc = r.pc)
  <2>1. g = Recorded(f, last, a)
    BY <1>4 DEF RememberAnchor, Recorded
  <2>2. a \in Anchors /\ a.pc = r.pc /\ a.move = r.move /\ a.file = 0
    BY <1>1, ControlIs DEF Anchors, ReportIs, States
  <2>3. last = Len(f.win.anchors) /\ (last > 0 => f.win.anchors[last].pc # r.pc)
    BY <1>4
  <2> HIDE DEF last, a, g
  <2>4. /\ Good(g, c, m, r) /\ g.ctl = f.ctl /\ g.ghost = f.ghost /\ g.model = f.model
        /\ g.lane.stopped = f.lane.stopped /\ g.lane.current = f.lane.current
        /\ g.lane.continuing = f.lane.continuing
        /\ g.win.seen = f.win.seen /\ g.win.bases = f.win.bases
    <3>1. r.valid /\ last = Len(f.win.anchors)
      BY <2>3
    <3>2. /\ Good(Recorded(f, last, a), c, m, r) /\ Recorded(f, last, a).ctl = f.ctl
          /\ Recorded(f, last, a).ghost = f.ghost /\ Recorded(f, last, a).model = f.model
          /\ Recorded(f, last, a).lane.stopped = f.lane.stopped
          /\ Recorded(f, last, a).lane.current = f.lane.current
          /\ Recorded(f, last, a).lane.continuing = f.lane.continuing
          /\ Recorded(f, last, a).win.seen = f.win.seen
          /\ Recorded(f, last, a).win.bases = f.win.bases
      BY <2>2, <2>3, RecordedGood
    <3> QED BY <2>1, <3>2
  <2> QED BY <2>4 DEF g
<1> QED BY <1>3, <1>4

(* What a report leaves as it was.                                          *)
Alike(f, g) ==
  /\ g.lane.stopped = f.lane.stopped /\ g.lane.current = f.lane.current
  /\ g.lane.continuing = f.lane.continuing
  /\ g.ghost = f.ghost /\ g.model = f.model
  /\ g.ctl.attached = f.ctl.attached /\ g.ctl.stepOut = f.ctl.stepOut
  /\ g.ctl.guided = f.ctl.guided /\ g.ctl.profileSave = f.ctl.profileSave
  /\ g.ctl.coverage = f.ctl.coverage /\ g.ctl.turbo = f.ctl.turbo
  /\ f.win.bases => g.win.bases

(* A stop or a step that has been told is no longer to be told.             *)
LEMMA ToldGood ==
  ASSUME NEW f, NEW c, NEW m, NEW r, Good(f, c, m, r),
         NEW v \in BOOLEAN, NEW w \in BOOLEAN,
         v => f.ctl.stopEvent, w => f.ctl.stepEvent,
         NEW g, g.lane = f.lane, g.win = f.win, g.ghost = f.ghost, g.model = f.model,
         g \in FrameType, g.ctl = [f.ctl EXCEPT !.stopEvent = v, !.stepEvent = w]
  PROVE  Good(g, c, m, r) /\ Alike(f, g)
<1> DEFINE L == Line(c, f.lane.queue)
<1>1. f \in FrameType /\ f.ctl \in ControlType
  BY FrameIs DEF Good
<1>2. /\ g.ctl.attached = f.ctl.attached /\ g.ctl.armed = f.ctl.armed /\ g.ctl.stepOut = f.ctl.stepOut
      /\ g.ctl.turbo = f.ctl.turbo /\ g.ctl.coverage = f.ctl.coverage
      /\ g.ctl.profileSave = f.ctl.profileSave /\ g.ctl.guided = f.ctl.guided
      /\ g.ctl.stopEvent = v /\ g.ctl.stepEvent = w
  BY <1>1 DEF ControlType
<1>3. LineOK(f, L, m, r) /\ PatienceOK(f, L, m) /\ Attached(f, r) /\ f.lane.stopped
  BY DEF Good, Body
<1> HIDE DEF L
<1>4. LineOK(g, L, m, r)
  <2>1. EndsArmed(g, L, m) /\ EndsCovered(g, L, m) /\ ShotIsCleared(g, L, m)
    BY <1>2, <1>3 DEF LineOK, EndsArmed, EndsCovered, ShotIsCleared
  <2>2. ReportsAreFresh(L, m, r) /\ SaveIsComing(g, L) /\ BasesCome(g, L, m, r)
    BY <1>2, <1>3 DEF LineOK, SaveIsComing, BasesCome
  <2>3. StopsAreRecorded(g, L, r)
    BY <1>3 DEF LineOK, StopsAreRecorded
  <2> QED BY <2>1, <2>2, <2>3 DEF LineOK
<1>5. ASSUME user = "patient" PROVE PatienceOK(g, L, m)
  <2>1. ContinueHasItsEnd(g, L, m) /\ StepOutWaits(g, L, m) /\ SavesAreHere(g, L, m)
    BY <1>2, <1>3, <1>5 DEF PatienceOK, ContinueHasItsEnd, StepOutWaits, SavesAreHere
  <2>2. ViewsCome(g, L, m) /\ SetupComes(g, L, m)
    BY <1>2, <1>3, <1>5 DEF PatienceOK, ViewsCome, SetupComes
  <2>3. EventsCome(g, L, m)
    BY <1>2, <1>3, <1>5 DEF PatienceOK, EventsCome
  <2> QED BY <2>1, <2>2, <2>3 DEF PatienceOK
<1>6. Attached(g, r)
  BY <1>2, <1>3 DEF Attached
<1>7. Good(g, c, m, r)
  BY <1>3, <1>4, <1>5, <1>6 DEF Good, Body, PatienceOK, L
<1> QED BY <1>2, <1>7 DEF Alike

(* A report tells of the stop or of the step, whichever it is.              *)
LEMMA PublishGood ==
  ASSUME NEW f, NEW c \in Requests, c.emits, NEW m, NEW r, ReportIs(c, m, r), Good(f, c, m, r)
  PROVE  LET g == Publish(f, r)
         IN  /\ Good(g, c, m, r) /\ Alike(f, g) /\ g.win = f.win
             /\ g.ctl.stopEvent => f.ctl.stopEvent
             /\ g.ctl.stepEvent => f.ctl.stepEvent
             /\ ~r.valid => g = f
             /\ r.valid /\ user = "patient" => ~g.ctl.stopEvent /\ ~g.ctl.stepEvent
<1> DEFINE g == Publish(f, r)
<1>1. /\ f \in FrameType /\ f.ctl \in ControlType
      /\ f.ctl.stopEvent \in BOOLEAN /\ f.ctl.stepEvent \in BOOLEAN /\ r.valid \in BOOLEAN
  BY FrameIs, ControlIs DEF Good, ReportIs, States
<1>2. user = "patient" /\ f.ctl.stepEvent => ~f.ctl.stopEvent
  BY DEF Good, Body, PatienceOK, EventsCome
<1>3. CASE ~r.valid
  <2>1. g = f
    BY <1>3 DEF Publish
  <2> HIDE DEF g
  <2> QED BY <1>3, <2>1 DEF Alike, g
<1>4. CASE r.valid /\ f.ctl.stopEvent
  <2> DEFINE w == f.ctl.stepEvent
  <2>1. g = [f EXCEPT !.ctl.stopEvent = FALSE]
    BY <1>4 DEF Publish
  <2> HIDE DEF g
  <2>2. /\ g \in FrameType /\ g.lane = f.lane /\ g.win = f.win /\ g.ghost = f.ghost /\ g.model = f.model
        /\ g.ctl = [f.ctl EXCEPT !.stopEvent = FALSE]
    BY <1>1, <2>1 DEF FrameType, ControlType
  <2>3. g.ctl = [f.ctl EXCEPT !.stopEvent = FALSE, !.stepEvent = w]
    BY <1>1, <2>2 DEF ControlType
  <2>4. ~g.ctl.stopEvent /\ g.ctl.stepEvent = w
    BY <1>1, <2>2 DEF ControlType
  <2>5. w \in BOOLEAN /\ (w => f.ctl.stepEvent)
    BY <1>1
  <2> HIDE DEF w
  <2>6. Good(g, c, m, r) /\ Alike(f, g)
    <3>1. FALSE \in BOOLEAN /\ (FALSE => f.ctl.stopEvent)
      OBVIOUS
    <3> QED BY <2>2, <2>3, <2>5, <3>1, ToldGood
  <2> QED BY <1>2, <1>4, <2>2, <2>4, <2>5, <2>6 DEF w, g
<1>5. CASE r.valid /\ ~f.ctl.stopEvent
  <2> DEFINE v == f.ctl.stopEvent
  <2>1. g = [f EXCEPT !.ctl.stepEvent = FALSE]
    BY <1>5 DEF Publish
  <2> HIDE DEF g
  <2>2. /\ g \in FrameType /\ g.lane = f.lane /\ g.win = f.win /\ g.ghost = f.ghost /\ g.model = f.model
        /\ g.ctl = [f.ctl EXCEPT !.stepEvent = FALSE]
    BY <1>1, <2>1 DEF FrameType, ControlType
  <2>3. g.ctl = [f.ctl EXCEPT !.stopEvent = v, !.stepEvent = FALSE]
    BY <1>1, <2>2 DEF ControlType
  <2>4. g.ctl.stopEvent = v /\ ~g.ctl.stepEvent
    BY <1>1, <2>2 DEF ControlType
  <2>5. v \in BOOLEAN /\ (v => f.ctl.stopEvent) /\ ~v
    BY <1>1, <1>5
  <2> HIDE DEF v
  <2>6. Good(g, c, m, r) /\ Alike(f, g)
    <3>1. FALSE \in BOOLEAN /\ (FALSE => f.ctl.stepEvent)
      OBVIOUS
    <3> QED BY <2>2, <2>3, <2>5, <3>1, ToldGood
  <2> QED BY <1>5, <2>2, <2>4, <2>5, <2>6 DEF g
<1> QED BY <1>1, <1>3, <1>4, <1>5

(* Bases that are known arm the breakpoints that are not.                   *)
LEMMA NoteBasesGood ==
  ASSUME NEW f, NEW c \in Commands, NEW m, NEW r, r \in States, Good(f, c, m, r),
         user = "patient" => ~f.lane.continuing /\ ~f.ctl.stepOut
  PROVE  LET g == NoteBases(f, r)
         IN  /\ Good(g, c, m, r) /\ Alike(f, g) /\ g.win.seen = f.win.seen
             /\ g.ctl.stopEvent = f.ctl.stopEvent /\ g.ctl.stepEvent = f.ctl.stepEvent
             /\ r.bases => g.win.bases
<1> DEFINE g == NoteBases(f, r)
           h == [f EXCEPT !.win.bases = TRUE]
           L == Line(c, f.lane.queue)
<1>1. /\ f \in FrameType /\ f.win \in WindowType /\ f.ctl \in ControlType /\ f.lane.queue \in Seq(Requests)
      /\ f.ctl.armed \in BOOLEAN /\ f.win.bases \in BOOLEAN /\ r.bases \in BOOLEAN
  BY FrameIs, ControlIs DEF Good, States
<1>2. /\ h \in FrameType /\ h.lane = f.lane /\ h.ctl = f.ctl /\ h.ghost = f.ghost /\ h.model = f.model
      /\ h.win = [f.win EXCEPT !.bases = TRUE]
  BY <1>1 DEF FrameType, WindowType
<1>3. LineOK(f, L, m, r) /\ PatienceOK(f, L, m) /\ Attached(f, r) /\ f.lane.stopped
  BY DEF Good, Body
<1>4. f.ctl.attached /\ (f.win.bases <=> f.ctl.armed)
  BY <1>3 DEF Attached
<1>5. CASE ~r.bases
  <2>1. g = f
    BY <1>5 DEF NoteBases
  <2> HIDE DEF g
  <2> QED BY <1>5, <2>1 DEF Alike, g
<1>6. CASE r.bases /\ f.win.bases
  <2>1. f.ctl.armed /\ h.ctl.armed
    BY <1>2, <1>4, <1>6
  <2>2. g = h
    BY <1>6, <2>1 DEF NoteBases
  <2>3. h.win = f.win
    BY <1>1, <1>2, <1>6 DEF WindowType
  <2>4. h = f
    <3>1. /\ f = [lane |-> f.lane, ctl |-> f.ctl, win |-> f.win, ghost |-> f.ghost, model |-> f.model]
          /\ h = [lane |-> h.lane, ctl |-> h.ctl, win |-> h.win, ghost |-> h.ghost, model |-> h.model]
      BY <1>1, <1>2, FrameIs
    <3> HIDE DEF h
    <3> QED BY <1>2, <2>3, <3>1
  <2> HIDE DEF g, h
  <2> QED BY <1>6, <2>2, <2>4 DEF Alike, g
<1>7. CASE r.bases /\ ~f.win.bases
  <2>1. ~f.ctl.armed /\ ~h.ctl.armed /\ h.ctl.attached
    BY <1>1, <1>2, <1>4, <1>7
  <2>2. g = ArmBreakpoints(h)
    BY <1>7, <2>1 DEF NoteBases
  <2>3. /\ h.win.seen = f.win.seen /\ h.win.bases /\ h.win.anchors = f.win.anchors
        /\ h.win.saving = f.win.saving /\ h.win.after = f.win.after /\ h.win.logging = f.win.logging
    BY <1>1, <1>2 DEF WindowType
  <2> HIDE DEF h, g
  <2>4. /\ EndsCovered(h, L, m) /\ ReportsAreFresh(L, m, r) /\ SaveIsComing(h, L)
        /\ BasesCome(h, L, m, r) /\ StopsAreRecorded(h, L, r)
    <3> HIDE DEF L
    <3>1. EndsCovered(h, L, m) /\ ReportsAreFresh(L, m, r) /\ SaveIsComing(h, L)
      BY <1>2, <1>3 DEF LineOK, EndsCovered, SaveIsComing
    <3>2. BasesCome(h, L, m, r) /\ StopsAreRecorded(h, L, r)
      BY <1>2, <1>3, <2>3 DEF LineOK, BasesCome, StopsAreRecorded
    <3> QED BY <3>1, <3>2
  <2>5. PatienceOK(h, L, m)
    <3> HIDE DEF L
    <3> SUFFICES ASSUME user = "patient"
                 PROVE  PatienceOK(h, L, m)
      BY DEF PatienceOK
    <3>1. ContinueHasItsEnd(h, L, m) /\ StepOutWaits(h, L, m) /\ SavesAreHere(h, L, m)
      BY <1>2, <1>3, <2>3 DEF PatienceOK, ContinueHasItsEnd, StepOutWaits, SavesAreHere
    <3>2. EventsCome(h, L, m) /\ SetupComes(h, L, m) /\ ViewsCome(h, L, m)
      BY <1>2, <1>3, <2>3 DEF PatienceOK, EventsCome, SetupComes, ViewsCome
    <3> QED BY <3>1, <3>2 DEF PatienceOK
  <2>6. Body(g, Line(c, g.lane.queue), m, r)
    <3>1. L = Line(c, h.lane.queue)
      BY <1>2
    <3>2. user = "patient" => ~h.lane.continuing /\ ~h.ctl.stepOut
      BY <1>2
    <3>3. h.ctl.armed => h.win.bases
      BY <2>3
    <3> HIDE DEF L
    <3> QED BY <1>2, <2>2, <2>4, <2>5, <3>1, <3>2, <3>3, ArmBody
  <2>7. /\ g \in FrameType /\ g.lane = Put(h, Plan(h)).lane /\ g.win = h.win /\ g.ghost = h.ghost
        /\ g.model = h.model /\ g.ctl = [h.ctl EXCEPT !.armed = h.ctl.armed \/ h.win.bases]
    BY <1>2, <2>2, ArmIs
  <2>8. /\ g.ctl.attached = f.ctl.attached /\ g.ctl.stepOut = f.ctl.stepOut
        /\ g.ctl.stopEvent = f.ctl.stopEvent /\ g.ctl.stepEvent = f.ctl.stepEvent
        /\ g.ctl.turbo = f.ctl.turbo /\ g.ctl.coverage = f.ctl.coverage
        /\ g.ctl.profileSave = f.ctl.profileSave /\ g.ctl.guided = f.ctl.guided
        /\ g.ctl.armed
    <3> DEFINE v == h.ctl.armed \/ h.win.bases
    <3>1. g.ctl = [f.ctl EXCEPT !.armed = v] /\ v
      BY <1>2, <2>3, <2>7
    <3> HIDE DEF v
    <3> QED BY <1>1, <3>1 DEF ControlType
  <2>9. /\ g.lane.stopped = f.lane.stopped /\ g.lane.current = f.lane.current
        /\ g.lane.continuing = f.lane.continuing
    <3>1. Plan(h) \in Seq(Requests)
      BY <1>2, PlanIs
    <3>2. /\ Put(h, Plan(h)).lane.stopped = h.lane.stopped
          /\ Put(h, Plan(h)).lane.current = h.lane.current
          /\ Put(h, Plan(h)).lane.continuing = h.lane.continuing
      BY <1>2, <3>1, PutIs DEF Same
    <3> QED BY <1>2, <2>7, <3>2
  <2>10. Attached(g, r)
    BY <1>3, <2>3, <2>7, <2>8, <2>9 DEF Attached
  <2>11. Good(g, c, m, r)
    BY <1>3, <2>6, <2>7, <2>9, <2>10 DEF Good
  <2> QED BY <1>2, <2>3, <2>7, <2>8, <2>9, <2>11 DEF Alike, g
<1> QED BY <1>1, <1>5, <1>6, <1>7

(* A state is reported: seen, recorded, told, and its bases noted.          *)
LEMMA OnStateUpdatedGood ==
  ASSUME NEW f, NEW c \in Requests, c.emits, NEW m, NEW r, ReportIs(c, m, r), Good(f, c, m, r)
  PROVE  LET g == OnStateUpdated(f, r)
         IN  /\ Good(g, c, m, r) /\ Alike(f, g) /\ g.win.seen = r
             /\ g.ctl.stopEvent => f.ctl.stopEvent
             /\ f.ctl.stopEvent /\ ~g.ctl.stopEvent => r.valid
             /\ f.ctl.stepEvent /\ ~g.ctl.stepEvent => r.valid
             /\ r.valid /\ user = "patient" => ~g.ctl.stopEvent /\ ~g.ctl.stepEvent
             /\ r.bases => g.win.bases
<1> DEFINE f1 == [f EXCEPT !.win.seen = r]
           f2 == IF r.valid /\ f.lane.stopped THEN RememberAnchor(StartInputLog(f1), r) ELSE f1
           f3 == Publish(f2, r)
           f4 == NoteBases(f3, r)
           b == <<Command("dump", r.move)>>
           g == OnStateUpdated(f, r)
<1>1. g = IF r.valid THEN Put(f4, b) ELSE f4
  BY DEF OnStateUpdated
<1>2. /\ f \in FrameType /\ f.lane.stopped /\ r \in States /\ r.valid \in BOOLEAN /\ r.move \in Nat
      /\ f.win \in WindowType /\ c \in Commands
  BY FrameIs DEF Good, ReportIs, States, Commands
<1>3. user = "patient" => ~f.lane.continuing /\ ~f.ctl.stepOut
  BY PatientReports
<1>4. /\ Good(f1, c, m, r) /\ f1.lane = f.lane /\ f1.ctl = f.ctl /\ f1.ghost = f.ghost
      /\ f1.model = f.model /\ f1.win.seen = r /\ f1.win.bases = f.win.bases
  <2>1. /\ Good(f1, c, m, r) /\ f1.lane = f.lane /\ f1.ctl = f.ctl /\ f1.ghost = f.ghost
        /\ f1.model = f.model /\ f1.win = [f.win EXCEPT !.seen = r]
    BY SeenGood
  <2> HIDE DEF f1
  <2> QED BY <1>2, <2>1 DEF WindowType
<1> HIDE DEF f1
<1>5. /\ Good(f2, c, m, r) /\ f2.ctl = f.ctl /\ f2.ghost = f.ghost /\ f2.model = f.model
      /\ f2.lane.stopped = f.lane.stopped /\ f2.lane.current = f.lane.current
      /\ f2.lane.continuing = f.lane.continuing
      /\ f2.win.seen = r /\ f2.win.bases = f.win.bases
  <2>1. CASE ~r.valid
    BY <1>4, <2>1
  <2>2. CASE r.valid
    <3> DEFINE h == StartInputLog(f1)
               e == RememberAnchor(h, r)
    <3>1. f2 = e
      BY <1>2, <2>2
    <3>2. /\ Good(h, c, m, r) /\ h.ctl = f1.ctl /\ h.ghost = f1.ghost /\ h.model = f1.model
          /\ h.lane.stopped = f1.lane.stopped /\ h.lane.current = f1.lane.current
          /\ h.lane.continuing = f1.lane.continuing
          /\ h.win.seen = f1.win.seen /\ h.win.bases = f1.win.bases
      BY <1>4, StartInputLogGood
    <3> HIDE DEF h, f2
    <3>3. /\ Good(e, c, m, r) /\ e.ctl = h.ctl /\ e.ghost = h.ghost /\ e.model = h.model
          /\ e.lane.stopped = h.lane.stopped /\ e.lane.current = h.lane.current
          /\ e.lane.continuing = h.lane.continuing
          /\ e.win.seen = h.win.seen /\ e.win.bases = h.win.bases
      BY <2>2, <3>2, RememberAnchorGood
    <3> HIDE DEF e
    <3> QED BY <1>4, <3>1, <3>2, <3>3
  <2> QED BY <1>2, <2>1, <2>2
<1> HIDE DEF f2
<1>6. /\ Good(f3, c, m, r) /\ Alike(f2, f3) /\ f3.win = f2.win
      /\ f3.ctl.stopEvent => f2.ctl.stopEvent
      /\ f3.ctl.stepEvent => f2.ctl.stepEvent
      /\ ~r.valid => f3 = f2
      /\ r.valid /\ user = "patient" => ~f3.ctl.stopEvent /\ ~f3.ctl.stepEvent
  BY <1>5, PublishGood
<1> HIDE DEF f3
<1>7. user = "patient" => ~f3.lane.continuing /\ ~f3.ctl.stepOut
  BY <1>3, <1>5, <1>6 DEF Alike
<1>8. /\ Good(f4, c, m, r) /\ Alike(f3, f4) /\ f4.win.seen = f3.win.seen
      /\ f4.ctl.stopEvent = f3.ctl.stopEvent /\ f4.ctl.stepEvent = f3.ctl.stepEvent
      /\ r.bases => f4.win.bases
  BY <1>2, <1>6, <1>7, NoteBasesGood
<1> HIDE DEF f4
<1>9. user = "patient" => ~f4.lane.continuing /\ ~f4.ctl.stepOut
  BY <1>7, <1>8 DEF Alike
<1>10. /\ Good(g, c, m, r) /\ Alike(f4, g) /\ g.win = f4.win
       /\ g.ctl.stopEvent = f4.ctl.stopEvent /\ g.ctl.stepEvent = f4.ctl.stepEvent
  <2>1. CASE ~r.valid
    <3>1. g = f4
      BY <1>1, <2>1
    <3> HIDE DEF g
    <3> QED BY <1>8, <3>1 DEF Alike
  <2>2. CASE r.valid
    <3>1. g = Put(f4, b)
      BY <1>1, <2>2
    <3>2. Neutral(b, f4.ctl.guided)
      <4>1. /\ Command("dump", r.move) \in Requests /\ ~Command("dump", r.move).emits
            /\ Command("dump", r.move).kind = "dump"
        BY <1>2, CommandIs DEF Kinds
      <4>2. f4.ctl.guided \in BOOLEAN
        BY <1>8, ControlIs DEF Good
      <4> QED BY <4>1, <4>2, OneIsNeutral
    <3> HIDE DEF g, b
    <3>3. /\ Good(Put(f4, b), c, m, r) /\ Same(f4, Put(f4, b))
          /\ Put(f4, b).lane.current = f4.lane.current
      BY <1>2, <1>8, <1>9, <3>2, PutGood
    <3> QED BY <3>1, <3>3 DEF Same, Alike
  <2> QED BY <1>2, <2>1, <2>2
<1> HIDE DEF g
<1>11. Alike(f, g)
  <2>1. Alike(f2, g)
    BY <1>6, <1>8, <1>10 DEF Alike
  <2> QED BY <1>5, <2>1 DEF Alike
<1>12. g.win.seen = r
  BY <1>5, <1>6, <1>8, <1>10
<1>13. f3 = f2 => f3.ctl = f.ctl
  BY <1>5
<1> QED BY <1>2, <1>5, <1>6, <1>8, <1>10, <1>11, <1>12, <1>13 DEF Alike, g

(* What a command that has been answered has done.                          *)
Done(f, c, m, r) ==
  /\ c.kind = "arm" => m.bp = c.n
  /\ c.kind = "watch" => m.wp = c.n
  /\ c.kind = "clear" => 2 \notin m.shots
  /\ c.kind = "once" => c.n \in m.shots
  /\ c.kind = "profileOn" => m.profiling
  /\ c.kind \in {"coverage", "symbols", "turbo", "replaylog"} => c.kind \in m.done
  /\ c.kind = "uae" => m.engine = "uae"
  /\ c.kind = "step" => m.by = "step"
  /\ c.kind = "regs" => r.valid /\ r.move = m.move
  /\ c.kind = "basepage" /\ m.loaded => r.bases
  /\ c.emits /\ r.bases => f.win.bases
  /\ c.kind = "profileSave" => ~f.ctl.profileSave
  /\ c.kind = "save" => c.n # f.win.saving
  /\ c.kind = "dump" => ~f.ctl.stepOut
  /\ c.kind = "disasm" /\ user = "patient" =>
       /\ f.win.seen.valid /\ f.win.seen.move = m.move
       /\ ~f.ctl.stopEvent /\ ~f.ctl.stepEvent

(* Of a line that loses its place 0 what holds of the rest stays.           *)
LEMMA LessBody ==
  ASSUME NEW f, NEW L, NEW M, Less(L, M, {0}), NEW m, NEW r, Body(f, L, m, r),
         Done(f, L[0], m, r)
  PROVE  Body(f, M, m, r)
<1>1. LineOK(f, L, m, r) /\ PatienceOK(f, L, m)
  BY DEF Body
<1>2. EndsArmed(f, M, m)
  <2> SUFFICES ASSUME f.ctl.armed
               PROVE  /\ Ends(M, {"clear", "arm"}, "arm", f.model, m.bp)
                      /\ Ends(M, {"clear", "watch"}, "watch", f.model, m.wp)
    BY DEF EndsArmed
  <2>1. /\ Ends(L, {"clear", "arm"}, "arm", f.model, m.bp)
        /\ Ends(L, {"clear", "watch"}, "watch", f.model, m.wp)
    BY <1>1 DEF LineOK, EndsArmed
  <2>2. \A d \in {0} : d \in DOMAIN L /\ L[d].kind \in {"clear", "arm"} =>
                         d = 0 /\ (L[d].kind = "arm" => m.bp = L[d].n)
    BY DEF Done
  <2>3. \A d \in {0} : d \in DOMAIN L /\ L[d].kind \in {"clear", "watch"} =>
                         d = 0 /\ (L[d].kind = "watch" => m.wp = L[d].n)
    BY DEF Done
  <2>4. Ends(M, {"clear", "arm"}, "arm", f.model, m.bp)
    BY <2>1, <2>2, EndsLess
  <2>5. Ends(M, {"clear", "watch"}, "watch", f.model, m.wp)
    BY <2>1, <2>3, EndsLess
  <2> QED BY <2>4, <2>5
<1>3. EndsCovered(f, M, m)
  <2>1. CASE L[0].kind = "coverage"
    BY <2>1 DEF EndsCovered, Done
  <2>2. CASE L[0].kind # "coverage"
    BY <1>1, <2>2, HoldsLess DEF LineOK, EndsCovered
  <2> QED BY <2>1, <2>2
<1>4. ShotIsCleared(f, M, m)
  BY <1>1, ShotLess DEF LineOK, Done
<1>5. ReportsAreFresh(M, m, r)
  BY <1>1, ReportsLess DEF LineOK, Done
<1>6. SaveIsComing(f, M)
  <2>1. CASE L[0].kind = "profileSave"
    BY <2>1 DEF SaveIsComing, Done
  <2>2. CASE L[0].kind # "profileSave"
    BY <1>1, <2>2, HoldsLess DEF LineOK, SaveIsComing
  <2> QED BY <2>1, <2>2
<1>7. BasesCome(f, M, m, r)
  BY <1>1, BasesLess DEF LineOK, Done
<1>8. StopsAreRecorded(f, M, r)
  BY <1>1, StopsLess DEF LineOK
<1>9. ASSUME user = "patient" PROVE PatienceOK(f, M, m)
  <2>1. ContinueHasItsEnd(f, M, m)
    BY <1>1, <1>9, ContinueLess DEF PatienceOK, Done
  <2>2. StepOutWaits(f, M, m)
    BY <1>1, <1>9, StepOutLess DEF PatienceOK, Done
  <2>3. SavesAreHere(f, M, m)
    BY <1>1, <1>9, SavesLess DEF PatienceOK, Done
  <2>4. ViewsCome(f, M, m)
    BY <1>1, <1>9, ViewsLess DEF PatienceOK, Done
  <2>5. EventsCome(f, M, m)
    BY <1>1, <1>9, EventsLess DEF PatienceOK, Done
  <2>6. SetupComes(f, M, m)
    BY <1>1, <1>9, SetupLess DEF PatienceOK, Done
  <2> QED BY <2>1, <2>2, <2>3, <2>4, <2>5, <2>6 DEF PatienceOK
<1> QED BY <1>2, <1>3, <1>4, <1>5, <1>6, <1>7, <1>8, <1>9 DEF Body, LineOK, PatienceOK

(* The command in flight is done with.                                      *)
LEMMA DropGood ==
  ASSUME NEW f, NEW c \in Commands, NEW m, NEW r, Good(f, c, m, r), Done(f, c, m, r)
  PROVE  LET g == [f EXCEPT !.lane.current = NoCommand]
         IN  Good(g, NoCommand, m, r) /\ Same(f, g) /\ g.lane.current = NoCommand
             /\ g.lane.queue = f.lane.queue
<1> DEFINE g == [f EXCEPT !.lane.current = NoCommand]
           L == Line(c, f.lane.queue)
           M == Line(NoCommand, f.lane.queue)
<1>1. f \in FrameType /\ f.lane \in LaneType /\ f.lane.queue \in Seq(Requests) /\ f.lane.stopped
  BY FrameIs, LaneIs DEF Good
<1>2. /\ g \in FrameType /\ g.ctl = f.ctl /\ g.win = f.win /\ g.ghost = f.ghost /\ g.model = f.model
      /\ g.lane = [f.lane EXCEPT !.current = NoCommand]
  BY <1>1 DEF FrameType, LaneType
<1>3. /\ g.lane.queue = f.lane.queue /\ g.lane.current = NoCommand /\ g.lane.stopped = f.lane.stopped
      /\ g.lane.continuing = f.lane.continuing
  <2> HIDE DEF g
  <2> QED BY <1>1, <1>2 DEF LaneType
<1> HIDE DEF g
<1>4. Less(L, M, {0})
  BY <1>1, LineEmpties, EmptiedIsLess
<1>5. L[0] = c
  BY <1>1, LineIs
<1>6. Body(f, M, m, r)
  <2>1. Body(f, L, m, r)
    BY DEF Good
  <2> HIDE DEF L, M
  <2> QED BY <1>4, <1>5, <2>1, LessBody
<1>7. Same(f, g)
  BY <1>2, <1>3 DEF Same
<1>8. Body(g, M, m, r)
  <2> HIDE DEF M
  <2> QED BY <1>6, <1>7, BodySame
<1>9. Attached(g, r)
  BY <1>2, <1>3 DEF Good, Attached
<1>10. Good(g, NoCommand, m, r)
  BY <1>1, <1>2, <1>3, <1>8, <1>9 DEF Good
<1> QED BY <1>3, <1>7, <1>10 DEF g

(* What a command does to the debugger.                                     *)
LEMMA ExecutedIs ==
  ASSUME NEW m \in MachineType, NEW c \in Requests, NEW pc \in Pcs
  PROVE  LET x == Executed(m, c, pc)
         IN  /\ x \in MachineType /\ x.going = m.going /\ x.loaded = m.loaded
             /\ c.kind \notin {"clear", "arm"} => x.bp = m.bp
             /\ c.kind = "arm" => x.bp = c.n
             /\ c.kind \notin {"clear", "watch"} => x.wp = m.wp
             /\ c.kind = "watch" => x.wp = c.n
             /\ c.kind \notin {"clear", "once"} => x.shots = m.shots
             /\ c.kind = "clear" => x.shots = {}
             /\ c.kind = "once" => x.shots = m.shots \union {c.n}
             /\ m.done \subseteq x.done
             /\ c.kind \in {"coverage", "symbols", "turbo", "replaylog"} => c.kind \in x.done
             /\ c.kind \notin {"profileOn", "profileOff"} => x.profiling = m.profiling
             /\ c.kind = "profileOn" => x.profiling
             /\ c.kind \notin {"ext", "uae"} => x.engine = m.engine
             /\ c.kind = "uae" => x.engine = "uae"
             /\ c.kind # "step" => x.move = m.move /\ x.pc = m.pc /\ x.by = m.by
             /\ c.kind = "step" => x.move = m.move + 1 /\ x.by = "step"
             /\ c.kind \in {"regs", "basepage", "disasm", "dump", "save", "profileSave"} => x = m
<1> DEFINE x == Executed(m, c, pc)
<1>1. /\ c.n \in Nat /\ c.kind \in Kinds /\ (c.kind = "once" => c.n \in {1, 2, 3})
      /\ pc \in Pcs \union {0} /\ m.move \in Nat
  BY DEF Requests, MachineType
<1>2. CASE c.kind = "step"
  <2>1. x = [m EXCEPT !.move = m.move + 1, !.pc = pc, !.by = "step"]
    BY <1>2 DEF Executed, Moved
  <2> HIDE DEF x
  <2>2. PICK y : y = [m EXCEPT !.move = m.move + 1]
    OBVIOUS
  <2>3. PICK z : z = [y EXCEPT !.pc = pc]
    OBVIOUS
  <2>4. x = [z EXCEPT !.by = "step"]
    BY <2>1, <2>2, <2>3
  <2>5. y \in MachineType /\ y.move = m.move + 1
        /\ y.going = m.going /\ y.loaded = m.loaded /\ y.bp = m.bp /\ y.wp = m.wp
        /\ y.shots = m.shots /\ y.done = m.done /\ y.profiling = m.profiling /\ y.engine = m.engine
    BY <1>1, <2>2 DEF MachineType
  <2>6. z \in MachineType /\ z.move = m.move + 1
        /\ z.going = m.going /\ z.loaded = m.loaded /\ z.bp = m.bp /\ z.wp = m.wp
        /\ z.shots = m.shots /\ z.done = m.done /\ z.profiling = m.profiling /\ z.engine = m.engine
    BY <1>1, <2>3, <2>5 DEF MachineType
  <2>7. x \in MachineType /\ x.move = m.move + 1 /\ x.by = "step"
        /\ x.going = m.going /\ x.loaded = m.loaded /\ x.bp = m.bp /\ x.wp = m.wp
        /\ x.shots = m.shots /\ x.done = m.done /\ x.profiling = m.profiling /\ x.engine = m.engine
    BY <2>4, <2>6 DEF MachineType
  <2> QED BY <1>2, <2>7 DEF x
<1>3. CASE c.kind = "clear"
  <2>1. x = [m EXCEPT !.bp = 0, !.wp = 0, !.shots = {}]
    BY <1>3 DEF Executed
  <2> HIDE DEF x
  <2>2. x \in MachineType /\ x.shots = {}
        /\ x.going = m.going /\ x.loaded = m.loaded /\ x.move = m.move /\ x.pc = m.pc /\ x.by = m.by
        /\ x.done = m.done /\ x.profiling = m.profiling /\ x.engine = m.engine
    BY <2>1 DEF MachineType
  <2> QED BY <1>3, <2>2 DEF x
<1>4. CASE c.kind = "arm"
  <2>1. x = [m EXCEPT !.bp = c.n]
    BY <1>4 DEF Executed
  <2> HIDE DEF x
  <2>2. x \in MachineType /\ x.bp = c.n /\ x.wp = m.wp /\ x.shots = m.shots
        /\ x.going = m.going /\ x.loaded = m.loaded /\ x.move = m.move /\ x.pc = m.pc /\ x.by = m.by
        /\ x.done = m.done /\ x.profiling = m.profiling /\ x.engine = m.engine
    BY <1>1, <2>1 DEF MachineType
  <2> QED BY <1>4, <2>2 DEF x
<1>5. CASE c.kind = "watch"
  <2>1. x = [m EXCEPT !.wp = c.n]
    BY <1>5 DEF Executed
  <2> HIDE DEF x
  <2>2. x \in MachineType /\ x.wp = c.n /\ x.bp = m.bp /\ x.shots = m.shots
        /\ x.going = m.going /\ x.loaded = m.loaded /\ x.move = m.move /\ x.pc = m.pc /\ x.by = m.by
        /\ x.done = m.done /\ x.profiling = m.profiling /\ x.engine = m.engine
    BY <1>1, <2>1 DEF MachineType
  <2> QED BY <1>5, <2>2 DEF x
<1>6. CASE c.kind = "once"
  <2>1. x = [m EXCEPT !.shots = m.shots \union {c.n}]
    BY <1>6 DEF Executed
  <2>2. m.shots \union {c.n} \in SUBSET {1, 2, 3}
    BY <1>1, <1>6 DEF MachineType
  <2> HIDE DEF x
  <2>3. x \in MachineType /\ x.shots = m.shots \union {c.n} /\ x.bp = m.bp /\ x.wp = m.wp
        /\ x.going = m.going /\ x.loaded = m.loaded /\ x.move = m.move /\ x.pc = m.pc /\ x.by = m.by
        /\ x.done = m.done /\ x.profiling = m.profiling /\ x.engine = m.engine
    BY <2>1, <2>2 DEF MachineType
  <2> QED BY <1>6, <2>3 DEF x
<1>7. CASE c.kind \in {"profileOn", "profileOff"}
  <2> DEFINE on == c.kind = "profileOn"
  <2>1. /\ on => x = [m EXCEPT !.profiling = TRUE]
        /\ ~on => x = [m EXCEPT !.profiling = FALSE]
    <3>1. c.kind = "profileOn" \/ c.kind = "profileOff"
      BY <1>7
    <3>2. CASE c.kind = "profileOn"
      BY <3>2 DEF Executed
    <3>3. CASE c.kind = "profileOff"
      BY <3>3 DEF Executed
    <3> QED BY <3>1, <3>2, <3>3
  <2>2. c.kind = "profileOn" <=> on
    OBVIOUS
  <2> HIDE DEF x, on
  <2>3. CASE on
    <3>1. x \in MachineType /\ x.profiling /\ x.shots = m.shots /\ x.bp = m.bp /\ x.wp = m.wp
          /\ x.going = m.going /\ x.loaded = m.loaded /\ x.move = m.move /\ x.pc = m.pc /\ x.by = m.by
          /\ x.done = m.done /\ x.engine = m.engine
      BY <2>1, <2>3 DEF MachineType
    <3> QED BY <1>7, <3>1 DEF x
  <2>4. CASE ~on
    <3>1. x \in MachineType /\ x.shots = m.shots /\ x.bp = m.bp /\ x.wp = m.wp
          /\ x.going = m.going /\ x.loaded = m.loaded /\ x.move = m.move /\ x.pc = m.pc /\ x.by = m.by
          /\ x.done = m.done /\ x.engine = m.engine
      BY <2>1, <2>4 DEF MachineType
    <3> QED BY <1>7, <2>2, <2>4, <3>1 DEF x
  <2> QED BY <2>3, <2>4
<1>8. CASE c.kind \in {"ext", "uae"}
  <2>1. x = [m EXCEPT !.engine = c.kind]
    BY <1>8 DEF Executed
  <2> HIDE DEF x
  <2>2. x \in MachineType /\ x.engine = c.kind /\ x.bp = m.bp /\ x.wp = m.wp /\ x.shots = m.shots
        /\ x.going = m.going /\ x.loaded = m.loaded /\ x.move = m.move /\ x.pc = m.pc /\ x.by = m.by
        /\ x.done = m.done /\ x.profiling = m.profiling
    BY <1>8, <2>1 DEF MachineType
  <2> QED BY <1>8, <2>2 DEF x
<1>9. CASE c.kind \in {"turbo", "coverage", "symbols", "replaylog"}
  <2>1. x = [m EXCEPT !.done = m.done \union {c.kind}]
    BY <1>9 DEF Executed
  <2>2. m.done \union {c.kind} \in SUBSET {"turbo", "coverage", "symbols", "replaylog"}
    BY <1>9 DEF MachineType
  <2> HIDE DEF x
  <2>3. x \in MachineType /\ x.done = m.done \union {c.kind} /\ x.bp = m.bp /\ x.wp = m.wp
        /\ x.shots = m.shots /\ x.going = m.going /\ x.loaded = m.loaded /\ x.move = m.move
        /\ x.pc = m.pc /\ x.by = m.by /\ x.profiling = m.profiling /\ x.engine = m.engine
    BY <2>1, <2>2 DEF MachineType
  <2> QED BY <1>9, <2>3 DEF x
<1>10. CASE c.kind \in {"regs", "basepage", "disasm", "dump", "save", "profileSave"}
  <2>1. x = m
    BY <1>10 DEF Executed
  <2> HIDE DEF x
  <2> QED BY <1>10, <2>1 DEF x
<1>11. c.kind \in {"step", "clear", "arm", "watch", "once", "profileOn", "profileOff", "ext", "uae",
                   "turbo", "coverage", "symbols", "replaylog",
                   "regs", "basepage", "disasm", "dump", "save", "profileSave"}
  BY <1>1 DEF Kinds
<1> QED BY <1>2, <1>3, <1>4, <1>5, <1>6, <1>7, <1>8, <1>9, <1>10, <1>11

(* What an answer tells.                                                    *)
LEMMA ParsedIs ==
  ASSUME machine \in MachineType, NEW r \in States, NEW c
  PROVE  LET x == Parsed(r, c)
         IN  /\ x \in States
             /\ r.valid => x.valid
             /\ r.bases => x.bases
             /\ c.kind = "regs" => x.valid /\ x.move = machine.move /\ x.pc = machine.pc
             /\ c.kind # "regs" => x.valid = r.valid /\ x.move = r.move /\ x.pc = r.pc
             /\ c.kind = "basepage" /\ machine.loaded => x.bases
             /\ c.kind \notin {"regs", "basepage"} => x = r
<1> DEFINE x == Parsed(r, c)
<1>1. /\ machine.move \in Nat /\ machine.pc \in Pcs \union {0} /\ machine.loaded \in BOOLEAN
      /\ r.bases \in BOOLEAN
  BY DEF MachineType, States
<1>2. CASE c.kind = "regs"
  <2>1. x = [r EXCEPT !.valid = TRUE, !.pc = machine.pc, !.move = machine.move]
    BY <1>2 DEF Parsed
  <2> HIDE DEF x
  <2>2. x \in States /\ x.valid /\ x.move = machine.move /\ x.pc = machine.pc /\ x.bases = r.bases
    BY <1>1, <2>1 DEF States
  <2> QED BY <1>2, <2>2 DEF x
<1>3. CASE c.kind = "basepage"
  <2> DEFINE v == r.bases \/ machine.loaded
  <2>1. x = [r EXCEPT !.bases = v] /\ v \in BOOLEAN
    BY <1>3 DEF Parsed
  <2>2. (r.bases => v) /\ (machine.loaded => v)
    OBVIOUS
  <2> HIDE DEF x, v
  <2>3. x \in States /\ x.bases = v /\ x.valid = r.valid /\ x.move = r.move /\ x.pc = r.pc
    BY <2>1 DEF States
  <2> QED BY <1>3, <2>2, <2>3 DEF x
<1>4. CASE c.kind \notin {"regs", "basepage"}
  BY <1>4 DEF Parsed
<1> QED BY <1>2, <1>3, <1>4

(* The line as a command is done.                                           *)
LEMMA ExecutedGood ==
  ASSUME machine \in MachineType, NEW r \in States, NEW f, NEW c \in Requests, NEW pc \in Pcs,
         Good(f, c, machine, r)
  PROVE  LET m == Executed(machine, c, pc)
             x == Parsed(r, c)
         IN  Good(f, c, m, x) /\ (c.emits => ReportIs(c, m, x) /\ m = machine)
<1> DEFINE m == Executed(machine, c, pc)
           x == Parsed(r, c)
           L == Line(c, f.lane.queue)
<1>1. /\ f \in FrameType /\ f.lane.queue \in Seq(Requests) /\ c \in Commands
      /\ c.emits => c.kind \in {"regs", "basepage", "disasm"}
      /\ c.kind = "disasm" => c.emits
  BY ControlIs DEF Good, Commands, Requests
<1>2. 0 \in DOMAIN L /\ L[0] = c /\ DOMAIN L \subseteq Nat
  BY <1>1, LineIs
<1>3. LineOK(f, L, machine, r) /\ PatienceOK(f, L, machine) /\ Attached(f, r) /\ f.lane.stopped
  BY DEF Good, Body
<1>4. /\ m \in MachineType /\ m.going = machine.going /\ m.loaded = machine.loaded
      /\ c.kind \notin {"clear", "arm"} => m.bp = machine.bp
      /\ c.kind \notin {"clear", "watch"} => m.wp = machine.wp
      /\ c.kind \notin {"clear", "once"} => m.shots = machine.shots
      /\ c.kind = "clear" => m.shots = {}
      /\ c.kind = "once" => m.shots = machine.shots \union {c.n}
      /\ machine.done \subseteq m.done
      /\ c.kind \notin {"profileOn", "profileOff"} => m.profiling = machine.profiling
      /\ c.kind = "profileOn" => m.profiling
      /\ c.kind \notin {"ext", "uae"} => m.engine = machine.engine
      /\ c.kind = "uae" => m.engine = "uae"
      /\ c.kind # "step" => m.move = machine.move /\ m.pc = machine.pc /\ m.by = machine.by
      /\ c.kind = "step" => m.move = machine.move + 1 /\ m.by = "step"
      /\ c.kind \in {"regs", "basepage", "disasm", "dump", "save", "profileSave"} => m = machine
  BY ExecutedIs
<1>5. /\ x \in States /\ (r.valid => x.valid) /\ (r.bases => x.bases)
      /\ c.kind = "regs" => x.valid /\ x.move = machine.move /\ x.pc = machine.pc
      /\ c.kind # "regs" => x.valid = r.valid /\ x.move = r.move /\ x.pc = r.pc
  BY ParsedIs
<1>6. machine.move \in Nat /\ m.move \in Nat /\ r.move \in Nat
  <2> HIDE DEF m
  <2> QED BY <1>4 DEF MachineType, States
<1> HIDE DEF m, x, L
<1>7. EndsArmed(f, L, m)
  <2> SUFFICES ASSUME f.ctl.armed
               PROVE  /\ Ends(L, {"clear", "arm"}, "arm", f.model, m.bp)
                      /\ Ends(L, {"clear", "watch"}, "watch", f.model, m.wp)
    BY DEF EndsArmed
  <2>1. /\ Ends(L, {"clear", "arm"}, "arm", f.model, machine.bp)
        /\ Ends(L, {"clear", "watch"}, "watch", f.model, machine.wp)
    BY <1>3 DEF LineOK, EndsArmed
  <2>2. Ends(L, {"clear", "arm"}, "arm", f.model, m.bp)
    <3>1. CASE c.kind \notin {"clear", "arm"}
      BY <1>4, <2>1, <3>1
    <3>2. CASE c.kind \in {"clear", "arm"}
      BY <1>2, <2>1, <3>2 DEF Ends
    <3> QED BY <3>1, <3>2
  <2>3. Ends(L, {"clear", "watch"}, "watch", f.model, m.wp)
    <3>1. CASE c.kind \notin {"clear", "watch"}
      BY <1>4, <2>1, <3>1
    <3>2. CASE c.kind \in {"clear", "watch"}
      BY <1>2, <2>1, <3>2 DEF Ends
    <3> QED BY <3>1, <3>2
  <2> QED BY <2>2, <2>3
<1>8. EndsCovered(f, L, m) /\ SaveIsComing(f, L)
  BY <1>3, <1>4 DEF LineOK, EndsCovered
<1>9. ShotIsCleared(f, L, m)
  <2> SUFFICES ASSUME ~f.ctl.guided
               PROVE  /\ 2 \in m.shots => Holds(L, "clear")
                      /\ \A i \in DOMAIN L : L[i].kind = "once" /\ L[i].n = 2 =>
                           \E j \in DOMAIN L : j > i /\ L[j].kind = "clear"
    BY DEF ShotIsCleared
  <2>1. /\ 2 \in machine.shots => Holds(L, "clear")
        /\ \A i \in DOMAIN L : L[i].kind = "once" /\ L[i].n = 2 =>
             \E j \in DOMAIN L : j > i /\ L[j].kind = "clear"
    BY <1>3 DEF LineOK, ShotIsCleared
  <2>2. ASSUME 2 \in m.shots PROVE Holds(L, "clear")
    <3>1. CASE 2 \in machine.shots
      BY <2>1, <3>1
    <3>2. CASE 2 \notin machine.shots
      <4>1. c.kind = "once" /\ c.n = 2
        BY <1>4, <2>2, <3>2
      <4> QED BY <1>2, <2>1, <4>1 DEF Holds
    <3> QED BY <3>1, <3>2
  <2> QED BY <2>1, <2>2
<1>10. ReportsAreFresh(L, m, x)
  <2>1. /\ \A i \in DOMAIN L : L[i].emits => ReadFirst(L, i) \/ ReadAlready(L, i, machine, r) \/ NotRead(L, i, r)
        /\ r.valid => r.move <= machine.move /\ (r.move = machine.move => r.pc = machine.pc)
    BY <1>3 DEF LineOK, ReportsAreFresh
  <2>2. x.valid => x.move <= m.move /\ (x.move = m.move => x.pc = m.pc)
    <3>1. CASE c.kind = "regs"
      BY <1>4, <1>5, <1>6, <3>1
    <3>2. CASE c.kind = "step"
      <4>1. m.move = machine.move + 1 /\ x.valid = r.valid /\ x.move = r.move
        BY <1>4, <1>5, <3>2
      <4>2. r.move <= machine.move => r.move <= machine.move + 1 /\ r.move # machine.move + 1
        BY <1>6
      <4> QED BY <2>1, <4>1, <4>2
    <3>3. CASE c.kind \notin {"regs", "step"}
      BY <1>4, <1>5, <2>1, <3>3
    <3> QED BY <3>1, <3>2, <3>3
  <2>3. ASSUME NEW i \in DOMAIN L, L[i].emits
        PROVE  ReadFirst(L, i) \/ ReadAlready(L, i, m, x) \/ NotRead(L, i, x)
    <3>1. CASE ReadFirst(L, i)
      BY <3>1
    <3>2. CASE ReadAlready(L, i, machine, r)
      <4>1. r.valid /\ r.move = machine.move /\ \A k \in DOMAIN L : k < i => L[k].kind # "step"
        BY <3>2 DEF ReadAlready
      <4>2. c.kind # "step"
        <5>1. i \in Nat /\ (i = 0 \/ 0 < i)
          BY <1>2
        <5> QED BY <1>1, <1>2, <2>3, <4>1, <5>1
      <4>3. x.valid /\ x.move = m.move
        BY <1>4, <1>5, <4>1, <4>2
      <4> QED BY <4>1, <4>3 DEF ReadAlready
    <3>3. CASE NotRead(L, i, r)
      <4>1. ~r.valid /\ L[i].kind = "basepage" /\ \A j \in DOMAIN L : j < i => L[j].kind # "regs"
        BY <3>3 DEF NotRead
      <4>2. c.kind # "regs"
        <5>1. i \in Nat /\ (i = 0 \/ 0 < i)
          BY <1>2
        <5> QED BY <1>2, <4>1, <5>1
      <4>3. ~x.valid
        BY <1>5, <4>1, <4>2
      <4> QED BY <4>1, <4>3 DEF NotRead
    <3> QED BY <2>1, <2>3, <3>1, <3>2, <3>3
  <2> QED BY <2>2, <2>3 DEF ReportsAreFresh
<1>11. BasesCome(f, L, m, x)
  BY <1>3, <1>4, <1>5 DEF LineOK, BasesCome
<1>12. StopsAreRecorded(f, L, x)
  <2>1. CASE c.kind # "regs"
    BY <1>3, <1>5, <2>1 DEF LineOK, StopsAreRecorded
  <2>2. CASE c.kind = "regs"
    <3> DEFINE old == f.win.anchors
               last == old[Len(old)]
    <3>1. /\ \A i, j \in DOMAIN old : i < j => old[i].move < old[j].move
          /\ old # <<>> => r.valid /\ last.move <= r.move /\ (last.move = r.move => last.pc = r.pc)
          /\ f.win.saving <= Len(old)
          /\ \A i \in DOMAIN L : L[i].kind = "save" => L[i].n \in DOMAIN old
      BY <1>3 DEF LineOK, StopsAreRecorded
    <3>2. r.valid => r.move <= machine.move /\ (r.move = machine.move => r.pc = machine.pc)
      BY <1>3 DEF LineOK, ReportsAreFresh
    <3>3. ASSUME old # <<>>
          PROVE  last.move <= x.move /\ (last.move = x.move => last.pc = x.pc)
      <4>1. last \in Anchors
        <5>1. old \in Seq(Anchors)
          BY <1>1, FrameIs DEF WindowType
        <5>2. Len(old) \in Nat /\ DOMAIN old = 1..Len(old) /\ Len(old) # 0
          BY <3>3, <5>1, EmptyIs
        <5>3. Len(old) \in DOMAIN old
          BY <5>2
        <5> HIDE DEF old
        <5> QED BY <5>1, <5>3
      <4>2. last.move \in Nat
        <5> HIDE DEF last
        <5> QED BY <4>1 DEF Anchors
      <4> HIDE DEF old, last
      <4> QED BY <1>5, <1>6, <2>2, <3>1, <3>2, <3>3, <4>2
    <3> QED BY <1>5, <2>2, <3>1, <3>3 DEF StopsAreRecorded
  <2> QED BY <2>1, <2>2
<1>13. ASSUME user = "patient" PROVE PatienceOK(f, L, m)
  <2>1. ContinueHasItsEnd(f, L, m)
    <3> SUFFICES ASSUME f.lane.continuing PROVE ContinueHasItsEnd(f, L, m)
      BY DEF ContinueHasItsEnd
    <3>1. ContinueHasItsEnd(f, L, machine)
      BY <1>3, <1>13 DEF PatienceOK
    <3>2. c.kind \in {"none", "once", "profileOn", "dump"}
      BY <1>2, <3>1 DEF ContinueHasItsEnd
    <3>3. \A s : s \in machine.shots => s \in m.shots
      BY <1>4, <3>2
    <3>4. machine.profiling => m.profiling
      BY <1>4, <3>2
    <3> QED BY <3>1, <3>3, <3>4 DEF ContinueHasItsEnd
  <2>2. StepOutWaits(f, L, m)
    <3> SUFFICES ASSUME f.ctl.stepOut PROVE StepOutWaits(f, L, m)
      BY DEF StepOutWaits
    <3>1. StepOutWaits(f, L, machine)
      BY <1>3, <1>13 DEF PatienceOK
    <3>2. c.kind # "step"
      BY <1>2, <3>1 DEF StepOutWaits
    <3> QED BY <1>4, <3>1, <3>2 DEF StepOutWaits
  <2>3. SavesAreHere(f, L, m)
    <3>1. SavesAreHere(f, L, machine)
      BY <1>3, <1>13 DEF PatienceOK
    <3>2. CASE c.kind = "step"
      <4>1. Holds(L, "step")
        BY <1>2, <3>2 DEF Holds
      <4> QED BY <3>1, <4>1 DEF SavesAreHere
    <3>3. CASE c.kind # "step"
      BY <1>4, <3>1, <3>3 DEF SavesAreHere
    <3> QED BY <3>2, <3>3
  <2>4. ViewsCome(f, L, m)
    <3>1. ViewsCome(f, L, machine)
      BY <1>3, <1>13 DEF PatienceOK
    <3>2. CASE c.kind = "step"
      <4>1. Holds(L, "disasm")
        BY <1>2, <3>1, <3>2 DEF ViewsCome, Holds
      <4> QED BY <3>1, <4>1 DEF ViewsCome
    <3>3. CASE c.kind # "step"
      BY <1>4, <3>1, <3>3 DEF ViewsCome
    <3> QED BY <3>2, <3>3
  <2>5. EventsCome(f, L, m)
    <3>1. EventsCome(f, L, machine)
      BY <1>3, <1>13 DEF PatienceOK
    <3>2. machine.by = "step" => m.by = "step"
      BY <1>4
    <3> QED BY <3>1, <3>2 DEF EventsCome
  <2>6. SetupComes(f, L, m)
    <3>1. SetupComes(f, L, machine)
      BY <1>3, <1>13 DEF PatienceOK
    <3>2. \A k : k \in machine.done => k \in m.done
      BY <1>4
    <3>3. \/ m.engine = "uae" /\ ~Holds(L, "ext")
          \/ \E i \in DOMAIN L : L[i].kind = "uae" /\ \A j \in DOMAIN L : j > i => L[j].kind # "ext"
      <4>1. CASE machine.engine = "uae" /\ ~Holds(L, "ext")
        <5>1. c.kind # "ext"
          BY <1>2, <4>1 DEF Holds
        <5> QED BY <1>4, <4>1, <5>1
      <4> QED BY <3>1, <4>1 DEF SetupComes
    <3> QED BY <3>1, <3>2, <3>3 DEF SetupComes
  <2> QED BY <2>1, <2>2, <2>3, <2>4, <2>5, <2>6 DEF PatienceOK
<1>14. Attached(f, x)
  BY <1>3, <1>5 DEF Attached
<1>15. Body(f, L, m, x)
  BY <1>7, <1>8, <1>9, <1>10, <1>11, <1>12, <1>13 DEF Body, LineOK, PatienceOK
<1>16. ASSUME c.emits PROVE ReportIs(c, m, x) /\ m = machine
  <2>1. c.kind \in {"regs", "basepage", "disasm"} /\ m = machine
    BY <1>1, <1>4, <1>16
  <2>2. ReadFirst(L, 0) \/ ReadAlready(L, 0, m, x) \/ NotRead(L, 0, x)
    BY <1>2, <1>10, <1>16 DEF ReportsAreFresh
  <2>3. x.valid => x.move <= m.move /\ (x.move = m.move => x.pc = m.pc)
    BY <1>10 DEF ReportsAreFresh
  <2>4. CASE ReadFirst(L, 0)
    <3>1. PICK j \in DOMAIN L : j <= 0 /\ L[j].kind = "regs"
      BY <2>4 DEF ReadFirst
    <3>2. j = 0
      BY <1>2, <3>1
    <3>3. c.kind = "regs"
      BY <1>2, <3>1, <3>2
    <3> QED BY <1>5, <2>1, <3>3 DEF ReportIs
  <2>5. CASE ReadAlready(L, 0, m, x)
    BY <1>5, <2>1, <2>3, <2>5 DEF ReadAlready, ReportIs
  <2>6. CASE NotRead(L, 0, x)
    BY <1>2, <1>5, <2>1, <2>6 DEF NotRead, ReportIs
  <2> QED BY <2>1, <2>2, <2>4, <2>5, <2>6
<1>17. Good(f, c, m, x)
  BY <1>3, <1>14, <1>15 DEF Good, L
<1> QED BY <1>16, <1>17 DEF m, x

(* What a patient user's line is when a Continue is asked for.              *)
ReadyFor(f, L, m, aim) ==
  /\ ~f.ctl.stepOut
  /\ \A i \in DOMAIN L : L[i].kind \in {"none", "once", "profileOn", "dump"}
  /\ aim = "cursor"  => Has(L, "once", 1)
  /\ aim = "profile" => Has(L, "once", 2) /\ Holds(L, "profileOn")
  /\ aim = "stepOut" => Has(L, "once", 3)

(* A Continue keeps what is armed and recorded before the program runs.     *)
LEMMA ContinueGood ==
  ASSUME NEW f, NEW c \in Commands, NEW m, NEW r, Good(f, c, m, r),
         NEW aim \in {"continue", "cursor", "profile", "stepOut"},
         user = "patient" => ReadyFor(f, Line(c, f.lane.queue), m, aim)
  PROVE  LET g == Continue(f, aim)
         IN  /\ Good(g, c, m, r) /\ g.ctl = f.ctl /\ g.win = f.win /\ g.model = f.model
             /\ g.lane.stopped = f.lane.stopped /\ g.lane.current = f.lane.current
<1> DEFINE g == Continue(f, aim)
           q == Kept(f.lane.queue)
           l == [f.lane EXCEPT !.queue = q, !.continuing = TRUE]
           e == [f.ghost EXCEPT !.aim = aim]
           L == Line(c, f.lane.queue)
           M == Line(c, q)
           D == Unkept(L)
<1>1. /\ f \in FrameType /\ f.lane \in LaneType /\ f.ghost \in GhostType /\ f.lane.stopped
      /\ f.lane.queue \in Seq(Requests) /\ f.lane.continuing \in BOOLEAN
  BY FrameIs, LaneIs DEF Good
<1>2. CASE f.lane.continuing
  <2>1. g = f
    BY <1>2 DEF Continue, MayResume
  <2> HIDE DEF g
  <2> QED BY <2>1 DEF g
<1>3. CASE ~f.lane.continuing
  <2>1. g = [f EXCEPT !.lane = l, !.ghost.aim = aim]
    BY <1>1, <1>3 DEF Continue, MayResume, Resume
  <2>2. q \in Seq(Requests) /\ Thinned(L, M) /\ IsLine(L)
    BY <1>1, LineThins, LineIs
  <2> HIDE DEF q, g
  <2>3. /\ l \in LaneType /\ l.queue = q /\ l.current = f.lane.current /\ l.stopped = f.lane.stopped
        /\ l.continuing
    BY <1>1, <2>2 DEF LaneType
  <2> HIDE DEF l
  <2>4. PICK h : h = [f EXCEPT !.lane = l]
    OBVIOUS
  <2>5. /\ h \in FrameType /\ h.lane = l /\ h.ctl = f.ctl /\ h.win = f.win /\ h.model = f.model
        /\ h.ghost = f.ghost
    BY <1>1, <2>3, <2>4 DEF FrameType
  <2>6. g = [h EXCEPT !.ghost.aim = aim]
    BY <2>1, <2>4
  <2>7. e \in GhostType /\ e.aim = aim /\ e.outAt = f.ghost.outAt
    BY <1>1 DEF GhostType
  <2>8. g = [h EXCEPT !.ghost = e]
    BY <2>5, <2>6
  <2> HIDE DEF e
  <2>9. /\ g \in FrameType /\ g.lane = l /\ g.ctl = f.ctl /\ g.win = f.win /\ g.model = f.model
        /\ g.ghost = e
    BY <2>5, <2>7, <2>8 DEF FrameType
  <2>10. Less(L, M, D)
    <3> HIDE DEF L, M, D
    <3> QED BY <2>2, ThinnedIsLess DEF D
  <2>11. \A d \in D : d \in DOMAIN L /\ ~Keeps(L[d]) /\ d # 0
    BY DEF Unkept
  <2>12. LineOK(f, L, m, r) /\ PatienceOK(f, L, m) /\ Attached(f, r)
    BY DEF Good, Body
  <2>13. user = "patient" => ReadyFor(f, L, m, aim)
    OBVIOUS
  <2> HIDE DEF L, M, D
  <2>14. LineOK(g, M, m, r)
    <3>1. EndsArmed(g, M, m)
      <4> SUFFICES ASSUME f.ctl.armed
                   PROVE  /\ Ends(M, {"clear", "arm"}, "arm", f.model, m.bp)
                          /\ Ends(M, {"clear", "watch"}, "watch", f.model, m.wp)
        BY <2>9 DEF EndsArmed
      <4>1. /\ Ends(L, {"clear", "arm"}, "arm", f.model, m.bp)
            /\ Ends(L, {"clear", "watch"}, "watch", f.model, m.wp)
        BY <2>12 DEF LineOK, EndsArmed
      <4>2. \A d \in D : d \in DOMAIN L => L[d].kind \notin {"clear", "arm", "watch"}
        BY <2>11 DEF Keeps
      <4> QED BY <2>10, <4>1, <4>2, EndsLess
    <3>2. EndsCovered(g, M, m)
      <4>1. \A d \in D : d \in DOMAIN L => L[d].kind # "coverage"
        BY <2>11 DEF Keeps
      <4> QED BY <2>9, <2>10, <2>12, <4>1, HoldsLess DEF LineOK, EndsCovered
    <3>3. ShotIsCleared(g, M, m)
      <4>1. \A d \in D : d \in DOMAIN L => L[d].kind # "clear"
        BY <2>11 DEF Keeps
      <4>2. ShotIsCleared(f, M, m)
        BY <2>10, <2>12, <4>1, ShotLess DEF LineOK
      <4> QED BY <2>9, <4>2 DEF ShotIsCleared
    <3>4. ReportsAreFresh(M, m, r)
      BY <2>2, <2>12, ReportsThinned DEF LineOK
    <3>5. SaveIsComing(g, M)
      <4>1. \A d \in D : d \in DOMAIN L => L[d].kind # "profileSave"
        BY <2>11 DEF Keeps
      <4> QED BY <2>9, <2>10, <2>12, <4>1, HoldsLess DEF LineOK, SaveIsComing
    <3>6. BasesCome(g, M, m, r)
      BY <2>3, <2>9 DEF BasesCome
    <3>7. StopsAreRecorded(g, M, r)
      <4>1. StopsAreRecorded(f, M, r)
        BY <2>10, <2>12, StopsLess DEF LineOK
      <4> QED BY <2>9, <4>1 DEF StopsAreRecorded
    <3> QED BY <3>1, <3>2, <3>3, <3>4, <3>5, <3>6, <3>7 DEF LineOK
  <2>15. ASSUME user = "patient" PROVE PatienceOK(g, M, m)
    <3>1. /\ ~f.ctl.stepOut /\ \A i \in DOMAIN L : L[i].kind \in {"none", "once", "profileOn", "dump"}
          /\ aim = "cursor"  => Has(L, "once", 1)
          /\ aim = "profile" => Has(L, "once", 2) /\ Holds(L, "profileOn")
          /\ aim = "stepOut" => Has(L, "once", 3)
      BY <2>13, <2>15 DEF ReadyFor
    <3>2. \A d \in D : d \in DOMAIN L /\ L[d].kind \in {"none", "dump"}
      BY <2>11, <3>1 DEF Keeps
    <3>3. \A i \in DOMAIN M : M[i].kind \in {"none", "once", "profileOn", "dump"}
      BY <2>10, <3>1, LessIsOld DEF NoCommand
    <3>4. \A n : Has(L, "once", n) => Has(M, "once", n)
      BY <2>10, <3>2, HasLess
    <3>5. Holds(L, "profileOn") => Holds(M, "profileOn")
      BY <2>10, <3>2, HoldsLess
    <3>6. ContinueHasItsEnd(g, M, m)
      BY <2>7, <2>9, <3>1, <3>3, <3>4, <3>5 DEF ContinueHasItsEnd
    <3>7. StepOutWaits(g, M, m)
      BY <2>9, <3>1 DEF StepOutWaits
    <3>8. SavesAreHere(g, M, m)
      <4>1. SavesAreHere(f, M, m)
        BY <2>10, <2>12, <2>15, <3>2, SavesLess DEF PatienceOK
      <4> QED BY <2>9, <4>1 DEF SavesAreHere
    <3>9. ViewsCome(g, M, m)
      <4>1. ViewsCome(f, M, m)
        BY <2>10, <2>12, <2>15, <3>2, ViewsLess DEF PatienceOK
      <4> QED BY <2>3, <2>9, <4>1 DEF ViewsCome
    <3>10. EventsCome(g, M, m)
      <4>1. EventsCome(f, M, m)
        BY <2>10, <2>12, <2>15, <3>2, EventsLess DEF PatienceOK
      <4> QED BY <2>9, <4>1 DEF EventsCome
    <3>11. SetupComes(g, M, m)
      <4>1. SetupComes(f, M, m)
        BY <2>10, <2>12, <2>15, <3>2, SetupLess DEF PatienceOK
      <4> QED BY <2>9, <4>1 DEF SetupComes
    <3> QED BY <3>6, <3>7, <3>8, <3>9, <3>10, <3>11 DEF PatienceOK
  <2>16. Attached(g, r)
    BY <2>3, <2>9, <2>12 DEF Attached
  <2>17. Good(g, c, m, r)
    BY <1>1, <2>3, <2>9, <2>14, <2>15, <2>16 DEF Good, Body, PatienceOK, M
  <2> QED BY <2>3, <2>9, <2>17 DEF g
<1> QED BY <1>1, <1>2, <1>3

(* What a request of the user leaves as it was.                             *)
Carries(f, g) ==
  /\ g.lane.stopped = f.lane.stopped /\ g.lane.current = f.lane.current
  /\ g.ctl.attached = f.ctl.attached /\ g.ctl.stopEvent = f.ctl.stopEvent
  /\ f.ctl.stepEvent => g.ctl.stepEvent
  /\ g.win.seen = f.win.seen /\ g.win.bases = f.win.bases /\ g.model = f.model

(* A patient user asks when nothing is to be done.                          *)
Calm(f, c) ==
  user = "patient" => c = NoCommand /\ f.lane.queue = <<>> /\ ~f.lane.continuing

(* What a calm patient user sees.                                           *)
LEMMA CalmIs ==
  ASSUME NEW f, NEW c \in Commands, NEW m, NEW r, Good(f, c, m, r), Calm(f, c), user = "patient"
  PROVE  /\ ~f.lane.continuing /\ ~f.ctl.stepOut /\ ~f.ctl.stopEvent /\ ~f.ctl.stepEvent
         /\ f.win.saving = 0 /\ f.win.seen.valid /\ f.win.seen.move = m.move
         /\ LET L == Line(c, f.lane.queue)
            IN  DOMAIN L = 0..0 /\ L[0] = NoCommand
<1> DEFINE L == Line(c, f.lane.queue)
<1>1. DOMAIN L = 0..0 /\ L[0] = NoCommand
  <2>1. f.lane.queue \in Seq(Requests) /\ f.lane.queue = <<>> /\ Len(<<>>) = 0 /\ c = NoCommand
    BY ControlIs DEF Good, Calm
  <2>2. DOMAIN L = 0..Len(f.lane.queue) /\ L[0] = c
    BY <2>1, LineIs
  <2> HIDE DEF L
  <2> QED BY <2>1, <2>2
<1>2. PatienceOK(f, L, m) /\ f.lane.stopped
  BY DEF Good, Body
<1>3. \A i \in DOMAIN L : L[i].kind = "none"
  BY <1>1 DEF NoCommand
<1> HIDE DEF L
<1>4. ~f.ctl.stepOut
  BY <1>2, <1>3 DEF PatienceOK, StepOutWaits, Holds
<1>5. ~f.ctl.stopEvent /\ ~f.ctl.stepEvent
  BY <1>2, <1>3 DEF PatienceOK, EventsCome, Holds
<1>6. f.win.saving = 0
  BY <1>2, <1>3 DEF PatienceOK, SavesAreHere, Has
<1>7. f.win.seen.valid /\ f.win.seen.move = m.move
  BY <1>2, <1>3 DEF PatienceOK, ViewsCome, Holds
<1> QED BY <1>1, <1>4, <1>5, <1>6, <1>7 DEF Calm, L

(* What waits for the statesave waits.                                      *)
LEMMA AfterGood ==
  ASSUME NEW f, NEW c, NEW m, NEW r, Good(f, c, m, r), user # "patient",
         NEW w \in {"step", "stepOut", "continue"}
  PROVE  LET g == [f EXCEPT !.win.after = w]
         IN  Good(g, c, m, r) /\ Carries(f, g)
<1> DEFINE g == [f EXCEPT !.win.after = w]
           L == Line(c, f.lane.queue)
<1>1. f \in FrameType /\ f.win \in WindowType /\ f.ctl.stepEvent \in BOOLEAN
  BY FrameIs, ControlIs DEF Good
<1>2. /\ g \in FrameType /\ g.lane = f.lane /\ g.ctl = f.ctl /\ g.ghost = f.ghost /\ g.model = f.model
      /\ g.win = [f.win EXCEPT !.after = w]
  BY <1>1 DEF FrameType, WindowType
<1>3. /\ g.win.seen = f.win.seen /\ g.win.bases = f.win.bases /\ g.win.anchors = f.win.anchors
      /\ g.win.saving = f.win.saving
  BY <1>1, <1>2 DEF WindowType
<1>4. LineOK(f, L, m, r) /\ Attached(f, r) /\ f.lane.stopped
  BY DEF Good, Body
<1> HIDE DEF g, L
<1>5. LineOK(g, L, m, r)
  <2>1. EndsArmed(g, L, m) /\ EndsCovered(g, L, m) /\ ShotIsCleared(g, L, m)
    BY <1>2, <1>4 DEF LineOK, EndsArmed, EndsCovered, ShotIsCleared
  <2>2. ReportsAreFresh(L, m, r) /\ SaveIsComing(g, L) /\ BasesCome(g, L, m, r)
    BY <1>2, <1>3, <1>4 DEF LineOK, SaveIsComing, BasesCome
  <2>3. StopsAreRecorded(g, L, r)
    BY <1>2, <1>3, <1>4 DEF LineOK, StopsAreRecorded
  <2> QED BY <2>1, <2>2, <2>3 DEF LineOK
<1>6. Attached(g, r)
  BY <1>2, <1>3, <1>4 DEF Attached
<1>7. Good(g, c, m, r)
  BY <1>2, <1>4, <1>5, <1>6 DEF Good, Body, PatienceOK, L
<1> QED BY <1>1, <1>2, <1>3, <1>7 DEF g, Carries

(* What a step asks for.                                                    *)
LEMMA StepBatchIs ==
  LET b == <<Command("step", 0)>> \o RefreshBatch
  IN  /\ b \in Seq(Requests) /\ DOMAIN b = 1..4
      /\ b[1].kind = "step" /\ b[2].kind = "regs" /\ b[3].kind = "basepage" /\ b[4].kind = "disasm"
      /\ ~b[1].emits /\ ~b[2].emits /\ ~b[3].emits
<1> DEFINE s == <<Command("step", 0)>>
           b == s \o RefreshBatch
<1>1. /\ Command("step", 0) \in Requests /\ Command("step", 0).kind = "step" /\ ~Command("step", 0).emits
      /\ Command("regs", 0).kind = "regs" /\ ~Command("regs", 0).emits
      /\ Command("basepage", 0).kind = "basepage" /\ ~Command("basepage", 0).emits
  BY CommandIs DEF Kinds
<1>2. StateRead("disasm").kind = "disasm"
  BY ReadIs
<1>3. s \in Seq(Requests) /\ Len(s) = 1 /\ s[1] = Command("step", 0)
  BY <1>1
<1>4. /\ RefreshBatch \in Seq(Requests) /\ DOMAIN RefreshBatch = 1..3
      /\ RefreshBatch[1] = Command("regs", 0) /\ RefreshBatch[2] = Command("basepage", 0)
      /\ RefreshBatch[3] = StateRead("disasm")
  BY RefreshIs
<1> HIDE DEF s
<1>5. Len(RefreshBatch) = 3
  BY <1>4
<1>6. /\ b \in Seq(Requests) /\ DOMAIN b = 1..4 /\ b[1] = s[1]
      /\ b[1 + 1] = RefreshBatch[1] /\ b[1 + 2] = RefreshBatch[2] /\ b[1 + 3] = RefreshBatch[3]
  <2>1. /\ b \in Seq(Requests) /\ Len(b) = Len(s) + Len(RefreshBatch)
        /\ \A i \in 1 .. Len(s) : b[i] = s[i]
        /\ \A i \in 1 .. Len(RefreshBatch) : b[Len(s) + i] = RefreshBatch[i]
        /\ DOMAIN b = 1 .. Len(s) + Len(RefreshBatch)
    <3>1. s \in Seq(Requests) /\ RefreshBatch \in Seq(Requests)
      BY <1>3, <1>4
    <3> QED BY <3>1, ConcatIs
  <2> HIDE DEF b
  <2> QED BY <1>3, <1>5, <2>1
<1>7. b[2] = RefreshBatch[1] /\ b[3] = RefreshBatch[2] /\ b[4] = RefreshBatch[3]
  BY <1>6
<1> HIDE DEF b
<1> QED BY <1>1, <1>2, <1>3, <1>4, <1>6, <1>7 DEF b, s

(* A step and the refresh after it.                                         *)
LEMMA StepGood ==
  ASSUME NEW f, NEW c \in Commands, NEW m, NEW r, Good(f, c, m, r), Calm(f, c)
  PROVE  LET g == Step(f) IN Good(g, c, m, r) /\ Carries(f, g)
<1> DEFINE g == Step(f)
           b == <<Command("step", 0)>> \o RefreshBatch
           p == Put(f, b)
           L == Line(c, f.lane.queue)
           M == Line(c, p.lane.queue)
<1>1. /\ f \in FrameType /\ f.ctl \in ControlType /\ f.lane.queue \in Seq(Requests) /\ f.lane.stopped
      /\ f.ctl.stepEvent \in BOOLEAN
  BY FrameIs, ControlIs DEF Good
<1>2. CASE f.win.saving # 0
  <2>1. g = [f EXCEPT !.win.after = "step"]
    BY <1>2 DEF Step
  <2>2. user # "patient"
    BY <1>2, CalmIs
  <2>3. "step" \in {"step", "stepOut", "continue"}
    OBVIOUS
  <2> HIDE DEF g
  <2>4. Good([f EXCEPT !.win.after = "step"], c, m, r) /\ Carries(f, [f EXCEPT !.win.after = "step"])
    BY <2>2, AfterGood
  <2> QED BY <2>1, <2>4 DEF g
<1>3. CASE f.win.saving = 0
  <2>1. g = [p EXCEPT !.ctl.stepEvent = TRUE]
    BY <1>3 DEF Step
  <2>2. /\ b \in Seq(Requests) /\ DOMAIN b = 1..4
        /\ b[1].kind = "step" /\ b[2].kind = "regs" /\ b[3].kind = "basepage" /\ b[4].kind = "disasm"
        /\ ~b[1].emits /\ ~b[2].emits /\ ~b[3].emits
    BY StepBatchIs
  <2> HIDE DEF g, b
  <2>3. /\ p \in FrameType /\ Same(f, p) /\ p.lane.queue = f.lane.queue \o b
        /\ p.lane.current = f.lane.current
    BY <1>1, <2>2, PutIs
  <2>4. Grown(L, M, b)
    BY <1>1, <2>2, <2>3, LineGrows
  <2> HIDE DEF p
  <2>5. /\ g \in FrameType /\ g.lane = p.lane /\ g.win = f.win /\ g.ghost = f.ghost /\ g.model = f.model
        /\ g.ctl = [f.ctl EXCEPT !.stepEvent = TRUE]
        /\ p.lane.stopped = f.lane.stopped /\ p.lane.continuing = f.lane.continuing
    BY <1>1, <2>1, <2>3 DEF FrameType, ControlType, Same
  <2>6. /\ g.ctl.attached = f.ctl.attached /\ g.ctl.armed = f.ctl.armed /\ g.ctl.stepOut = f.ctl.stepOut
        /\ g.ctl.turbo = f.ctl.turbo /\ g.ctl.coverage = f.ctl.coverage
        /\ g.ctl.profileSave = f.ctl.profileSave /\ g.ctl.guided = f.ctl.guided
        /\ g.ctl.stopEvent = f.ctl.stopEvent /\ g.ctl.stepEvent
    BY <1>1, <2>5 DEF ControlType
  <2>7. LineOK(f, L, m, r) /\ PatienceOK(f, L, m) /\ Attached(f, r)
    BY DEF Good, Body
  <2>8. user = "patient" =>
          /\ ~f.lane.continuing /\ ~f.ctl.stepOut /\ ~f.ctl.stopEvent
          /\ DOMAIN L = 0..0 /\ L[0] = NoCommand
    BY CalmIs
  <2>9. /\ \A i \in DOMAIN b : b[i].kind \in {"step", "regs", "basepage", "disasm"}
        /\ \A i \in DOMAIN b : b[i].emits => i = 4
        /\ 1 \in DOMAIN b /\ 2 \in DOMAIN b /\ 4 \in DOMAIN b
    BY <2>2
  <2> HIDE DEF L, M
  <2>10. LineOK(g, M, m, r)
    <3>1. EndsArmed(g, M, m)
      <4>1. EndsArmed(f, M, m)
        BY <2>4, <2>7, <2>9, EndsGrow DEF LineOK, EndsArmed
      <4> QED BY <2>5, <2>6, <4>1 DEF EndsArmed
    <3>2. EndsCovered(g, M, m) /\ SaveIsComing(g, M)
      BY <2>4, <2>6, <2>7, HoldsGrow DEF LineOK, EndsCovered, SaveIsComing
    <3>3. ShotIsCleared(g, M, m)
      <4>1. ShotIsCleared(f, M, m)
        BY <2>4, <2>7, <2>9, ShotGrows DEF LineOK
      <4> QED BY <2>6, <4>1 DEF ShotIsCleared
    <3>4. ReportsAreFresh(M, m, r)
      <4>1. ASSUME NEW i \in DOMAIN b, b[i].emits
            PROVE  \E j \in DOMAIN b : /\ j <= i /\ b[j].kind = "regs"
                                       /\ \A x \in DOMAIN b : j < x /\ x < i => b[x].kind # "step"
        <5>1. i = 4
          BY <2>9, <4>1
        <5>2. \A x \in DOMAIN b : 2 < x => b[x].kind # "step"
          BY <2>2
        <5> QED BY <2>2, <2>9, <5>1, <5>2
      <4> QED BY <2>4, <2>7, <4>1, ReportsGrow DEF LineOK
    <3>5. BasesCome(g, M, m, r)
      <4>1. BasesCome(f, M, m, r)
        BY <2>4, <2>7, BasesGrow DEF LineOK
      <4> QED BY <2>5, <4>1 DEF BasesCome
    <3>6. StopsAreRecorded(g, M, r)
      <4>1. StopsAreRecorded(f, M, r)
        BY <2>4, <2>7, <2>9, StopsGrow DEF LineOK
      <4> QED BY <2>5, <4>1 DEF StopsAreRecorded
    <3> QED BY <3>1, <3>2, <3>3, <3>4, <3>5, <3>6 DEF LineOK
  <2>11. ASSUME user = "patient" PROVE PatienceOK(g, M, m)
    <3>1. /\ ~f.lane.continuing /\ ~f.ctl.stepOut /\ ~f.ctl.stopEvent
          /\ DOMAIN L = 0..0 /\ L[0] = NoCommand
      BY <2>8, <2>11
    <3>2. ContinueHasItsEnd(g, M, m) /\ StepOutWaits(g, M, m)
      BY <2>5, <2>6, <3>1 DEF ContinueHasItsEnd, StepOutWaits
    <3>3. SavesAreHere(g, M, m)
      <4>1. ~Holds(L, "save")
        BY <3>1 DEF Holds, NoCommand
      <4>2. SavesAreHere(f, M, m)
        BY <2>4, <2>7, <2>9, <2>11, <4>1, SavesGrow DEF PatienceOK
      <4> QED BY <2>5, <4>2 DEF SavesAreHere
    <3>4. Holds(M, "disasm") /\ Holds(M, "step")
      BY <2>2, <2>4, <2>9, PutIsHeld
    <3>5. ViewsCome(g, M, m)
      <4>1. DOMAIN M = 0..4 /\ M[0] = NoCommand /\ \A i \in 1..4 : M[i] = b[i]
        <5>1. PICK n, k \in Nat : /\ DOMAIN L = 0..n /\ DOMAIN M = 0..(n + k) /\ DOMAIN b = 1..k
                                  /\ \A i \in 0..n : M[i] = L[i]
                                  /\ \A i \in 1..k : M[n + i] = b[i]
          BY <2>4 DEF Grown
        <5>2. n \in 0..n /\ 4 \in 1..4
          OBVIOUS
        <5>3. n \in 0..0 /\ 4 \in 1..k
          BY <2>2, <3>1, <5>1, <5>2
        <5>4. k \in 1..k
          BY <5>3
        <5>5. k \in 1..4
          BY <2>2, <5>1, <5>4
        <5>6. n = 0 /\ k = 4
          BY <5>3, <5>5
        <5> QED BY <3>1, <5>1, <5>6
      <4>2. \A i \in DOMAIN M : M[i].kind = "step" => i = 1
        BY <2>2, <4>1 DEF NoCommand
      <4>3. M[0].kind = "none" /\ M[4].kind = "disasm"
        BY <2>2, <4>1 DEF NoCommand
      <4> QED BY <3>4, <4>1, <4>2, <4>3 DEF ViewsCome
    <3>6. EventsCome(g, M, m)
      BY <2>6, <3>1, <3>4 DEF EventsCome
    <3>7. SetupComes(g, M, m)
      <4>1. SetupComes(f, M, m)
        BY <2>4, <2>7, <2>9, <2>11, SetupGrows DEF PatienceOK
      <4> QED BY <2>5, <2>6, <4>1 DEF SetupComes
    <3> QED BY <3>2, <3>3, <3>5, <3>6, <3>7 DEF PatienceOK
  <2>12. Attached(g, r)
    BY <2>5, <2>6, <2>7 DEF Attached
  <2>13. Good(g, c, m, r)
    BY <1>1, <2>5, <2>10, <2>11, <2>12 DEF Good, Body, PatienceOK, M
  <2> QED BY <2>3, <2>5, <2>6, <2>13 DEF g, Carries
<1> QED BY <1>2, <1>3

(* What follows nothing but the requests just made.                         *)
LEMMA CalmGrows ==
  ASSUME NEW f, NEW c \in Commands, NEW m, NEW r, Good(f, c, m, r), Calm(f, c), user = "patient",
         NEW b \in Seq(Requests)
  PROVE  LET M == Line(c, Put(f, b).lane.queue)
         IN  \A i \in DOMAIN M : M[i] = NoCommand \/ \E j \in DOMAIN b : M[i] = b[j]
<1> DEFINE L == Line(c, f.lane.queue)
           M == Line(c, f.lane.queue \o b)
<1>1. f \in FrameType /\ f.lane.queue \in Seq(Requests)
  BY ControlIs DEF Good
<1>2. Put(f, b).lane.queue = f.lane.queue \o b
  BY <1>1, PutIs
<1>3. Grown(L, M, b)
  BY <1>1, LineGrows
<1>4. DOMAIN L = 0..0 /\ L[0] = NoCommand
  BY CalmIs
<1> HIDE DEF L, M
<1>5. \A i \in DOMAIN M : M[i] = NoCommand \/ \E j \in DOMAIN b : M[i] = b[j]
  BY <1>3, <1>4, GrownIs
<1> QED BY <1>2, <1>5 DEF M

(* A step-out asks for the stack of the stop it is at.                      *)
LEMMA StepOutGood ==
  ASSUME machine \in MachineType,
         NEW f, NEW c \in Commands, NEW r, Good(f, c, machine, r), Calm(f, c)
  PROVE  LET g == StepOut(f) IN Good(g, c, machine, r) /\ Carries(f, g)
<1> DEFINE g == StepOut(f)
           b == <<Command("dump", f.win.seen.move)>>
           p == Put(f, b)
           M == Line(c, p.lane.queue)
<1>1. /\ f \in FrameType /\ f.win \in WindowType /\ f.lane.stopped
      /\ f.ctl.stepEvent \in BOOLEAN /\ f.ctl.guided \in BOOLEAN /\ machine.move \in Nat
      /\ f.win.seen.move \in Nat
  BY FrameIs, ControlIs DEF Good, WindowType, MachineType, States
<1>2. CASE f.win.saving # 0
  <2>1. g = [f EXCEPT !.win.after = "stepOut"]
    BY <1>2 DEF StepOut
  <2>2. user # "patient"
    BY <1>2, CalmIs
  <2>3. "stepOut" \in {"step", "stepOut", "continue"}
    OBVIOUS
  <2> HIDE DEF g
  <2>4. /\ Good([f EXCEPT !.win.after = "stepOut"], c, machine, r)
        /\ Carries(f, [f EXCEPT !.win.after = "stepOut"])
    BY <2>2, AfterGood
  <2> QED BY <2>1, <2>4 DEF g
<1>3. CASE f.win.saving = 0 /\ f.lane.stopped /\ f.win.seen.valid /\ ~f.ctl.stepOut
  <2> DEFINE at == machine.move
             e == [f.ghost EXCEPT !.outAt = at]
  <2>1. g = [p EXCEPT !.ctl.stepOut = TRUE, !.ghost.outAt = at]
    BY <1>3 DEF StepOut
  <2>2. /\ Command("dump", f.win.seen.move) \in Requests /\ Command("dump", f.win.seen.move).kind = "dump"
        /\ Command("dump", f.win.seen.move).n = f.win.seen.move
        /\ ~Command("dump", f.win.seen.move).emits
    BY <1>1, CommandIs DEF Kinds
  <2>3. /\ Neutral(b, f.ctl.guided) /\ b \in Seq(Requests) /\ DOMAIN b = 1..1
        /\ b[1].kind = "dump" /\ b[1].n = f.win.seen.move
    BY <1>1, <2>2, OneIsNeutral
  <2>4. user = "patient" => ~f.lane.continuing /\ ~f.ctl.stepOut /\ f.win.seen.move = machine.move
    BY CalmIs
  <2>5. /\ Good(p, c, machine, r) /\ Same(f, p) /\ p.lane.current = f.lane.current
    <3> HIDE DEF b
    <3> QED BY <2>3, <2>4, PutGood
  <2>6. user = "patient" =>
          \A i \in DOMAIN M : M[i] = NoCommand \/ \E j \in DOMAIN b : M[i] = b[j]
    <3> HIDE DEF b
    <3> QED BY <2>3, CalmGrows
  <2>7. p.lane.queue = f.lane.queue \o b
    BY <1>1, <2>3, PutIs
  <2>8. Holds(M, "dump")
    <3>1. f.lane.queue \in Seq(Requests)
      BY <1>1, ControlIs
    <3>2. Grown(Line(c, f.lane.queue), M, b)
      BY <2>3, <2>7, <3>1, LineGrows
    <3>3. 1 \in DOMAIN b
      BY <2>3
    <3> HIDE DEF b, M
    <3> QED BY <2>3, <3>2, <3>3, PutIsHeld
  <2>9. /\ p \in FrameType /\ p.ctl \in ControlType /\ p.ghost = f.ghost /\ p.ctl = f.ctl /\ p.win = f.win
        /\ f.ghost \in GhostType
    BY <1>1, <2>5, FrameIs DEF Good, Same
  <2>10. e \in GhostType /\ e.outAt = at /\ e.aim = f.ghost.aim
    BY <1>1, <2>9 DEF GhostType
  <2> HIDE DEF g, b, p
  <2>11. g = [p EXCEPT !.ctl.stepOut = TRUE, !.ghost = e]
    BY <2>1, <2>9
  <2> HIDE DEF e
  <2>12. PICK h : h = [p EXCEPT !.ctl.stepOut = TRUE]
    OBVIOUS
  <2>13. /\ h \in FrameType /\ h.lane = p.lane /\ h.win = p.win /\ h.ghost = p.ghost /\ h.model = p.model
         /\ h.ctl = [p.ctl EXCEPT !.stepOut = TRUE]
    BY <2>9, <2>12 DEF FrameType, ControlType
  <2>14. g = [h EXCEPT !.ghost = e]
    BY <2>11, <2>12
  <2>15. /\ g \in FrameType /\ g.lane = p.lane /\ g.win = p.win /\ g.ghost = e /\ g.model = p.model
         /\ g.ctl = [p.ctl EXCEPT !.stepOut = TRUE]
    BY <2>10, <2>13, <2>14 DEF FrameType
  <2>16. /\ g.ctl.attached = p.ctl.attached /\ g.ctl.armed = p.ctl.armed /\ g.ctl.stepOut
         /\ g.ctl.turbo = p.ctl.turbo /\ g.ctl.coverage = p.ctl.coverage
         /\ g.ctl.profileSave = p.ctl.profileSave /\ g.ctl.guided = p.ctl.guided
         /\ g.ctl.stopEvent = p.ctl.stopEvent /\ g.ctl.stepEvent = p.ctl.stepEvent
    BY <2>9, <2>15 DEF ControlType
  <2>17. LineOK(p, M, machine, r) /\ PatienceOK(p, M, machine) /\ Attached(p, r) /\ p.lane.stopped
    BY <2>5 DEF Good, Body
  <2> HIDE DEF M, at
  <2>18. LineOK(g, M, machine, r)
    <3>1. EndsArmed(g, M, machine) /\ EndsCovered(g, M, machine) /\ ShotIsCleared(g, M, machine)
      BY <2>15, <2>16, <2>17 DEF LineOK, EndsArmed, EndsCovered, ShotIsCleared
    <3>2. ReportsAreFresh(M, machine, r) /\ SaveIsComing(g, M) /\ BasesCome(g, M, machine, r)
      BY <2>15, <2>16, <2>17 DEF LineOK, SaveIsComing, BasesCome
    <3>3. StopsAreRecorded(g, M, r)
      BY <2>15, <2>17 DEF LineOK, StopsAreRecorded
    <3> QED BY <3>1, <3>2, <3>3 DEF LineOK
  <2>19. ASSUME user = "patient" PROVE PatienceOK(g, M, machine)
    <3>1. ContinueHasItsEnd(g, M, machine) /\ SavesAreHere(g, M, machine)
      BY <2>5, <2>4, <2>15, <2>17, <2>19 DEF PatienceOK, ContinueHasItsEnd, SavesAreHere, Same
    <3>2. ViewsCome(g, M, machine) /\ EventsCome(g, M, machine) /\ SetupComes(g, M, machine)
      BY <2>15, <2>16, <2>17, <2>19 DEF PatienceOK, ViewsCome, EventsCome, SetupComes
    <3>3. \A j \in DOMAIN b : b[j].kind = "dump" /\ b[j].n = machine.move
      BY <2>3, <2>4, <2>19
    <3>4. \A i \in DOMAIN M : M[i].kind = "none" \/ (M[i].kind = "dump" /\ M[i].n = machine.move)
      BY <2>6, <2>19, <3>3 DEF NoCommand
    <3>5. StepOutWaits(g, M, machine)
      BY <2>4, <2>5, <2>8, <2>10, <2>15, <2>19, <3>4 DEF StepOutWaits, Same, at
    <3> QED BY <3>1, <3>2, <3>5 DEF PatienceOK
  <2>20. Attached(g, r)
    BY <2>15, <2>16, <2>17 DEF Attached
  <2>21. Good(g, c, machine, r)
    BY <2>15, <2>17, <2>18, <2>19, <2>20 DEF Good, Body, PatienceOK, M
  <2> QED BY <1>1, <2>5, <2>15, <2>16, <2>21 DEF Carries, Same, g
<1>4. CASE f.win.saving = 0 /\ ~(f.lane.stopped /\ f.win.seen.valid /\ ~f.ctl.stepOut)
  <2>1. g = f
    BY <1>4 DEF StepOut
  <2> HIDE DEF g
  <2> QED BY <1>1, <2>1 DEF Carries, g
<1> QED BY <1>1, <1>2, <1>3, <1>4

(* A Continue, or its wait for the statesave.                               *)
LEMMA GoGood ==
  ASSUME NEW f, NEW c \in Commands, NEW m, NEW r, Good(f, c, m, r), Calm(f, c)
  PROVE  LET g == Go(f) IN Good(g, c, m, r) /\ Carries(f, g)
<1> DEFINE g == Go(f)
<1>1. f.ctl.stepEvent \in BOOLEAN
  BY ControlIs DEF Good
<1>2. CASE f.win.saving # 0
  <2>1. g = [f EXCEPT !.win.after = "continue"]
    BY <1>2 DEF Go
  <2>2. user # "patient"
    BY <1>2, CalmIs
  <2>3. "continue" \in {"step", "stepOut", "continue"}
    OBVIOUS
  <2> HIDE DEF g
  <2>4. /\ Good([f EXCEPT !.win.after = "continue"], c, m, r)
        /\ Carries(f, [f EXCEPT !.win.after = "continue"])
    BY <2>2, AfterGood
  <2> QED BY <2>1, <2>4 DEF g
<1>3. CASE f.win.saving = 0
  <2>1. g = Continue(f, "continue")
    BY <1>3 DEF Go
  <2>2. user = "patient" => ReadyFor(f, Line(c, f.lane.queue), m, "continue")
    <3> DEFINE L == Line(c, f.lane.queue)
    <3>1. user = "patient" => ~f.ctl.stepOut /\ DOMAIN L = 0..0 /\ L[0] = NoCommand
      BY CalmIs
    <3> HIDE DEF L
    <3>2. user = "patient" => ReadyFor(f, L, m, "continue")
      BY <3>1 DEF ReadyFor, NoCommand
    <3> QED BY <3>2 DEF L
  <2> DEFINE h == Continue(f, "continue")
  <2>3. /\ Good(h, c, m, r) /\ h.ctl = f.ctl /\ h.win = f.win /\ h.model = f.model
        /\ h.lane.stopped = f.lane.stopped /\ h.lane.current = f.lane.current
    BY <2>2, ContinueGood
  <2> HIDE DEF g, h
  <2> QED BY <1>1, <2>1, <2>3 DEF Carries, g, h
<1> QED BY <1>2, <1>3

(* A run to the cursor: its one-shot, then the Continue.                    *)
LEMMA RunToCursorGood ==
  ASSUME NEW f, NEW c \in Commands, NEW m, NEW r, Good(f, c, m, r), Calm(f, c)
  PROVE  LET g == RunToCursor(f) IN Good(g, c, m, r) /\ Carries(f, g)
<1> DEFINE b == <<Command("once", 1)>>
           p == Put(f, b)
           M == Line(c, p.lane.queue)
           g == Continue(p, "cursor")
<1>1. /\ f \in FrameType /\ f.lane.queue \in Seq(Requests) /\ f.ctl.stepEvent \in BOOLEAN
      /\ f.ctl.guided \in BOOLEAN
  BY ControlIs DEF Good
<1>2. /\ Command("once", 1) \in Requests /\ Command("once", 1).kind = "once"
      /\ Command("once", 1).n = 1 /\ ~Command("once", 1).emits
  BY OnceIs
<1>3. Neutral(b, f.ctl.guided) /\ b \in Seq(Requests) /\ DOMAIN b = 1..1
      /\ b[1].kind = "once" /\ b[1].n = 1
  BY <1>1, <1>2, OneIsNeutral
<1>4. RunToCursor(f) = g
  BY DEF RunToCursor
<1>5. 1 \in DOMAIN b /\ \A j \in DOMAIN b : b[j].kind = "once"
  BY <1>3
<1> HIDE DEF b
<1>6. user = "patient" => ~f.lane.continuing /\ ~f.ctl.stepOut
  BY CalmIs
<1>7. /\ Good(p, c, m, r) /\ Same(f, p) /\ p.lane.current = f.lane.current
  BY <1>3, <1>6, PutGood
<1>8. Grown(Line(c, f.lane.queue), M, b)
  <2>1. p.lane.queue = f.lane.queue \o b
    BY <1>1, <1>3, PutIs
  <2> QED BY <1>1, <1>3, <2>1, LineGrows
<1>9. user = "patient" => ReadyFor(p, M, m, "cursor")
  <2>1. user = "patient" => \A i \in DOMAIN M : M[i] = NoCommand \/ \E j \in DOMAIN b : M[i] = b[j]
    BY <1>3, CalmGrows
  <2> HIDE DEF M, p
  <2>2. Has(M, "once", 1)
    BY <1>3, <1>5, <1>8, PutIsHeld
  <2> QED BY <1>5, <1>6, <1>7, <2>1, <2>2 DEF ReadyFor, NoCommand, Same
<1> HIDE DEF p
<1>10. /\ Good(g, c, m, r) /\ g.ctl = p.ctl /\ g.win = p.win /\ g.model = p.model
       /\ g.lane.stopped = p.lane.stopped /\ g.lane.current = p.lane.current
  BY <1>7, <1>9, ContinueGood
<1> HIDE DEF g
<1>11. Carries(f, g)
  BY <1>1, <1>7, <1>10 DEF Carries, Same
<1> QED BY <1>4, <1>10, <1>11

(* A guided run is on.                                                      *)
LEMMA GuidedGood ==
  ASSUME NEW f, NEW c, NEW m, NEW r, Good(f, c, m, r)
  PROVE  LET g == [f EXCEPT !.ctl.guided = TRUE]
         IN  /\ Good(g, c, m, r) /\ Carries(f, g) /\ g.ctl.guided /\ g.ctl.stepOut = f.ctl.stepOut
             /\ g.lane = f.lane
<1> DEFINE g == [f EXCEPT !.ctl.guided = TRUE]
           L == Line(c, f.lane.queue)
<1>1. f \in FrameType /\ f.ctl \in ControlType /\ f.ctl.stepEvent \in BOOLEAN
  BY FrameIs, ControlIs DEF Good
<1>2. /\ g \in FrameType /\ g.lane = f.lane /\ g.win = f.win /\ g.ghost = f.ghost /\ g.model = f.model
      /\ g.ctl = [f.ctl EXCEPT !.guided = TRUE]
  BY <1>1 DEF FrameType, ControlType
<1>3. /\ g.ctl.attached = f.ctl.attached /\ g.ctl.armed = f.ctl.armed /\ g.ctl.stepOut = f.ctl.stepOut
      /\ g.ctl.turbo = f.ctl.turbo /\ g.ctl.coverage = f.ctl.coverage
      /\ g.ctl.profileSave = f.ctl.profileSave /\ g.ctl.guided
      /\ g.ctl.stopEvent = f.ctl.stopEvent /\ g.ctl.stepEvent = f.ctl.stepEvent
  BY <1>1, <1>2 DEF ControlType
<1>4. LineOK(f, L, m, r) /\ PatienceOK(f, L, m) /\ Attached(f, r) /\ f.lane.stopped
  BY DEF Good, Body
<1> HIDE DEF g, L
<1>5. LineOK(g, L, m, r)
  <2>1. EndsArmed(g, L, m) /\ EndsCovered(g, L, m) /\ ShotIsCleared(g, L, m)
    BY <1>2, <1>3, <1>4 DEF LineOK, EndsArmed, EndsCovered, ShotIsCleared
  <2>2. ReportsAreFresh(L, m, r) /\ SaveIsComing(g, L) /\ BasesCome(g, L, m, r)
    BY <1>2, <1>3, <1>4 DEF LineOK, SaveIsComing, BasesCome
  <2>3. StopsAreRecorded(g, L, r)
    BY <1>2, <1>4 DEF LineOK, StopsAreRecorded
  <2> QED BY <2>1, <2>2, <2>3 DEF LineOK
<1>6. ASSUME user = "patient" PROVE PatienceOK(g, L, m)
  <2>1. ContinueHasItsEnd(g, L, m) /\ StepOutWaits(g, L, m) /\ SavesAreHere(g, L, m)
    BY <1>2, <1>3, <1>4, <1>6 DEF PatienceOK, ContinueHasItsEnd, StepOutWaits, SavesAreHere
  <2>2. ViewsCome(g, L, m) /\ EventsCome(g, L, m) /\ SetupComes(g, L, m)
    BY <1>2, <1>3, <1>4, <1>6 DEF PatienceOK, ViewsCome, EventsCome, SetupComes
  <2> QED BY <2>1, <2>2 DEF PatienceOK
<1>7. Attached(g, r)
  BY <1>2, <1>3, <1>4 DEF Attached
<1>8. Good(g, c, m, r)
  BY <1>2, <1>4, <1>5, <1>6, <1>7 DEF Good, Body, PatienceOK, L
<1> QED BY <1>1, <1>2, <1>3, <1>8 DEF Carries, g

(* A guided profile: its one-shot, the profiler, then the Continue.         *)
LEMMA ProfileToCursorGood ==
  ASSUME NEW f, NEW c \in Commands, NEW m, NEW r, Good(f, c, m, r), Calm(f, c)
  PROVE  LET g == ProfileToCursor(f) IN Good(g, c, m, r) /\ Carries(f, g)
<1> DEFINE b == <<Command("once", 2), Command("profileOn", 0)>>
           e == [f EXCEPT !.ctl.guided = TRUE]
           p == Put(e, b)
           M == Line(c, p.lane.queue)
           g == Continue(p, "profile")
<1>1. /\ f \in FrameType /\ f.lane.queue \in Seq(Requests) /\ f.ctl.stepEvent \in BOOLEAN
      /\ f.ctl \in ControlType
  BY ControlIs, FrameIs DEF Good
<1>2. /\ Command("once", 2) \in Requests /\ Command("once", 2).kind = "once"
      /\ Command("once", 2).n = 2 /\ ~Command("once", 2).emits
      /\ Command("profileOn", 0) \in Requests /\ Command("profileOn", 0).kind = "profileOn"
      /\ ~Command("profileOn", 0).emits
  BY OnceIs, CommandIs DEF Kinds
<1>3. /\ b \in Seq(Requests) /\ DOMAIN b = 1..2
      /\ b[1] = Command("once", 2) /\ b[2] = Command("profileOn", 0)
  BY <1>2
<1>4. ProfileToCursor(f) = g
  <2>1. Put(e, b) = [Put(f, b) EXCEPT !.ctl.guided = TRUE]
    <3>1. f = [lane |-> f.lane, ctl |-> f.ctl, win |-> f.win, ghost |-> f.ghost, model |-> f.model]
      BY <1>1, FrameIs
    <3> DEFINE l == Enqueue(f.lane, b)
    <3>2. Put(f, b) = [f EXCEPT !.lane = l]
      BY DEF Put
    <3>3. e.lane = f.lane
      BY <1>1 DEF FrameType
    <3>4. Put(e, b) = [e EXCEPT !.lane = l]
      BY <3>3 DEF Put
    <3> HIDE DEF l, b
    <3> QED BY <1>1, <3>1, <3>2, <3>4 DEF FrameType
  <2> QED BY <2>1 DEF ProfileToCursor
<1>5. /\ Good(e, c, m, r) /\ Carries(f, e) /\ e.ctl.guided /\ e.ctl.stepOut = f.ctl.stepOut
      /\ e.lane = f.lane
  BY GuidedGood
<1> HIDE DEF b, e
<1>6. Neutral(b, e.ctl.guided)
  <2>1. \A i \in DOMAIN b : i = 1 \/ i = 2
    BY <1>3
  <2>2. \A i \in DOMAIN b : b[i].kind \in {"once", "profileOn"} /\ ~b[i].emits
    BY <1>2, <1>3, <2>1
  <2> QED BY <1>3, <1>5, <2>2 DEF Neutral
<1>7. 1 \in DOMAIN b /\ 2 \in DOMAIN b /\ \A j \in DOMAIN b : b[j].kind \in {"once", "profileOn"}
  BY <1>2, <1>3
<1>8. user = "patient" => ~e.lane.continuing /\ ~e.ctl.stepOut
  BY <1>5, CalmIs
<1>9. Calm(e, c)
  BY <1>5 DEF Calm
<1>10. /\ Good(p, c, m, r) /\ Same(e, p) /\ p.lane.current = e.lane.current
  BY <1>5, <1>6, <1>8, PutGood
<1>11. Grown(Line(c, e.lane.queue), M, b)
  <2>1. e \in FrameType
    BY <1>5 DEF Good
  <2>2. p.lane.queue = e.lane.queue \o b
    BY <1>3, <2>1, PutIs
  <2> QED BY <1>1, <1>3, <1>5, <2>2, LineGrows
<1>12. user = "patient" => ReadyFor(p, M, m, "profile")
  <2>1. user = "patient" => \A i \in DOMAIN M : M[i] = NoCommand \/ \E j \in DOMAIN b : M[i] = b[j]
    BY <1>3, <1>5, <1>9, CalmGrows
  <2> HIDE DEF M, p
  <2>2. Has(M, b[1].kind, b[1].n) /\ Holds(M, b[2].kind)
    BY <1>7, <1>11, PutIsHeld
  <2>3. Has(M, "once", 2) /\ Holds(M, "profileOn")
    BY <1>2, <1>3, <2>2
  <2> QED BY <1>7, <1>8, <1>10, <2>1, <2>3 DEF ReadyFor, NoCommand, Same
<1> HIDE DEF p
<1>13. /\ Good(g, c, m, r) /\ g.ctl = p.ctl /\ g.win = p.win /\ g.model = p.model
       /\ g.lane.stopped = p.lane.stopped /\ g.lane.current = p.lane.current
  BY <1>10, <1>12, ContinueGood
<1> HIDE DEF g
<1>14. Carries(f, g)
  BY <1>1, <1>5, <1>10, <1>13 DEF Carries, Same
<1> QED BY <1>4, <1>13, <1>14

(* A flag that is put down: a step-out's, or that of a profile to save.     *)
LEMMA LoweredGood ==
  ASSUME NEW f, NEW c, NEW m, NEW r, Good(f, c, m, r), NEW v \in BOOLEAN, NEW w \in BOOLEAN,
         v => f.ctl.stepOut, w => f.ctl.profileSave,
         NEW g, g.lane = f.lane, g.win = f.win, g.ghost = f.ghost, g.model = f.model,
         g \in FrameType, g.ctl = [f.ctl EXCEPT !.stepOut = v, !.profileSave = w]
  PROVE  Good(g, c, m, r) /\ Carries(f, g)
<1> DEFINE L == Line(c, f.lane.queue)
<1>1. f \in FrameType /\ f.ctl \in ControlType /\ f.ctl.stepEvent \in BOOLEAN
  BY FrameIs, ControlIs DEF Good
<1>2. /\ g.ctl.attached = f.ctl.attached /\ g.ctl.armed = f.ctl.armed /\ g.ctl.stepOut = v
      /\ g.ctl.turbo = f.ctl.turbo /\ g.ctl.coverage = f.ctl.coverage
      /\ g.ctl.profileSave = w /\ g.ctl.guided = f.ctl.guided
      /\ g.ctl.stopEvent = f.ctl.stopEvent /\ g.ctl.stepEvent = f.ctl.stepEvent
  BY <1>1 DEF ControlType
<1>3. LineOK(f, L, m, r) /\ PatienceOK(f, L, m) /\ Attached(f, r) /\ f.lane.stopped
  BY DEF Good, Body
<1> HIDE DEF L
<1>4. LineOK(g, L, m, r)
  <2>1. EndsArmed(g, L, m) /\ EndsCovered(g, L, m) /\ ShotIsCleared(g, L, m)
    BY <1>2, <1>3 DEF LineOK, EndsArmed, EndsCovered, ShotIsCleared
  <2>2. ReportsAreFresh(L, m, r) /\ SaveIsComing(g, L) /\ BasesCome(g, L, m, r)
    BY <1>2, <1>3 DEF LineOK, SaveIsComing, BasesCome
  <2>3. StopsAreRecorded(g, L, r)
    BY <1>3 DEF LineOK, StopsAreRecorded
  <2> QED BY <2>1, <2>2, <2>3 DEF LineOK
<1>5. ASSUME user = "patient" PROVE PatienceOK(g, L, m)
  <2>1. ContinueHasItsEnd(g, L, m) /\ StepOutWaits(g, L, m) /\ SavesAreHere(g, L, m)
    BY <1>2, <1>3, <1>5 DEF PatienceOK, ContinueHasItsEnd, StepOutWaits, SavesAreHere
  <2>2. ViewsCome(g, L, m) /\ SetupComes(g, L, m) /\ EventsCome(g, L, m)
    BY <1>2, <1>3, <1>5 DEF PatienceOK, ViewsCome, SetupComes, EventsCome
  <2> QED BY <2>1, <2>2 DEF PatienceOK
<1>6. Attached(g, r)
  BY <1>2, <1>3 DEF Attached
<1>7. Good(g, c, m, r)
  BY <1>3, <1>4, <1>5, <1>6 DEF Good, Body, PatienceOK, L
<1> QED BY <1>1, <1>2, <1>7 DEF Carries

(* A step-out is over, or waits for its one-shot.                           *)
LEMMA OnStackDumpGood ==
  ASSUME NEW f, NEW c \in Requests, c.kind = "dump", NEW m, NEW r, Good(f, c, m, r),
         NEW plausible \in BOOLEAN
  PROVE  LET g == OnStackDump(f, plausible)
         IN  Good(g, c, m, r) /\ Carries(f, g) /\ ~g.ctl.stepOut
<1> DEFINE e == [f EXCEPT !.ctl.stepOut = FALSE]
           g == OnStackDump(f, plausible)
           b == <<Command("once", 3)>>
           p == Put(e, b)
           L == Line(c, f.lane.queue)
           M == Line(c, p.lane.queue)
           w == f.ctl.profileSave
<1>1. /\ f \in FrameType /\ f.ctl \in ControlType /\ f.ctl.stepOut \in BOOLEAN /\ w \in BOOLEAN
      /\ f.lane.queue \in Seq(Requests) /\ f.ctl.stepEvent \in BOOLEAN /\ c \in Commands
  BY FrameIs, ControlIs DEF Good, Commands
<1>2. /\ e \in FrameType /\ e.lane = f.lane /\ e.win = f.win /\ e.ghost = f.ghost /\ e.model = f.model
      /\ e.ctl = [f.ctl EXCEPT !.stepOut = FALSE]
  BY <1>1 DEF FrameType, ControlType
<1> HIDE DEF e
<1>3. /\ e.ctl = [f.ctl EXCEPT !.stepOut = FALSE, !.profileSave = w] /\ ~e.ctl.stepOut
      /\ e.ctl.guided \in BOOLEAN
  BY <1>1, <1>2 DEF ControlType
<1>4. Good(e, c, m, r) /\ Carries(f, e)
  <2>1. (FALSE => f.ctl.stepOut) /\ (w => f.ctl.profileSave) /\ FALSE \in BOOLEAN
    OBVIOUS
  <2> HIDE DEF w
  <2> QED BY <1>1, <1>2, <1>3, <2>1, LoweredGood
<1>5. CASE ~(f.ctl.stepOut /\ plausible)
  <2>1. g = e
    BY <1>5 DEF OnStackDump, e
  <2> HIDE DEF g
  <2> QED BY <1>3, <1>4, <2>1 DEF g
<1>6. CASE f.ctl.stepOut /\ plausible
  <2>1. g = Continue(p, "stepOut")
    BY <1>6 DEF OnStackDump, e
  <2>2. /\ Command("once", 3) \in Requests /\ Command("once", 3).kind = "once"
        /\ Command("once", 3).n = 3 /\ ~Command("once", 3).emits
    BY OnceIs
  <2>3. Neutral(b, e.ctl.guided) /\ b \in Seq(Requests) /\ DOMAIN b = 1..1
        /\ b[1].kind = "once" /\ b[1].n = 3
    BY <1>3, <2>2, OneIsNeutral
  <2>4. 1 \in DOMAIN b /\ \A j \in DOMAIN b : b[j].kind = "once"
    BY <2>3
  <2> HIDE DEF b
  <2>5. user = "patient" => /\ ~f.lane.continuing
                            /\ \A i \in DOMAIN L : L[i].kind \in {"none", "dump"}
    BY <1>6 DEF Good, Body, PatienceOK, StepOutWaits
  <2>6. user = "patient" => ~e.lane.continuing /\ ~e.ctl.stepOut
    BY <1>2, <1>3, <2>5
  <2>7. /\ Good(p, c, m, r) /\ Same(e, p) /\ p.lane.current = e.lane.current
    BY <1>1, <1>4, <2>3, <2>6, PutGood
  <2>8. Grown(L, M, b)
    <3>1. p.lane.queue = f.lane.queue \o b
      BY <1>2, <2>3, PutIs
    <3> QED BY <1>1, <2>3, <3>1, LineGrows
  <2> HIDE DEF L, M, p, g
  <2>9. user = "patient" => ReadyFor(p, M, m, "stepOut")
    <3>1. Has(M, "once", 3)
      BY <2>3, <2>4, <2>8, PutIsHeld
    <3>2. user = "patient" => \A i \in DOMAIN M : M[i].kind \in {"none", "dump", "once"}
      BY <2>4, <2>5, <2>8, GrownIs
    <3> QED BY <1>3, <2>7, <3>1, <3>2 DEF ReadyFor, Same
  <2>10. /\ Good(g, c, m, r) /\ g.ctl = p.ctl /\ g.win = p.win /\ g.model = p.model
         /\ g.lane.stopped = p.lane.stopped /\ g.lane.current = p.lane.current
    BY <1>1, <2>1, <2>7, <2>9, ContinueGood DEF M
  <2>11. Carries(f, g) /\ ~g.ctl.stepOut
    BY <1>3, <1>4, <2>7, <2>10 DEF Carries, Same
  <2> QED BY <2>10, <2>11 DEF g
<1> QED BY <1>1, <1>5, <1>6

(* No profile is to be saved any more.                                      *)
LEMMA ProfileSavedGood ==
  ASSUME NEW f, NEW c, NEW m, NEW r, Good(f, c, m, r)
  PROVE  LET g == [f EXCEPT !.ctl.profileSave = FALSE]
         IN  Good(g, c, m, r) /\ Carries(f, g) /\ ~g.ctl.profileSave
<1> DEFINE g == [f EXCEPT !.ctl.profileSave = FALSE]
           v == f.ctl.stepOut
<1>1. f \in FrameType /\ f.ctl \in ControlType /\ v \in BOOLEAN
  BY FrameIs, ControlIs DEF Good
<1>2. /\ g \in FrameType /\ g.lane = f.lane /\ g.win = f.win /\ g.ghost = f.ghost /\ g.model = f.model
      /\ g.ctl = [f.ctl EXCEPT !.profileSave = FALSE]
  BY <1>1 DEF FrameType, ControlType
<1> HIDE DEF g
<1>3. g.ctl = [f.ctl EXCEPT !.stepOut = v, !.profileSave = FALSE] /\ ~g.ctl.profileSave
  BY <1>1, <1>2 DEF ControlType
<1>4. (v => f.ctl.stepOut) /\ (FALSE => f.ctl.profileSave) /\ FALSE \in BOOLEAN
  OBVIOUS
<1> HIDE DEF v
<1>5. Good(g, c, m, r) /\ Carries(f, g)
  BY <1>1, <1>2, <1>3, <1>4, LoweredGood
<1> QED BY <1>3, <1>5 DEF g

(* The snapshot of a recorded stop is taken.                                *)
LEMMA SavedGood ==
  ASSUME machine \in MachineType,
         NEW f, NEW c \in Requests, NEW r, Good(f, c, machine, r)
  PROVE  LET g == Saved(f, c)
         IN  /\ Good(g, c, machine, r) /\ Carries(f, g) /\ g.win.saving = f.win.saving
             /\ g.win.after = f.win.after /\ (c.kind # "save" => g = f)
<1> DEFINE g == Saved(f, c)
           old == f.win.anchors
           n == c.n
           L == Line(c, f.lane.queue)
<1>1. /\ f \in FrameType /\ f.win \in WindowType /\ f.lane.queue \in Seq(Requests)
      /\ f.ctl.stepEvent \in BOOLEAN /\ c \in Commands
      /\ machine.move \in Nat /\ machine.pc \in Pcs \union {0}
  BY FrameIs, ControlIs DEF Good, Commands, MachineType
<1>2. CASE c.kind # "save"
  <2>1. g = f
    BY <1>2 DEF Saved
  <2> HIDE DEF g
  <2> QED BY <1>1, <2>1 DEF Carries, g
<1>3. CASE c.kind = "save"
  <2>1. LineOK(f, L, machine, r) /\ PatienceOK(f, L, machine) /\ Attached(f, r) /\ f.lane.stopped
    BY DEF Good, Body
  <2>2. 0 \in DOMAIN L /\ L[0] = c
    BY <1>1, LineIs
  <2> HIDE DEF L
  <2>3. n \in DOMAIN old /\ (user = "patient" => old[n].pc = machine.pc)
    BY <1>3, <2>1, <2>2 DEF LineOK, StopsAreRecorded, PatienceOK, SavesAreHere
  <2>4. old \in Seq(Anchors) /\ old[n] \in Anchors
    BY <1>1, <2>3 DEF WindowType
  <2> DEFINE x == [old[n] EXCEPT !.file = machine.move]
             y == [x EXCEPT !.filePc = machine.pc]
             a1 == [old EXCEPT ![n] = x]
             a == [old EXCEPT ![n] = y]
  <2>5. x \in Anchors /\ x.pc = old[n].pc /\ x.move = old[n].move
    BY <1>1, <2>4 DEF Anchors
  <2>6. y \in Anchors /\ y.pc = old[n].pc /\ y.move = old[n].move /\ y.filePc = machine.pc
    <3> HIDE DEF x
    <3> QED BY <1>1, <2>5 DEF Anchors
  <2>7. g = [f EXCEPT !.win.anchors[n].file = machine.move, !.win.anchors[n].filePc = machine.pc]
    BY <1>3 DEF Saved
  <2>8. PICK h : h = [f EXCEPT !.win.anchors[n].file = machine.move]
    OBVIOUS
  <2>9. g = [h EXCEPT !.win.anchors[n].filePc = machine.pc]
    BY <2>7, <2>8
  <2>10. h = [f EXCEPT !.win.anchors = a1]
    BY <2>8
  <2> HIDE DEF g, x, y
  <2>11. /\ a1 \in Seq(Anchors) /\ DOMAIN a1 = DOMAIN old /\ a1[n] = x
         /\ \A i \in DOMAIN old : i # n => a1[i] = old[i]
    BY <2>3, <2>4, <2>5
  <2>12. /\ a \in Seq(Anchors) /\ DOMAIN a = DOMAIN old /\ Len(a) = Len(old) /\ a[n] = y
         /\ \A i \in DOMAIN old : i # n => a[i] = old[i]
    BY <2>3, <2>4, <2>6
  <2>13. [a1 EXCEPT ![n] = y] = a
    BY <2>3, <2>4, <2>5, <2>6
  <2> HIDE DEF a1, a
  <2>14. /\ h \in FrameType /\ h.lane = f.lane /\ h.ctl = f.ctl /\ h.ghost = f.ghost
         /\ h.model = f.model /\ h.win = [f.win EXCEPT !.anchors = a1]
    BY <1>1, <2>10, <2>11 DEF FrameType, WindowType
  <2>15. h.win \in WindowType /\ h.win.anchors = a1
    BY <1>1, <2>11, <2>14 DEF WindowType
  <2>16. g = [h EXCEPT !.win.anchors = [a1 EXCEPT ![n] = y]]
    BY <2>9, <2>11, <2>15 DEF y
  <2>17. g = [h EXCEPT !.win.anchors = a]
    BY <2>13, <2>16
  <2>18. /\ g \in FrameType /\ g.lane = f.lane /\ g.ctl = f.ctl /\ g.ghost = f.ghost
         /\ g.model = f.model /\ g.win = [h.win EXCEPT !.anchors = a]
    BY <2>12, <2>14, <2>15, <2>17 DEF FrameType, WindowType
  <2>19. /\ g.win.seen = f.win.seen /\ g.win.bases = f.win.bases /\ g.win.anchors = a
         /\ g.win.saving = f.win.saving /\ g.win.after = f.win.after /\ g.win.logging = f.win.logging
    BY <1>1, <2>14, <2>15, <2>18 DEF WindowType
  <2>20. \A i \in DOMAIN old : a[i].pc = old[i].pc /\ a[i].move = old[i].move
    BY <2>6, <2>12
  <2> HIDE DEF n, old
  <2>21. StopsAreRecorded(g, L, r)
    <3>1. /\ \A i, j \in DOMAIN old : i < j => old[i].move < old[j].move
          /\ old # <<>> =>
               /\ r.valid /\ old[Len(old)].move <= r.move
               /\ old[Len(old)].move = r.move => old[Len(old)].pc = r.pc
          /\ f.win.saving <= Len(old)
          /\ \A i \in DOMAIN L : L[i].kind = "save" => L[i].n \in DOMAIN old
      BY <2>1 DEF LineOK, StopsAreRecorded, old
    <3>2. \A i, j \in DOMAIN a : i < j => a[i].move < a[j].move
      BY <2>12, <2>20, <3>1
    <3>3. Len(old) \in DOMAIN old /\ old # <<>>
      BY <2>3, <2>4
    <3> QED BY <2>12, <2>19, <2>20, <3>1, <3>2, <3>3 DEF StopsAreRecorded
  <2>22. LineOK(g, L, machine, r)
    <3>1. EndsArmed(g, L, machine) /\ EndsCovered(g, L, machine) /\ ShotIsCleared(g, L, machine)
      BY <2>1, <2>18 DEF LineOK, EndsArmed, EndsCovered, ShotIsCleared
    <3>2. ReportsAreFresh(L, machine, r) /\ SaveIsComing(g, L) /\ BasesCome(g, L, machine, r)
      BY <2>1, <2>18, <2>19 DEF LineOK, SaveIsComing, BasesCome
    <3> QED BY <2>21, <3>1, <3>2 DEF LineOK
  <2>23. ASSUME user = "patient" PROVE PatienceOK(g, L, machine)
    <3>1. ContinueHasItsEnd(g, L, machine) /\ StepOutWaits(g, L, machine)
      BY <2>1, <2>18, <2>23 DEF PatienceOK, ContinueHasItsEnd, StepOutWaits
    <3>2. ViewsCome(g, L, machine) /\ EventsCome(g, L, machine) /\ SetupComes(g, L, machine)
      BY <2>1, <2>18, <2>19, <2>23 DEF PatienceOK, ViewsCome, EventsCome, SetupComes
    <3>3. /\ f.win.after = "none"
          /\ f.win.saving # 0 => Has(L, "save", f.win.saving)
          /\ \A i \in DOMAIN L : L[i].kind = "save" =>
               L[i].n \in DOMAIN old /\ old[L[i].n].pc = machine.pc /\ ~Holds(L, "step")
          /\ \A i \in DOMAIN old : old[i].file # 0 => old[i].filePc = old[i].pc
      BY <2>1, <2>23 DEF PatienceOK, SavesAreHere, LineOK, StopsAreRecorded, old
    <3>4. \A i \in DOMAIN L : L[i].kind = "save" => a[L[i].n].pc = machine.pc /\ ~Holds(L, "step")
      BY <2>20, <3>3
    <3>5. ASSUME NEW i \in DOMAIN a, a[i].file # 0 PROVE a[i].filePc = a[i].pc
      <4>1. CASE i = n
        BY <2>3, <2>6, <2>12, <2>23, <4>1
      <4>2. CASE i # n
        BY <2>12, <3>3, <3>5, <4>2
      <4> QED BY <4>1, <4>2
    <3>6. SavesAreHere(g, L, machine)
      BY <2>19, <3>3, <3>4, <3>5 DEF SavesAreHere
    <3> QED BY <3>1, <3>2, <3>6 DEF PatienceOK
  <2>24. Attached(g, r)
    BY <2>1, <2>18, <2>19 DEF Attached
  <2>25. Good(g, c, machine, r)
    BY <2>1, <2>18, <2>22, <2>23, <2>24 DEF Good, Body, PatienceOK, L
  <2> QED BY <1>1, <1>3, <2>18, <2>19, <2>25 DEF Carries, g
<1> QED BY <1>2, <1>3

(* The save that the window waits for is over.                              *)
LEMMA SaveOverGood ==
  ASSUME NEW f, NEW c \in Requests, c.kind = "save", NEW m, NEW r, Good(f, c, m, r)
  PROVE  LET g == [f EXCEPT !.win.saving = 0, !.win.after = "none"]
         IN  Good(g, c, m, r) /\ Carries(f, g) /\ g.win.saving = 0 /\ c.n # 0
<1> DEFINE g == [f EXCEPT !.win.saving = 0, !.win.after = "none"]
           L == Line(c, f.lane.queue)
<1>1. /\ f \in FrameType /\ f.win \in WindowType /\ f.lane.queue \in Seq(Requests)
      /\ f.ctl.stepEvent \in BOOLEAN /\ c \in Commands
  BY FrameIs, ControlIs DEF Good, Commands
<1>2. PICK h : h = [f EXCEPT !.win.saving = 0]
  OBVIOUS
<1>3. g = [h EXCEPT !.win.after = "none"]
  BY <1>2
<1> HIDE DEF g
<1>4. /\ h \in FrameType /\ h.lane = f.lane /\ h.ctl = f.ctl /\ h.ghost = f.ghost
      /\ h.model = f.model /\ h.win = [f.win EXCEPT !.saving = 0]
  BY <1>1, <1>2 DEF FrameType, WindowType
<1>5. h.win \in WindowType
  BY <1>4, FrameIs
<1>6. /\ g \in FrameType /\ g.lane = f.lane /\ g.ctl = f.ctl /\ g.ghost = f.ghost
      /\ g.model = f.model /\ g.win = [h.win EXCEPT !.after = "none"]
  BY <1>3, <1>4, <1>5 DEF FrameType, WindowType
<1>7. /\ g.win.seen = f.win.seen /\ g.win.bases = f.win.bases /\ g.win.anchors = f.win.anchors
      /\ g.win.saving = 0 /\ g.win.after = "none" /\ g.win.logging = f.win.logging
  BY <1>1, <1>4, <1>5, <1>6 DEF WindowType
<1>8. LineOK(f, L, m, r) /\ PatienceOK(f, L, m) /\ Attached(f, r) /\ f.lane.stopped
  BY DEF Good, Body
<1>9. 0 \in DOMAIN L /\ L[0] = c
  BY <1>1, LineIs
<1>10. f.win.anchors \in Seq(Anchors)
  BY <1>1 DEF WindowType
<1> HIDE DEF L
<1>11. c.n \in DOMAIN f.win.anchors /\ c.n # 0 /\ 0 <= Len(f.win.anchors)
  <2>1. c.n \in DOMAIN f.win.anchors
    BY <1>8, <1>9 DEF LineOK, StopsAreRecorded
  <2> QED BY <1>10, <2>1
<1>12. LineOK(g, L, m, r)
  <2>1. EndsArmed(g, L, m) /\ EndsCovered(g, L, m) /\ ShotIsCleared(g, L, m)
    BY <1>6, <1>8 DEF LineOK, EndsArmed, EndsCovered, ShotIsCleared
  <2>2. ReportsAreFresh(L, m, r) /\ SaveIsComing(g, L) /\ BasesCome(g, L, m, r)
    BY <1>6, <1>7, <1>8 DEF LineOK, SaveIsComing, BasesCome
  <2>3. StopsAreRecorded(g, L, r)
    BY <1>7, <1>8, <1>11 DEF LineOK, StopsAreRecorded
  <2> QED BY <2>1, <2>2, <2>3 DEF LineOK
<1>13. ASSUME user = "patient" PROVE PatienceOK(g, L, m)
  <2>1. ContinueHasItsEnd(g, L, m) /\ StepOutWaits(g, L, m) /\ SavesAreHere(g, L, m)
    BY <1>6, <1>7, <1>8, <1>13 DEF PatienceOK, ContinueHasItsEnd, StepOutWaits, SavesAreHere
  <2>2. ViewsCome(g, L, m) /\ EventsCome(g, L, m) /\ SetupComes(g, L, m)
    BY <1>6, <1>7, <1>8, <1>13 DEF PatienceOK, ViewsCome, EventsCome, SetupComes
  <2> QED BY <2>1, <2>2 DEF PatienceOK
<1>14. Attached(g, r)
  BY <1>6, <1>7, <1>8 DEF Attached
<1>15. Good(g, c, m, r)
  BY <1>6, <1>8, <1>12, <1>13, <1>14 DEF Good, Body, PatienceOK, L
<1> QED BY <1>1, <1>6, <1>7, <1>11, <1>15 DEF Carries, g

(* The same when the command in flight is done with.                        *)
Passes(f, g) ==
  /\ g.lane.stopped = f.lane.stopped /\ g.ctl.attached = f.ctl.attached
  /\ g.ctl.stopEvent = f.ctl.stopEvent /\ (f.ctl.stepEvent => g.ctl.stepEvent)
  /\ g.win.seen = f.win.seen /\ g.win.bases = f.win.bases /\ g.model = f.model

(* A request made when the command in flight is done with.                  *)
LEMMA PassesOn ==
  ASSUME NEW f, NEW g, NEW h, Same(f, g), Carries(g, h)
  PROVE  Passes(f, h) /\ h.lane.current = g.lane.current
BY DEF Same, Carries, Passes

(* What waited for the statesave is done when it is over.                   *)
LEMMA OnFinishedGood ==
  ASSUME machine \in MachineType,
         NEW f, NEW c \in Requests, NEW m, NEW r, Good(f, c, m, r),
         c.kind = "save" => m = machine,
         c.kind # "save" \/ c.n # f.win.saving => Done(f, c, m, r)
  PROVE  LET g == OnFinished([f EXCEPT !.lane.current = NoCommand], c)
         IN  Good(g, NoCommand, m, r) /\ Passes(f, g) /\ g.lane.current = NoCommand
<1> DEFINE p == [f EXCEPT !.lane.current = NoCommand]
           g == OnFinished(p, c)
           e == [f EXCEPT !.win.saving = 0, !.win.after = "none"]
           d == [e EXCEPT !.lane.current = NoCommand]
<1>1. /\ f \in FrameType /\ c \in Commands /\ f.win \in WindowType /\ f.lane \in LaneType
      /\ f.ctl.stepEvent \in BOOLEAN
  BY FrameIs, ControlIs DEF Good, Commands
<1>2. p.win = f.win /\ p = [f EXCEPT !.lane = [f.lane EXCEPT !.current = NoCommand]]
  BY <1>1 DEF FrameType
<1>3. CASE c.kind # "save" \/ c.n # f.win.saving
  <2>1. g = p
    BY <1>2, <1>3 DEF OnFinished
  <2>2. /\ Good(p, NoCommand, m, r) /\ Same(f, p) /\ p.lane.current = NoCommand
    BY <1>1, <1>3, DropGood
  <2> HIDE DEF g, p
  <2> QED BY <1>1, <2>1, <2>2 DEF Passes, Same, g, p
<1>4. CASE c.kind = "save" /\ c.n = f.win.saving
  <2>1. Good(e, c, m, r) /\ Carries(f, e) /\ e.win.saving = 0 /\ c.n # 0
    BY <1>4, SaveOverGood
  <2>2. Done(e, c, m, r)
    <3>1. ~c.emits /\ c.kind = "save"
      BY <1>4 DEF Requests
    <3> HIDE DEF e
    <3> QED BY <2>1, <3>1 DEF Done
  <2>3. /\ Good(d, NoCommand, m, r) /\ Same(e, d) /\ d.lane.current = NoCommand
    <3> HIDE DEF e
    <3> QED BY <1>1, <2>1, <2>2, DropGood
  <2> DEFINE s == [p EXCEPT !.win.saving = 0, !.win.after = "none"]
  <2>4. s = d
    <3> DEFINE l == [f.lane EXCEPT !.current = NoCommand]
               w == [f.win EXCEPT !.saving = 0, !.after = "none"]
    <3>1. f = [lane |-> f.lane, ctl |-> f.ctl, win |-> f.win, ghost |-> f.ghost, model |-> f.model]
      BY <1>1, FrameIs
    <3>2. e = [f EXCEPT !.win = w]
      OBVIOUS
    <3>3. s = [p EXCEPT !.win = [p.win EXCEPT !.saving = 0, !.after = "none"]]
      OBVIOUS
    <3>4. s = [p EXCEPT !.win = w]
      BY <1>2, <3>3
    <3> HIDE DEF w, e, s
    <3>5. e.lane = f.lane
      BY <3>1, <3>2
    <3>6. d = [e EXCEPT !.lane = [e.lane EXCEPT !.current = NoCommand]]
      OBVIOUS
    <3>7. d = [e EXCEPT !.lane = l]
      BY <3>5, <3>6
    <3> HIDE DEF d
    <3>8. p = [f EXCEPT !.lane = l]
      BY <1>2
    <3> HIDE DEF p, l
    <3> QED BY <3>1, <3>2, <3>4, <3>7, <3>8
  <2>5. Passes(f, d)
    BY <2>1, <2>3 DEF Carries, Same, Passes
  <2> DEFINE after == p.win.after
  <2>6. /\ after = "step" => g = Step(s)
        /\ after = "stepOut" => g = StepOut(s)
        /\ after = "continue" => g = Go(s)
        /\ after = "none" => g = s
    BY <1>2, <1>4 DEF OnFinished
  <2>7. after \in {"none", "step", "stepOut", "continue"} /\ (user = "patient" => after = "none")
    <3>1. user = "patient" => f.win.after = "none"
      BY DEF Good, Body, PatienceOK, SavesAreHere
    <3> QED BY <1>1, <1>2, <3>1 DEF WindowType
  <2>8. m = machine /\ NoCommand \in Commands
    BY <1>4 DEF Commands
  <2> HIDE DEF g, s, d, p, e, after
  <2>9. CASE after = "none"
    BY <2>3, <2>4, <2>5, <2>6, <2>9 DEF g, p
  <2>10. CASE after # "none"
    <3>1. Calm(d, NoCommand)
      BY <2>7, <2>10 DEF Calm
    <3>2. Good(Step(d), NoCommand, m, r) /\ Carries(d, Step(d))
      BY <2>3, <2>8, <3>1, StepGood
    <3>3. Good(StepOut(d), NoCommand, m, r) /\ Carries(d, StepOut(d))
      BY <2>3, <2>8, <3>1, StepOutGood
    <3>4. Good(Go(d), NoCommand, m, r) /\ Carries(d, Go(d))
      BY <2>3, <2>8, <3>1, GoGood
    <3>5. g \in {Step(d), StepOut(d), Go(d)}
      BY <2>4, <2>6, <2>7, <2>10
    <3>6. Good(g, NoCommand, m, r) /\ Carries(d, g)
      BY <3>2, <3>3, <3>4, <3>5
    <3>7. Passes(f, g) /\ g.lane.current = NoCommand
      BY <2>3, <2>5, <3>6 DEF Carries, Passes
    <3> QED BY <3>6, <3>7 DEF g, p
  <2> QED BY <2>9, <2>10
<1> QED BY <1>3, <1>4

(* An answer, with everything the window makes of it.                       *)
LEMMA CompleteGood ==
  ASSUME machine \in MachineType, read \in States,
         NEW f, NEW c \in Requests, Good(f, c, machine, read),
         NEW pc \in Pcs, NEW plausible \in BOOLEAN
  PROVE  LET m == Executed(machine, c, pc)
             x == Parsed(read, c)
             h == Reported(Saved(f, c), c, plausible)
             g == OnFinished([h EXCEPT !.lane.current = NoCommand], c)
         IN  /\ Good(g, NoCommand, m, x) /\ g.lane.current = NoCommand
             /\ g.ctl.attached = f.ctl.attached /\ g.model = f.model
             /\ f.win.bases => g.win.bases
             /\ (f.ctl.stopEvent /\ ~g.ctl.stopEvent) \/ (f.ctl.stepEvent /\ ~g.ctl.stepEvent) =>
                  /\ c.emits /\ g.win.seen.valid /\ g.win.seen.move = machine.move
<1> DEFINE m == Executed(machine, c, pc)
           x == Parsed(read, c)
           s == Saved(f, c)
           h == Reported(s, c, plausible)
           g == OnFinished([h EXCEPT !.lane.current = NoCommand], c)
<1>1. Good(f, c, m, x) /\ (c.emits => ReportIs(c, m, x) /\ m = machine)
  BY ExecutedGood
<1>2. /\ c.kind = "arm" => m.bp = c.n
      /\ c.kind = "watch" => m.wp = c.n
      /\ c.kind = "clear" => m.shots = {}
      /\ c.kind = "once" => m.shots = machine.shots \union {c.n}
      /\ c.kind \in {"coverage", "symbols", "turbo", "replaylog"} => c.kind \in m.done
      /\ c.kind = "profileOn" => m.profiling
      /\ c.kind = "uae" => m.engine = "uae"
      /\ c.kind = "step" => m.by = "step"
      /\ c.kind # "step" => m.move = machine.move
      /\ m.loaded = machine.loaded
      /\ c.kind \in {"regs", "basepage", "disasm", "dump", "save", "profileSave"} => m = machine
  BY ExecutedIs
<1>3. /\ c.kind = "regs" => x.valid /\ x.move = machine.move
      /\ c.kind = "basepage" /\ machine.loaded => x.bases
      /\ x \in States
  BY ParsedIs
<1>4. c.kind = "save" => m = machine
  BY <1>2
<1>5. /\ c.kind \in Kinds /\ (c.emits => c.kind \in {"regs", "basepage", "disasm"})
      /\ (c.kind = "disasm" => c.emits) /\ c \in Commands
      /\ f.ctl.stepEvent \in BOOLEAN /\ f.ctl.stopEvent \in BOOLEAN
  BY ControlIs DEF Requests, Good, Commands
<1>6. /\ c.kind \notin {"save", "dump", "profileSave", "disasm"} /\ (c.emits /\ x.bases => h.win.bases) =>
           Done(h, c, m, x)
  <2> HIDE DEF m, x, h
  <2> QED BY <1>2, <1>3 DEF Done
<1>7. CASE c.emits
  <2>1. s = f
    BY <1>5, <1>7 DEF Saved
  <2>2. h = OnStateUpdated(s, Parsed(read, c))
    <3>1. c.kind # "dump" /\ c.kind # "profileSave"
      BY <1>5, <1>7
    <3> HIDE DEF s
    <3> QED BY <1>7, <3>1 DEF Reported
  <2>3. h = OnStateUpdated(f, x)
    BY <2>1, <2>2
  <2> HIDE DEF s, h, m, x, g
  <2>4. /\ Good(h, c, m, x) /\ Alike(f, h) /\ h.win.seen = x
        /\ f.ctl.stopEvent /\ ~h.ctl.stopEvent => x.valid
        /\ f.ctl.stepEvent /\ ~h.ctl.stepEvent => x.valid
        /\ x.valid /\ user = "patient" => ~h.ctl.stopEvent /\ ~h.ctl.stepEvent
        /\ x.bases => h.win.bases
    BY <1>1, <1>7, <2>3, OnStateUpdatedGood
  <2>5. /\ x.valid => x.move = m.move
        /\ ~x.valid => c.kind = "basepage"
        /\ m = machine
    BY <1>1, <1>7 DEF ReportIs
  <2>6. Done(h, c, m, x)
    <3>1. CASE c.kind # "disasm"
      BY <1>5, <1>6, <1>7, <2>4, <3>1
    <3>2. CASE c.kind = "disasm"
      BY <2>4, <2>5, <3>2 DEF Done
    <3> QED BY <3>1, <3>2
  <2>7. Good(g, NoCommand, m, x) /\ Passes(h, g) /\ g.lane.current = NoCommand
    BY <1>4, <2>4, <2>6, OnFinishedGood DEF g
  <2>8. /\ g.ctl.attached = f.ctl.attached /\ g.model = f.model /\ (f.win.bases => g.win.bases)
    BY <2>4, <2>7 DEF Alike, Passes
  <2>9. (f.ctl.stopEvent /\ ~g.ctl.stopEvent) \/ (f.ctl.stepEvent /\ ~g.ctl.stepEvent) =>
          /\ c.emits /\ g.win.seen.valid /\ g.win.seen.move = machine.move
    BY <1>7, <2>4, <2>5, <2>7 DEF Passes
  <2> QED BY <2>7, <2>8, <2>9 DEF g, h, s, m, x
<1>8. CASE ~c.emits
  <2>1. Good(s, c, m, x) /\ Carries(f, s) /\ s.win.saving = f.win.saving
    <3>1. CASE c.kind = "save"
      <4>1. m = machine /\ x = read
        BY <1>2, <3>1, ParsedIs
      <4> HIDE DEF m, x, s, h, g
      <4> QED BY <4>1, SavedGood DEF s
    <3>2. CASE c.kind # "save"
      <4>1. s = f
        BY <3>2 DEF Saved
      <4> HIDE DEF m, x, s, h, g
      <4> QED BY <1>1, <1>5, <4>1 DEF Carries
    <3> QED BY <3>1, <3>2
  <2>2. /\ c.kind = "dump" => h = OnStackDump(s, plausible)
        /\ c.kind = "profileSave" => h = [s EXCEPT !.ctl.profileSave = FALSE]
        /\ c.kind \notin {"dump", "profileSave"} => h = s
    <3> HIDE DEF s
    <3> QED BY <1>8 DEF Reported
  <2> HIDE DEF m, x, s, h, g
  <2>3. /\ Good(h, c, m, x) /\ Carries(s, h)
        /\ c.kind = "dump" => ~h.ctl.stepOut
        /\ c.kind = "profileSave" => ~h.ctl.profileSave
    <3>1. CASE c.kind = "dump"
      <4>1. Good(OnStackDump(s, plausible), c, m, x) /\ Carries(s, OnStackDump(s, plausible))
            /\ ~OnStackDump(s, plausible).ctl.stepOut
        BY <2>1, <3>1, OnStackDumpGood
      <4> QED BY <2>2, <3>1, <4>1
    <3>2. CASE c.kind = "profileSave"
      <4> DEFINE e == [s EXCEPT !.ctl.profileSave = FALSE]
      <4>1. Good(e, c, m, x) /\ Carries(s, e) /\ ~e.ctl.profileSave
        BY <2>1, ProfileSavedGood
      <4>2. h = e
        BY <2>2, <3>2
      <4> HIDE DEF e
      <4> QED BY <3>2, <4>1, <4>2
    <3>3. CASE c.kind \notin {"dump", "profileSave"}
      <4>1. h = s
        BY <2>2, <3>3
      <4>2. h.ctl.stepEvent \in BOOLEAN
        BY <2>1, <4>1, ControlIs DEF Good
      <4> QED BY <2>1, <3>3, <4>1, <4>2 DEF Carries
    <3> QED BY <3>1, <3>2, <3>3
  <2>4. ASSUME c.kind # "save" \/ c.n # h.win.saving PROVE Done(h, c, m, x)
    <3>1. CASE c.kind \in {"save", "dump", "profileSave"}
      BY <1>8, <2>3, <2>4, <3>1 DEF Done
    <3>2. CASE c.kind \notin {"save", "dump", "profileSave"}
      BY <1>5, <1>6, <1>8, <3>2
    <3> QED BY <3>1, <3>2
  <2>5. Good(g, NoCommand, m, x) /\ Passes(h, g) /\ g.lane.current = NoCommand
    BY <1>4, <2>3, <2>4, OnFinishedGood DEF g
  <2>6. /\ g.ctl.attached = f.ctl.attached /\ g.model = f.model /\ g.win.bases = f.win.bases
        /\ g.ctl.stopEvent = f.ctl.stopEvent /\ (f.ctl.stepEvent => g.ctl.stepEvent)
    BY <2>1, <2>3, <2>5 DEF Carries, Passes
  <2> QED BY <2>5, <2>6 DEF g, h, s, m, x
<1> QED BY <1>5, <1>7, <1>8

(* Two batches put one after the other are one.                             *)
LEMMA GrownTwice ==
  ASSUME NEW L, NEW M, NEW N, NEW a \in Seq(Requests), NEW b \in Seq(Requests),
         Grown(L, M, a), Grown(M, N, b)
  PROVE  Grown(L, N, a \o b)
<1> DEFINE s == a \o b
<1>1. PICK n, k \in Nat :
        /\ DOMAIN L = 0..n /\ DOMAIN M = 0..(n + k) /\ DOMAIN a = 1..k
        /\ \A i \in 0..n : M[i] = L[i]
        /\ \A i \in 1..k : M[n + i] = a[i]
  BY DEF Grown
<1>2. PICK x, y \in Nat :
        /\ DOMAIN M = 0..x /\ DOMAIN N = 0..(x + y) /\ DOMAIN b = 1..y
        /\ \A i \in 0..x : N[i] = M[i]
        /\ \A i \in 1..y : N[x + i] = b[i]
  BY DEF Grown
<1>3. x = n + k
  <2>1. x \in 0..x /\ n + k \in 0..(n + k) /\ 0..x = 0..(n + k)
    BY <1>1, <1>2
  <2>2. x \in 0..(n + k) /\ n + k \in 0..x
    BY <2>1
  <2> QED BY <2>2
<1>4. Len(a) = k /\ Len(b) = y
  BY <1>1, <1>2
<1>5. /\ DOMAIN s = 1..(k + y)
      /\ \A i \in 1..k : s[i] = a[i]
      /\ \A i \in 1..y : s[k + i] = b[i]
  <2>1. /\ s \in Seq(Requests) /\ Len(s) = Len(a) + Len(b)
        /\ \A i \in 1 .. Len(a) : s[i] = a[i]
        /\ \A i \in 1 .. Len(b) : s[Len(a) + i] = b[i]
    BY ConcatIs
  <2> HIDE DEF s
  <2>2. DOMAIN s = 1..Len(s) /\ Len(s) = k + y
    BY <1>4, <2>1
  <2> QED BY <1>4, <2>1, <2>2
<1> HIDE DEF s
<1>6. DOMAIN L = 0..n /\ DOMAIN N = 0..(n + (k + y)) /\ k + y \in Nat
  BY <1>1, <1>2, <1>3
<1>7. \A i \in 0..n : N[i] = L[i]
  BY <1>1, <1>2, <1>3
<1>8. ASSUME NEW i \in 1..(k + y) PROVE N[n + i] = s[i]
  <2>1. CASE i <= k
    BY <1>1, <1>2, <1>3, <1>5, <2>1
  <2>2. CASE i > k
    <3>1. PICK j \in 1..y : i = k + j
      <4>1. i - k \in 1..y /\ i = k + (i - k)
        BY <2>2
      <4> QED BY <4>1
    <3>2. n + i = x + j
      BY <1>3, <3>1
    <3> QED BY <1>2, <1>5, <3>1, <3>2
  <2> QED BY <2>1, <2>2
<1> QED BY <1>5, <1>6, <1>7, <1>8 DEF Grown, s

(* What is set up once.                                                     *)
SetupBatch(turbo, coverage) ==
  (IF turbo THEN <<>> ELSE <<Command("turbo", 0)>>)
    \o (IF coverage THEN <<>> ELSE <<Command("coverage", 0)>>)

(* The setup asks for what is not set up.                                   *)
LEMMA SetupBatchIs ==
  ASSUME NEW turbo \in BOOLEAN, NEW coverage \in BOOLEAN
  PROVE  LET s == SetupBatch(turbo, coverage)
         IN  /\ s \in Seq(Requests)
             /\ \A i \in DOMAIN s : s[i].kind \in {"turbo", "coverage"} /\ ~s[i].emits
             /\ ~turbo => \E i \in DOMAIN s : s[i].kind = "turbo"
             /\ ~coverage => \E i \in DOMAIN s : s[i].kind = "coverage"
<1> DEFINE t == Command("turbo", 0)
           o == Command("coverage", 0)
           a == IF turbo THEN <<>> ELSE <<t>>
           b == IF coverage THEN <<>> ELSE <<o>>
           s == a \o b
<1>1. /\ t \in Requests /\ t.kind = "turbo" /\ ~t.emits
      /\ o \in Requests /\ o.kind = "coverage" /\ ~o.emits
  BY CommandIs DEF Kinds
<1> HIDE DEF t, o
<1>2. /\ a \in Seq(Requests) /\ b \in Seq(Requests)
      /\ \A i \in DOMAIN a : a[i] = t
      /\ \A i \in DOMAIN b : b[i] = o
      /\ ~turbo => 1 \in DOMAIN a
      /\ ~coverage => 1 \in DOMAIN b
  <2>1. /\ a \in Seq(Requests) /\ (\A i \in DOMAIN a : a[i] = t) /\ (~turbo => 1 \in DOMAIN a)
    <3>1. CASE turbo
      BY <3>1
    <3>2. CASE ~turbo
      BY <1>1, <3>2
    <3> QED BY <3>1, <3>2
  <2>2. /\ b \in Seq(Requests) /\ (\A i \in DOMAIN b : b[i] = o) /\ (~coverage => 1 \in DOMAIN b)
    <3>1. CASE coverage
      BY <3>1
    <3>2. CASE ~coverage
      BY <1>1, <3>2
    <3> QED BY <3>1, <3>2
  <2> HIDE DEF a, b
  <2> QED BY <2>1, <2>2
<1>3. SetupBatch(turbo, coverage) = s
  BY DEF SetupBatch, t, o
<1> HIDE DEF a, b
<1>4. /\ s \in Seq(Requests) /\ Len(s) = Len(a) + Len(b)
      /\ \A i \in 1 .. Len(a) : s[i] = a[i]
      /\ \A i \in 1 .. Len(b) : s[Len(a) + i] = b[i]
      /\ Len(a) \in Nat /\ DOMAIN a = 1 .. Len(a)
      /\ Len(b) \in Nat /\ DOMAIN b = 1 .. Len(b)
      /\ DOMAIN s = 1 .. Len(a) + Len(b)
  BY <1>2, ConcatIs
<1> HIDE DEF s
<1>5. \A i \in DOMAIN s : s[i] = t \/ s[i] = o
  <2> SUFFICES ASSUME NEW i \in DOMAIN s PROVE s[i] = t \/ s[i] = o
    OBVIOUS
  <2>1. CASE i \in 1..Len(a)
    BY <1>2, <1>4, <2>1
  <2>2. CASE i \notin 1..Len(a)
    <3>1. i - Len(a) \in 1..Len(b) /\ i = Len(a) + (i - Len(a))
      BY <1>4, <2>2
    <3> QED BY <1>2, <1>4, <3>1
  <2> QED BY <2>1, <2>2
<1>6. ~turbo => \E i \in DOMAIN s : s[i] = t
  <2> SUFFICES ASSUME ~turbo PROVE \E i \in DOMAIN s : s[i] = t
    OBVIOUS
  <2>1. 1 \in DOMAIN s /\ s[1] = t
    BY <1>2, <1>4
  <2> QED BY <2>1
<1>7. ~coverage => \E i \in DOMAIN s : s[i] = o
  <2> SUFFICES ASSUME ~coverage PROVE \E i \in DOMAIN s : s[i] = o
    OBVIOUS
  <2>1. Len(a) + 1 \in DOMAIN s /\ s[Len(a) + 1] = o
    BY <1>2, <1>4
  <2> QED BY <2>1
<1> QED BY <1>1, <1>3, <1>4, <1>5, <1>6, <1>7

(* What an attach is made of.                                               *)
LEMMA AttachIs ==
  /\ AttachBatch \in Seq(Requests) /\ DOMAIN AttachBatch = 1..4
  /\ AttachBatch[1].kind = "symbols" /\ ~AttachBatch[1].emits
  /\ AttachBatch[2].kind = "basepage" /\ AttachBatch[2].emits
  /\ AttachBatch[3].kind = "regs" /\ AttachBatch[3].emits
  /\ AttachBatch[4].kind = "disasm" /\ AttachBatch[4].emits
<1> DEFINE s == Command("symbols", 0)
           p == StateRead("basepage")
           q == StateRead("regs")
           d == StateRead("disasm")
           b == <<s, p, q, d>>
<1>1. /\ s \in Requests /\ s.kind = "symbols" /\ ~s.emits
      /\ p \in Requests /\ p.kind = "basepage" /\ p.emits
      /\ q \in Requests /\ q.kind = "regs" /\ q.emits
      /\ d \in Requests /\ d.kind = "disasm" /\ d.emits
  BY CommandIs, ReadIs DEF Kinds
<1> HIDE DEF s, p, q, d
<1>2. b \in Seq(Requests) /\ DOMAIN b = 1..4 /\ b[1] = s /\ b[2] = p /\ b[3] = q /\ b[4] = d
  BY <1>1
<1>3. AttachBatch = b
  BY DEF AttachBatch, s, p, q, d
<1> HIDE DEF b
<1> QED BY <1>1, <1>2, <1>3

(* A stop, the reads it asks for and what is set up at it.                  *)
LEMMA StoppedBody ==
  ASSUME NEW f \in FrameType, NEW L, NEW M, NEW b, NEW m, NEW x, NEW r, NEW h,
         r.move \in Nat, x.move \in Nat,
         LineOK(f, L, m, r), PatienceOK(f, L, m), Grown(L, M, b), IsLine(L),
         \A i \in DOMAIN L : L[i].kind \in {"none", "clear", "arm", "watch"} /\ ~L[i].emits,
         r.valid => r.move < x.move,
         x.bp = m.bp /\ x.wp = m.wp /\ x.shots \subseteq m.shots /\ x.done = m.done,
         x.engine = m.engine,
         h.win = f.win /\ h.model = f.model /\ ~h.lane.continuing,
         h.ctl.armed = f.ctl.armed /\ h.ctl.guided = f.ctl.guided
           /\ h.ctl.stepOut = f.ctl.stepOut /\ h.ctl.stepEvent = f.ctl.stepEvent
           /\ h.ctl.profileSave = f.ctl.profileSave,
         \A i \in DOMAIN b :
           b[i].kind \in {"turbo", "coverage", "symbols", "regs", "basepage", "disasm"},
         \A i \in DOMAIN b : b[i].emits =>
           \/ \E j \in DOMAIN b : j <= i /\ b[j].kind = "regs"
           \/ ~r.valid /\ b[i].kind = "basepage" /\ \A j \in DOMAIN b : j < i => b[j].kind # "regs",
         NEW p \in DOMAIN b, b[p].kind = "basepage",
         NEW z \in DOMAIN b, b[z].kind = "disasm", b[z].emits, p <= z,
         f.ctl.coverage \/ \E i \in DOMAIN b : b[i].kind = "coverage",
         f.ctl.turbo \/ \E i \in DOMAIN b : b[i].kind = "turbo",
         f.ctl.attached \/ \E i \in DOMAIN b : b[i].kind = "symbols"
  PROVE  Body(h, M, x, r)
<1>1. EndsArmed(h, M, x)
  <2> SUFFICES ASSUME f.ctl.armed
               PROVE  /\ Ends(M, {"clear", "arm"}, "arm", f.model, m.bp)
                      /\ Ends(M, {"clear", "watch"}, "watch", f.model, m.wp)
    BY DEF EndsArmed
  <2>1. /\ Ends(L, {"clear", "arm"}, "arm", f.model, m.bp)
        /\ Ends(L, {"clear", "watch"}, "watch", f.model, m.wp)
    BY DEF LineOK, EndsArmed
  <2>2. \A i \in DOMAIN b : b[i].kind \notin {"clear", "arm"} /\ b[i].kind \notin {"clear", "watch"}
    OBVIOUS
  <2> QED BY <2>1, <2>2, EndsGrow
<1>2. EndsCovered(h, M, x)
  <2>1. CASE f.ctl.coverage
    BY <2>1, HoldsGrow DEF LineOK, EndsCovered
  <2>2. CASE \E i \in DOMAIN b : b[i].kind = "coverage"
    BY <2>2, PutIsHeld DEF EndsCovered
  <2> QED BY <2>1, <2>2
<1>3. ShotIsCleared(h, M, x)
  <2>1. ShotIsCleared(f, L, x)
    BY DEF LineOK, ShotIsCleared
  <2>2. \A i \in DOMAIN b : b[i].kind # "once"
    OBVIOUS
  <2>3. ShotIsCleared(f, M, x)
    BY <2>1, <2>2, ShotGrows
  <2> QED BY <2>3 DEF ShotIsCleared
<1>4. ReportsAreFresh(M, x, r)
  <2>1. PICK n, k \in Nat : /\ DOMAIN L = 0..n /\ DOMAIN M = 0..(n + k) /\ DOMAIN b = 1..k
                            /\ \A i \in 0..n : M[i] = L[i]
                            /\ \A i \in 1..k : M[n + i] = b[i]
    BY DEF Grown
  <2>2. \A i \in DOMAIN M : \/ i \in DOMAIN L /\ M[i] = L[i]
                            \/ \E y \in DOMAIN b : i = n + y /\ M[i] = b[y]
    <3> SUFFICES ASSUME NEW i \in DOMAIN M, i \notin DOMAIN L
                 PROVE  \E y \in DOMAIN b : i = n + y /\ M[i] = b[y]
      BY <2>1
    <3>1. i - n \in DOMAIN b /\ i = n + (i - n)
      BY <2>1
    <3>2. M[n + (i - n)] = b[i - n]
      BY <2>1, <3>1
    <3> QED BY <3>1, <3>2
  <2>3. ASSUME NEW i \in DOMAIN M, M[i].emits
        PROVE  ReadFirst(M, i) \/ NotRead(M, i, r)
    <3>1. PICK y \in DOMAIN b : i = n + y /\ M[i] = b[y]
      BY <2>2, <2>3
    <3>2. \A j \in DOMAIN M : M[j].kind # "step"
      BY <2>2
    <3>3. CASE \E j \in DOMAIN b : j <= y /\ b[j].kind = "regs"
      <4>1. PICK j \in DOMAIN b : j <= y /\ b[j].kind = "regs"
        BY <3>3
      <4>2. n + j \in DOMAIN M /\ n + j <= i /\ M[n + j] = b[j]
        BY <2>1, <3>1, <4>1
      <4> QED BY <3>2, <4>1, <4>2 DEF ReadFirst
    <3>4. CASE ~r.valid /\ b[y].kind = "basepage" /\ \A j \in DOMAIN b : j < y => b[j].kind # "regs"
      <4>1. ASSUME NEW j \in DOMAIN M, j < i PROVE M[j].kind # "regs"
        <5>1. CASE j \in DOMAIN L /\ M[j] = L[j]
          BY <5>1
        <5>2. CASE \E v \in DOMAIN b : j = n + v /\ M[j] = b[v]
          <6>1. PICK v \in DOMAIN b : j = n + v /\ M[j] = b[v]
            BY <5>2
          <6>2. v < y
            BY <2>1, <3>1, <4>1, <6>1
          <6> QED BY <3>4, <6>1, <6>2
        <5> QED BY <2>2, <5>1, <5>2
      <4> QED BY <3>1, <3>4, <4>1 DEF NotRead
    <3> QED BY <2>3, <3>1, <3>3, <3>4
  <2>4. r.valid => r.move <= x.move /\ (r.move = x.move => r.pc = x.pc)
    OBVIOUS
  <2> QED BY <2>3, <2>4 DEF ReportsAreFresh
<1>5. ~f.ctl.profileSave
  BY DEF LineOK, SaveIsComing, Holds
<1>6. SaveIsComing(h, M)
  BY <1>5 DEF SaveIsComing
<1>7. BasesCome(h, M, x, r)
  BY BasesRead
<1>8. StopsAreRecorded(h, M, r)
  <2>1. \A i \in DOMAIN b : b[i].kind # "save"
    OBVIOUS
  <2>2. StopsAreRecorded(f, M, r)
    BY <2>1, StopsGrow DEF LineOK
  <2> QED BY <2>2 DEF StopsAreRecorded
<1>9. ASSUME user = "patient" PROVE PatienceOK(h, M, x)
  <2>1. ~f.ctl.stepOut /\ ~f.ctl.stepEvent
    BY <1>9 DEF PatienceOK, StepOutWaits, EventsCome, Holds
  <2>2. ContinueHasItsEnd(h, M, x) /\ StepOutWaits(h, M, x)
    BY <2>1 DEF ContinueHasItsEnd, StepOutWaits
  <2>3. SavesAreHere(h, M, x)
    <3>1. SavesAreHere(f, L, x)
      BY <1>9 DEF PatienceOK, SavesAreHere
    <3>2. \A i \in DOMAIN b : b[i].kind # "save" /\ b[i].kind # "step"
      OBVIOUS
    <3>3. SavesAreHere(f, M, x)
      BY <3>1, <3>2, SavesGrow
    <3> QED BY <3>3 DEF SavesAreHere
  <2>4. Holds(M, "disasm")
    BY PutIsHeld
  <2>5. ViewsCome(h, M, x)
    <3>1. \A i \in DOMAIN M : M[i].kind # "step"
      BY GrownIs
    <3> QED BY <2>4, <3>1 DEF ViewsCome
  <2>6. EventsCome(h, M, x)
    BY <2>1, <2>4 DEF EventsCome
  <2>7. SetupComes(h, M, x)
    <3>1. SetupComes(f, L, m)
      BY <1>9 DEF PatienceOK
    <3>2. "symbols" \in m.done \/ Holds(M, "symbols")
      BY <3>1, HoldsGrow, PutIsHeld DEF SetupComes
    <3>3. "turbo" \in m.done \/ Holds(M, "turbo")
      BY <3>1, HoldsGrow, PutIsHeld DEF SetupComes
    <3>4. f.win.logging => "replaylog" \in m.done \/ Holds(M, "replaylog")
      BY <3>1, HoldsGrow DEF SetupComes
    <3>5. \A i \in DOMAIN M : M[i].kind # "ext" /\ M[i].kind # "uae"
      BY GrownIs
    <3>6. m.engine = "uae"
      BY <3>1 DEF SetupComes
    <3> QED BY <3>2, <3>3, <3>4, <3>5, <3>6 DEF SetupComes, Holds
  <2> QED BY <2>2, <2>3, <2>5, <2>6, <2>7 DEF PatienceOK
<1> QED BY <1>1, <1>2, <1>3, <1>4, <1>6, <1>7, <1>8, <1>9 DEF Body, LineOK, PatienceOK

(* What a stop asks for: the setup, and what is read.                       *)
StopBatch(turbo, coverage, attached) ==
  SetupBatch(turbo, coverage) \o (IF attached THEN RefreshBatch ELSE AttachBatch)

IsStopBatch(b, turbo, coverage, attached) ==
  /\ b \in Seq(Requests)
  /\ \A i \in DOMAIN b :
       b[i].kind \in {"turbo", "coverage", "symbols", "regs", "basepage", "disasm"}
  /\ \A i \in DOMAIN b : b[i].emits =>
       \/ \E j \in DOMAIN b : j <= i /\ b[j].kind = "regs"
       \/ ~attached /\ b[i].kind = "basepage" /\ \A j \in DOMAIN b : j < i => b[j].kind # "regs"
  /\ \E p, z \in DOMAIN b :
       b[p].kind = "basepage" /\ b[z].kind = "disasm" /\ b[z].emits /\ p <= z
  /\ coverage \/ \E i \in DOMAIN b : b[i].kind = "coverage"
  /\ turbo \/ \E i \in DOMAIN b : b[i].kind = "turbo"
  /\ attached \/ \E i \in DOMAIN b : b[i].kind = "symbols"

(* What a stop asks for, told by what the invariant needs of it.            *)
LEMMA StopBatchIs ==
  ASSUME NEW turbo \in BOOLEAN, NEW coverage \in BOOLEAN, NEW attached \in BOOLEAN
  PROVE  IsStopBatch(StopBatch(turbo, coverage, attached), turbo, coverage, attached)
<1> DEFINE s == SetupBatch(turbo, coverage)
           t == IF attached THEN RefreshBatch ELSE AttachBatch
           b == s \o t
<1>1. /\ s \in Seq(Requests)
      /\ \A i \in DOMAIN s : s[i].kind \in {"turbo", "coverage"} /\ ~s[i].emits
      /\ ~turbo => \E i \in DOMAIN s : s[i].kind = "turbo"
      /\ ~coverage => \E i \in DOMAIN s : s[i].kind = "coverage"
  BY SetupBatchIs
<1>2. CASE attached
  <2>1. /\ t \in Seq(Requests) /\ DOMAIN t = 1..3
        /\ t[1].kind = "regs" /\ ~t[1].emits /\ t[2].kind = "basepage" /\ ~t[2].emits
        /\ t[3].kind = "disasm" /\ t[3].emits
    <3>1. t = RefreshBatch
      BY <1>2
    <3> HIDE DEF t
    <3> QED BY <3>1, RefreshIs, CommandIs, ReadIs DEF Kinds
  <2>2. StopBatch(turbo, coverage, attached) = b
    BY DEF StopBatch
  <2> HIDE DEF s, t
  <2>3. /\ b \in Seq(Requests) /\ Len(b) = Len(s) + Len(t)
        /\ \A i \in 1 .. Len(s) : b[i] = s[i]
        /\ \A i \in 1 .. Len(t) : b[Len(s) + i] = t[i]
        /\ Len(s) \in Nat /\ DOMAIN s = 1 .. Len(s)
        /\ Len(t) \in Nat /\ DOMAIN t = 1 .. Len(t)
        /\ DOMAIN b = 1 .. Len(s) + Len(t)
    <3>1. s \in Seq(Requests) /\ t \in Seq(Requests)
      BY <1>1, <2>1
    <3> QED BY <3>1, ConcatIs
  <2> HIDE DEF b
  <2> DEFINE n == Len(s)
  <2>4. Len(t) = 3
    BY <2>1, <2>3
  <2>5. /\ n \in Nat /\ DOMAIN b = 1..(n + 3) /\ DOMAIN s = 1..n
        /\ \A i \in 1..n : b[i] = s[i]
        /\ b[n + 1] = t[1] /\ b[n + 2] = t[2] /\ b[n + 3] = t[3]
    BY <2>3, <2>4
  <2> HIDE DEF n
  <2>6. /\ n + 1 \in DOMAIN b /\ n + 2 \in DOMAIN b /\ n + 3 \in DOMAIN b
        /\ \A i \in DOMAIN b : i \in DOMAIN s \/ i = n + 1 \/ i = n + 2 \/ i = n + 3
        /\ \A i \in DOMAIN s : i \in DOMAIN b /\ b[i] = s[i]
    BY <2>5
  <2>7. \A i \in DOMAIN b :
          /\ b[i].kind \in {"turbo", "coverage", "symbols", "regs", "basepage", "disasm"}
          /\ b[i].emits => i = n + 3
    BY <1>1, <2>1, <2>5, <2>6
  <2>8. n + 1 <= n + 3 /\ n + 2 <= n + 3
    BY <2>5
  <2>9. \A i \in DOMAIN b : b[i].emits => \E j \in DOMAIN b : j <= i /\ b[j].kind = "regs"
    BY <2>1, <2>5, <2>6, <2>7, <2>8
  <2>10. \E p, z \in DOMAIN b :
           b[p].kind = "basepage" /\ b[z].kind = "disasm" /\ b[z].emits /\ p <= z
    BY <2>1, <2>5, <2>6, <2>8
  <2>11. /\ coverage \/ \E i \in DOMAIN b : b[i].kind = "coverage"
         /\ turbo \/ \E i \in DOMAIN b : b[i].kind = "turbo"
    BY <1>1, <2>6
  <2>12. \A i \in DOMAIN b : b[i].emits =>
            \/ \E j \in DOMAIN b : j <= i /\ b[j].kind = "regs"
            \/ ~attached /\ b[i].kind = "basepage" /\ \A j \in DOMAIN b : j < i => b[j].kind # "regs"
    BY <2>9
  <2>13. attached \/ \E i \in DOMAIN b : b[i].kind = "symbols"
    BY <1>2
  <2>14. \A i \in DOMAIN b :
           b[i].kind \in {"turbo", "coverage", "symbols", "regs", "basepage", "disasm"}
    BY <2>7
  <2> QED BY <2>2, <2>3, <2>10, <2>11, <2>12, <2>13, <2>14 DEF IsStopBatch
<1>3. CASE ~attached
  <2>1. /\ t \in Seq(Requests) /\ DOMAIN t = 1..4
        /\ t[1].kind = "symbols" /\ ~t[1].emits /\ t[2].kind = "basepage" /\ t[2].emits
        /\ t[3].kind = "regs" /\ t[3].emits /\ t[4].kind = "disasm" /\ t[4].emits
    <3>1. t = AttachBatch
      BY <1>3
    <3> HIDE DEF t
    <3> QED BY <3>1, AttachIs
  <2>2. StopBatch(turbo, coverage, attached) = b
    BY DEF StopBatch
  <2> HIDE DEF s, t
  <2>3. /\ b \in Seq(Requests) /\ Len(b) = Len(s) + Len(t)
        /\ \A i \in 1 .. Len(s) : b[i] = s[i]
        /\ \A i \in 1 .. Len(t) : b[Len(s) + i] = t[i]
        /\ Len(s) \in Nat /\ DOMAIN s = 1 .. Len(s)
        /\ Len(t) \in Nat /\ DOMAIN t = 1 .. Len(t)
        /\ DOMAIN b = 1 .. Len(s) + Len(t)
    <3>1. s \in Seq(Requests) /\ t \in Seq(Requests)
      BY <1>1, <2>1
    <3> QED BY <3>1, ConcatIs
  <2> HIDE DEF b
  <2> DEFINE n == Len(s)
  <2>4. Len(t) = 4
    BY <2>1, <2>3
  <2>5. /\ n \in Nat /\ DOMAIN b = 1..(n + 4) /\ DOMAIN s = 1..n
        /\ \A i \in 1..n : b[i] = s[i]
        /\ b[n + 1] = t[1] /\ b[n + 2] = t[2] /\ b[n + 3] = t[3] /\ b[n + 4] = t[4]
    BY <2>3, <2>4
  <2> HIDE DEF n
  <2>6. /\ n + 1 \in DOMAIN b /\ n + 2 \in DOMAIN b /\ n + 3 \in DOMAIN b /\ n + 4 \in DOMAIN b
        /\ \A i \in DOMAIN b : i \in DOMAIN s \/ i = n + 1 \/ i = n + 2 \/ i = n + 3 \/ i = n + 4
        /\ \A i \in DOMAIN s : i \in DOMAIN b /\ b[i] = s[i]
        /\ \A i \in DOMAIN b : i < n + 2 => i \in DOMAIN s \/ i = n + 1
    BY <2>5
  <2>7. \A i \in DOMAIN b :
          /\ b[i].kind \in {"turbo", "coverage", "symbols", "regs", "basepage", "disasm"}
          /\ b[i].emits => i = n + 2 \/ i = n + 3 \/ i = n + 4
    BY <1>1, <2>1, <2>5, <2>6
  <2>8. n + 2 <= n + 4 /\ n + 3 <= n + 3 /\ n + 3 <= n + 4
    BY <2>5
  <2>9. \A i \in DOMAIN b : i < n + 2 => b[i].kind # "regs"
    BY <1>1, <2>1, <2>5, <2>6
  <2>10. \A i \in DOMAIN b : b[i].emits =>
            \/ \E j \in DOMAIN b : j <= i /\ b[j].kind = "regs"
            \/ ~attached /\ b[i].kind = "basepage" /\ \A j \in DOMAIN b : j < i => b[j].kind # "regs"
    BY <1>3, <2>1, <2>5, <2>6, <2>7, <2>8, <2>9
  <2>11. \E p, z \in DOMAIN b :
           b[p].kind = "basepage" /\ b[z].kind = "disasm" /\ b[z].emits /\ p <= z
    BY <2>1, <2>5, <2>6, <2>8
  <2>12. \E i \in DOMAIN b : b[i].kind = "symbols"
    BY <2>1, <2>5, <2>6
  <2>13. /\ coverage \/ \E i \in DOMAIN b : b[i].kind = "coverage"
         /\ turbo \/ \E i \in DOMAIN b : b[i].kind = "turbo"
    BY <1>1, <2>6
  <2> QED BY <2>2, <2>3, <2>7, <2>10, <2>11, <2>12, <2>13 DEF IsStopBatch
<1> QED BY <1>2, <1>3

(* What saving a profile asks for.                                          *)
LEMMA ProfileBatchIs ==
  LET b == ProfileBatch
  IN  /\ b \in Seq(Requests) /\ DOMAIN b = 1..4
      /\ b[1].kind = "ext" /\ b[2].kind = "profileSave" /\ b[3].kind = "profileOff"
      /\ b[4].kind = "uae"
      /\ \A i \in DOMAIN b : ~b[i].emits
<1> DEFINE x == Command("ext", 0)
           p == Command("profileSave", 0)
           o == Command("profileOff", 0)
           u == Command("uae", 0)
           b == <<x, p, o, u>>
<1>1. /\ x \in Requests /\ x.kind = "ext" /\ ~x.emits
      /\ p \in Requests /\ p.kind = "profileSave" /\ ~p.emits
      /\ o \in Requests /\ o.kind = "profileOff" /\ ~o.emits
      /\ u \in Requests /\ u.kind = "uae" /\ ~u.emits
  BY CommandIs DEF Kinds
<1> HIDE DEF x, p, o, u
<1>2. b \in Seq(Requests) /\ DOMAIN b = 1..4 /\ b[1] = x /\ b[2] = p /\ b[3] = o /\ b[4] = u
  BY <1>1
<1>3. ProfileBatch = b
  BY DEF ProfileBatch, x, p, o, u
<1> HIDE DEF b
<1> QED BY <1>1, <1>2, <1>3

(* A guided run that another stop ends: its profile is saved, its one-shot  *)
(* cleared by the re-arming.                                                *)
LEMMA EndGuidedGood ==
  ASSUME NEW f, NEW c \in Commands, NEW m, NEW r, Good(f, c, m, r),
         user = "patient" => ~f.lane.continuing /\ ~f.ctl.stepOut
  PROVE  LET g == EndGuidedRun(f)
         IN  /\ Good(g, c, m, r) /\ g.lane.current = f.lane.current
             /\ g.win = f.win /\ g.model = f.model /\ g.ctl.attached = f.ctl.attached
             /\ g.ctl.stopEvent = f.ctl.stopEvent /\ g.ctl.stepEvent = f.ctl.stepEvent
             /\ g.ctl.stepOut = f.ctl.stepOut
<1>1. CASE ~f.ctl.guided
  <2>1. EndGuidedRun(f) = f
    BY <1>1 DEF EndGuidedRun
  <2> QED BY <2>1
<1>2. CASE f.ctl.guided
  <2> DEFINE x == [f EXCEPT !.ctl.guided = FALSE]
             y == Put(x, ProfileBatch)
             z == [y EXCEPT !.ctl.profileSave = TRUE]
             g == ArmBreakpoints(z)
             L == Line(c, f.lane.queue)
             M == Line(c, z.lane.queue)
  <2>1. EndGuidedRun(f) = g
    BY <1>2 DEF EndGuidedRun, StopProfile
  <2>2. /\ f \in FrameType /\ f.ctl \in ControlType /\ f.lane.queue \in Seq(Requests)
        /\ f = [lane |-> f.lane, ctl |-> f.ctl, win |-> f.win, ghost |-> f.ghost, model |-> f.model]
    BY FrameIs, ControlIs DEF Good
  <2>3. /\ x \in FrameType /\ x.lane = f.lane /\ x.win = f.win /\ x.ghost = f.ghost
        /\ x.model = f.model /\ x.ctl = [f.ctl EXCEPT !.guided = FALSE]
    BY <2>2 DEF FrameType, ControlType
  <2> HIDE DEF x
  <2>4. /\ y \in FrameType /\ Same(x, y) /\ y.lane.queue = x.lane.queue \o ProfileBatch
        /\ y.lane.current = x.lane.current
    BY <2>3, ProfileBatchIs, PutIs
  <2> HIDE DEF y
  <2>5. y.ctl \in ControlType
    BY <2>4, FrameIs
  <2>6. /\ z \in FrameType /\ z.lane = y.lane /\ z.win = y.win /\ z.ghost = y.ghost
        /\ z.model = y.model /\ z.ctl = [y.ctl EXCEPT !.profileSave = TRUE]
    BY <2>4, <2>5 DEF FrameType, ControlType
  <2> HIDE DEF z, g
  <2>7. /\ z.lane.stopped = f.lane.stopped /\ z.lane.continuing = f.lane.continuing
        /\ z.lane.queue = f.lane.queue \o ProfileBatch /\ z.lane.current = f.lane.current
        /\ z.win = f.win /\ z.ghost = f.ghost /\ z.model = f.model
        /\ z.ctl = [[f.ctl EXCEPT !.guided = FALSE] EXCEPT !.profileSave = TRUE]
    BY <2>3, <2>4, <2>6 DEF Same
  <2>8. /\ z.ctl.attached = f.ctl.attached /\ z.ctl.armed = f.ctl.armed
        /\ z.ctl.stepOut = f.ctl.stepOut /\ z.ctl.stopEvent = f.ctl.stopEvent
        /\ z.ctl.stepEvent = f.ctl.stepEvent /\ z.ctl.turbo = f.ctl.turbo
        /\ z.ctl.coverage = f.ctl.coverage /\ z.ctl.profileSave /\ ~z.ctl.guided
    BY <2>2, <2>7 DEF ControlType
  <2>9. Grown(L, M, ProfileBatch)
    BY <2>2, <2>7, ProfileBatchIs, LineGrows
  <2> HIDE DEF L, M
  <2>10. Body(f, L, m, r) /\ f.lane.stopped /\ Attached(f, r)
    BY DEF Good, L
  <2>11. \A i \in DOMAIN ProfileBatch :
            /\ ProfileBatch[i].kind \in {"ext", "profileSave", "profileOff", "uae"}
            /\ ~ProfileBatch[i].emits
    BY ProfileBatchIs
  <2>12. EndsCovered(z, M, m)
    BY <2>8, <2>9, <2>10, HoldsGrow DEF Body, LineOK, EndsCovered
  <2>13. ReportsAreFresh(M, m, r)
    BY <2>9, <2>10, <2>11, ReportsGrow DEF Body, LineOK
  <2>14. SaveIsComing(z, M)
    <3>1. 2 \in DOMAIN ProfileBatch /\ ProfileBatch[2].kind = "profileSave"
      BY ProfileBatchIs
    <3> QED BY <2>9, <3>1, PutIsHeld DEF SaveIsComing
  <2>15. BasesCome(z, M, m, r)
    <3>1. BasesCome(f, M, m, r)
      BY <2>9, <2>10, BasesGrow DEF Body, LineOK
    <3> QED BY <2>7, <3>1 DEF BasesCome
  <2>16. StopsAreRecorded(z, M, r)
    <3>1. StopsAreRecorded(f, M, r)
      BY <2>9, <2>10, <2>11, StopsGrow DEF Body, LineOK
    <3> QED BY <2>7, <3>1 DEF StopsAreRecorded
  <2>17. PatienceOK(z, M, m)
    <3> SUFFICES ASSUME user = "patient"
                 PROVE  /\ ContinueHasItsEnd(z, M, m) /\ StepOutWaits(z, M, m) /\ SavesAreHere(z, M, m)
                        /\ ViewsCome(z, M, m) /\ EventsCome(z, M, m) /\ SetupComes(z, M, m)
      BY DEF PatienceOK
    <3>1. /\ SavesAreHere(f, L, m) /\ ViewsCome(f, L, m) /\ EventsCome(f, L, m) /\ SetupComes(f, L, m)
      BY <2>10 DEF Body, PatienceOK
    <3>2. ContinueHasItsEnd(z, M, m) /\ StepOutWaits(z, M, m)
      BY <2>7, <2>8 DEF ContinueHasItsEnd, StepOutWaits
    <3>3. SavesAreHere(z, M, m)
      <4>1. SavesAreHere(f, M, m)
        BY <2>9, <2>11, <3>1, SavesGrow
      <4> QED BY <2>7, <4>1 DEF SavesAreHere
    <3>4. ViewsCome(z, M, m)
      <4>1. ViewsCome(f, M, m)
        BY <2>9, <2>11, <3>1, ViewsGrow
      <4> QED BY <2>7, <4>1 DEF ViewsCome
    <3>5. EventsCome(z, M, m)
      <4>1. EventsCome(f, M, m)
        BY <2>9, <3>1, EventsGrow
      <4> QED BY <2>8, <4>1 DEF EventsCome
    <3>6. SetupComes(z, M, m)
      <4>1. \E p \in DOMAIN ProfileBatch :
               /\ ProfileBatch[p].kind = "uae"
               /\ \A i \in DOMAIN ProfileBatch : i > p => ProfileBatch[i].kind # "ext"
        <5>1. 4 \in DOMAIN ProfileBatch /\ \A i \in DOMAIN ProfileBatch : ~(i > 4)
          BY ProfileBatchIs
        <5> QED BY <5>1, ProfileBatchIs
      <4>2. SetupComes(f, M, m)
        BY <2>9, <3>1, <4>1, SetupGrows
      <4> QED BY <2>7, <2>8, <4>2 DEF SetupComes
    <3> QED BY <3>2, <3>3, <3>4, <3>5, <3>6
  <2>18. /\ z.ctl.armed => z.win.bases
         /\ user = "patient" => ~z.lane.continuing /\ ~z.ctl.stepOut
    BY <2>7, <2>8, <2>10 DEF Attached
  <2>19. Body(g, Line(c, g.lane.queue), m, r)
    BY <2>6, <2>12, <2>13, <2>14, <2>15, <2>16, <2>17, <2>18, ArmBody DEF M, g
  <2>20. /\ g \in FrameType /\ g.lane = Put(z, Plan(z)).lane
         /\ g.win = z.win /\ g.ghost = z.ghost /\ g.model = z.model
         /\ g.ctl = [z.ctl EXCEPT !.armed = z.ctl.armed \/ z.win.bases]
    BY <2>6, ArmIs DEF g
  <2>21. g.lane.stopped = z.lane.stopped /\ g.lane.current = z.lane.current
    <3>1. Plan(z) \in Seq(Requests)
      BY <2>6, PlanIs
    <3>2. Same(z, Put(z, Plan(z))) /\ Put(z, Plan(z)).lane.current = z.lane.current
      BY <2>6, <3>1, PutIs
    <3> QED BY <2>20, <3>2 DEF Same
  <2>22. z.ctl \in ControlType
    BY <2>6, FrameIs
  <2>23. /\ g.ctl.attached = f.ctl.attached /\ g.ctl.stepOut = f.ctl.stepOut
         /\ g.ctl.stopEvent = f.ctl.stopEvent /\ g.ctl.stepEvent = f.ctl.stepEvent
         /\ g.ctl.turbo = f.ctl.turbo /\ g.ctl.coverage = f.ctl.coverage /\ ~g.ctl.guided
         /\ g.ctl.armed = (z.ctl.armed \/ z.win.bases)
    BY <2>8, <2>20, <2>22 DEF ControlType
  <2>24. Attached(g, r)
    BY <2>7, <2>8, <2>10, <2>20, <2>21, <2>23 DEF Attached
  <2>25. Good(g, c, m, r)
    BY <2>7, <2>10, <2>19, <2>20, <2>21, <2>24 DEF Good
  <2> QED BY <2>1, <2>7, <2>20, <2>21, <2>23, <2>25
<1>3. f.ctl.guided \in BOOLEAN
  BY ControlIs DEF Good
<1> QED BY <1>1, <1>2, <1>3

(* A good frame of a debugger that waits is one of the invariant.           *)
LEMMA GoodIs ==
  ASSUME NEW f, NEW c \in Commands, NEW m, NEW r, Good(f, c, m, r), ~m.going
  PROVE  FrameOK(f, c, m, r)
BY DEF Good, FrameOK, Quiet, Body

(* What a stop is set up with: the flags, with everything read behind it.   *)
LEMMA SetupIs ==
  ASSUME NEW f \in FrameType
  PROVE  LET g == Setup(f)
             b == SetupBatch(f.ctl.turbo, f.ctl.coverage)
         IN  /\ g \in FrameType /\ b \in Seq(Requests)
             /\ g.lane.queue = f.lane.queue \o b /\ g.lane.current = f.lane.current
             /\ g.lane.stopped = f.lane.stopped /\ g.lane.continuing = f.lane.continuing
             /\ g.win = f.win /\ g.ghost = f.ghost /\ g.model = f.model
             /\ g.ctl.turbo /\ g.ctl.coverage
             /\ g.ctl.attached = f.ctl.attached /\ g.ctl.armed = f.ctl.armed
             /\ g.ctl.stepOut = f.ctl.stepOut /\ g.ctl.stopEvent = f.ctl.stopEvent
             /\ g.ctl.stepEvent = f.ctl.stepEvent /\ g.ctl.profileSave = f.ctl.profileSave
             /\ g.ctl.guided = f.ctl.guided
<1> DEFINE b == SetupBatch(f.ctl.turbo, f.ctl.coverage)
           y == Put(f, b)
           z == [y EXCEPT !.ctl.turbo = TRUE]
           g == [z EXCEPT !.ctl.coverage = TRUE]
<1>1. f.ctl.turbo \in BOOLEAN /\ f.ctl.coverage \in BOOLEAN
  BY ControlIs
<1>2. b \in Seq(Requests)
  BY <1>1, SetupBatchIs
<1>3. Setup(f) = g
  BY DEF Setup, SetupBatch
<1> HIDE DEF b
<1>4. /\ y \in FrameType /\ Same(f, y) /\ y.lane.queue = f.lane.queue \o b
      /\ y.lane.current = f.lane.current
  BY <1>2, PutIs
<1> HIDE DEF y
<1>5. /\ y.ctl \in ControlType
      /\ y = [lane |-> y.lane, ctl |-> y.ctl, win |-> y.win, ghost |-> y.ghost, model |-> y.model]
  BY <1>4, FrameIs
<1>6. /\ z \in FrameType /\ z.lane = y.lane /\ z.win = y.win /\ z.ghost = y.ghost
      /\ z.model = y.model /\ z.ctl = [y.ctl EXCEPT !.turbo = TRUE]
  BY <1>4, <1>5 DEF FrameType, ControlType
<1> HIDE DEF z
<1>7. z.ctl \in ControlType
  BY <1>6, FrameIs
<1>8. /\ g \in FrameType /\ g.lane = z.lane /\ g.win = z.win /\ g.ghost = z.ghost
      /\ g.model = z.model /\ g.ctl = [z.ctl EXCEPT !.coverage = TRUE]
  BY <1>6, <1>7 DEF FrameType, ControlType
<1> HIDE DEF g
<1>9. /\ g.ctl.turbo /\ g.ctl.coverage
      /\ g.ctl.attached = f.ctl.attached /\ g.ctl.armed = f.ctl.armed
      /\ g.ctl.stepOut = f.ctl.stepOut /\ g.ctl.stopEvent = f.ctl.stopEvent
      /\ g.ctl.stepEvent = f.ctl.stepEvent /\ g.ctl.profileSave = f.ctl.profileSave
      /\ g.ctl.guided = f.ctl.guided
  BY <1>4, <1>5, <1>6, <1>7, <1>8 DEF Same, ControlType
<1>10. /\ g.lane.queue = f.lane.queue \o b /\ g.lane.current = f.lane.current
       /\ g.lane.stopped = f.lane.stopped /\ g.lane.continuing = f.lane.continuing
       /\ g.win = f.win /\ g.ghost = f.ghost /\ g.model = f.model
  BY <1>4, <1>6, <1>8 DEF Same
<1> QED BY <1>2, <1>3, <1>8, <1>9, <1>10 DEF b

(* While the program runs only edits wait, and nothing is to be told.       *)
LEMMA QuietIs ==
  ASSUME NEW f, NEW m, NEW r, FrameOK(f, NoCommand, m, r), ~f.lane.stopped
  PROVE  LET L == Line(NoCommand, f.lane.queue)
         IN  /\ IsLine(L)
             /\ \A i \in DOMAIN L : L[i].kind \in {"none", "clear", "arm", "watch"} /\ ~L[i].emits
             /\ user = "patient" => ~f.ctl.stepOut /\ ~f.ctl.stepEvent
<1> DEFINE L == Line(NoCommand, f.lane.queue)
<1>1. f.lane.queue \in Seq(Requests) /\ NoCommand \in Commands
  BY ControlIs DEF FrameOK, Commands
<1>2. \A i \in DOMAIN f.lane.queue : f.lane.queue[i].kind \in {"clear", "arm", "watch"}
  BY DEF FrameOK, Quiet
<1>3. /\ DOMAIN L = 0..Len(f.lane.queue) /\ L[0] = NoCommand
      /\ \A i \in 1..Len(f.lane.queue) : L[i] = f.lane.queue[i] /\ f.lane.queue[i] \in Requests
      /\ IsLine(L) /\ Len(f.lane.queue) \in Nat
      /\ DOMAIN f.lane.queue = 1..Len(f.lane.queue)
  BY <1>1, LineIs
<1>4. LineOK(f, L, m, r) /\ PatienceOK(f, L, m)
  BY DEF FrameOK
<1> HIDE DEF L
<1>5. ASSUME NEW i \in DOMAIN L
      PROVE  L[i].kind \in {"none", "clear", "arm", "watch"} /\ ~L[i].emits
  <2>1. CASE i = 0
    BY <1>3, <2>1 DEF NoCommand
  <2>2. CASE i # 0
    <3>1. i \in 1..Len(f.lane.queue)
      BY <1>3, <2>2
    <3>2. L[i] \in Requests /\ L[i].kind \in {"clear", "arm", "watch"}
      BY <1>2, <1>3, <3>1
    <3> QED BY <3>2 DEF Requests
  <2> QED BY <2>1, <2>2
<1>6. ~Holds(L, "dump") /\ ~Holds(L, "disasm")
  BY <1>5 DEF Holds
<1>7. user = "patient" => ~f.ctl.stepOut /\ ~f.ctl.stepEvent
  BY <1>4, <1>6 DEF PatienceOK, StepOutWaits, EventsCome
<1> QED BY <1>3, <1>5, <1>7 DEF L

(* The program stops, and the window asks for everything a stop needs.      *)
LEMMA StopGood ==
  ASSUME NEW f, NEW m \in MachineType, NEW r \in States, FrameOK(f, NoCommand, m, r), m.going,
         NEW x \in MachineType, x.move = m.move + 1,
         x.bp = m.bp, x.wp = m.wp, x.shots \subseteq m.shots, x.done = m.done, x.engine = m.engine,
         NEW banner \in BOOLEAN
  PROVE  LET g == OnStopped([f EXCEPT !.lane.stopped = TRUE, !.lane.entry = banner])
         IN  /\ Good(g, NoCommand, x, r) /\ g.lane.current = f.lane.current
             /\ g.model = f.model /\ g.win = f.win
             /\ user = "patient" => ~f.ctl.stepOut /\ ~f.ctl.stepEvent
<1> DEFINE h == [f EXCEPT !.lane.stopped = TRUE, !.lane.entry = banner]
           e == [h EXCEPT !.ctl.stopEvent = TRUE]
           u == Setup(e)
           t == IF u.ctl.attached THEN RefreshBatch ELSE AttachBatch
           w == Put(u, t)
           v == [w EXCEPT !.ctl.attached = TRUE]
           g == OnStopped(h)
           L == Line(NoCommand, f.lane.queue)
           M == Line(NoCommand, w.lane.queue)
<1>1. /\ f \in FrameType /\ f.lane \in LaneType /\ f.ctl \in ControlType
      /\ f.lane.queue \in Seq(Requests)
      /\ f = [lane |-> f.lane, ctl |-> f.ctl, win |-> f.win, ghost |-> f.ghost, model |-> f.model]
  BY FrameIs, ControlIs DEF FrameOK
<1>2. /\ ~f.lane.stopped /\ ~f.ctl.stopEvent /\ ~f.lane.continuing
      /\ \A i \in DOMAIN f.lane.queue : f.lane.queue[i].kind \in {"clear", "arm", "watch"}
  BY DEF FrameOK, Quiet
<1>3. /\ h \in FrameType /\ h.lane.queue = f.lane.queue /\ h.lane.current = f.lane.current
      /\ h.lane.stopped /\ h.lane.continuing = f.lane.continuing
      /\ h.ctl = f.ctl /\ h.win = f.win /\ h.ghost = f.ghost /\ h.model = f.model
  BY <1>1 DEF FrameType, LaneType
<1>4. u.ctl.attached => g = EndGuidedRun(w)
  BY DEF OnStopped
<1>5. ~u.ctl.attached => g = v
  BY DEF OnStopped
<1> HIDE DEF h, g
<1>6. h = [lane |-> h.lane, ctl |-> h.ctl, win |-> h.win, ghost |-> h.ghost, model |-> h.model]
  BY <1>3, FrameIs
<1>7. /\ e \in FrameType /\ e.lane = h.lane /\ e.win = h.win /\ e.ghost = h.ghost
      /\ e.model = h.model /\ e.ctl = [f.ctl EXCEPT !.stopEvent = TRUE]
  BY <1>1, <1>3, <1>6 DEF FrameType, ControlType
<1> HIDE DEF e
<1>8. /\ e.ctl.attached = f.ctl.attached /\ e.ctl.armed = f.ctl.armed
      /\ e.ctl.stepOut = f.ctl.stepOut /\ e.ctl.turbo = f.ctl.turbo
      /\ e.ctl.stepEvent = f.ctl.stepEvent /\ e.ctl.profileSave = f.ctl.profileSave
      /\ e.ctl.guided = f.ctl.guided /\ e.ctl.coverage = f.ctl.coverage
      /\ e.lane.queue = f.lane.queue /\ e.lane.current = f.lane.current
      /\ e.lane.stopped /\ ~e.lane.continuing
      /\ e.win = f.win /\ e.ghost = f.ghost /\ e.model = f.model
  BY <1>1, <1>2, <1>3, <1>7 DEF ControlType
<1> DEFINE b == SetupBatch(f.ctl.turbo, f.ctl.coverage)
<1>9. /\ u \in FrameType /\ b \in Seq(Requests)
      /\ u.lane.queue = f.lane.queue \o b /\ u.lane.current = f.lane.current
      /\ u.lane.stopped /\ ~u.lane.continuing
      /\ u.win = f.win /\ u.ghost = f.ghost /\ u.model = f.model
      /\ u.ctl.turbo /\ u.ctl.coverage
      /\ u.ctl.attached = f.ctl.attached /\ u.ctl.armed = f.ctl.armed
      /\ u.ctl.stepOut = f.ctl.stepOut
      /\ u.ctl.stepEvent = f.ctl.stepEvent /\ u.ctl.profileSave = f.ctl.profileSave
      /\ u.ctl.guided = f.ctl.guided
  <2> DEFINE y == SetupBatch(e.ctl.turbo, e.ctl.coverage)
  <2>1. /\ u \in FrameType /\ y \in Seq(Requests)
        /\ u.lane.queue = e.lane.queue \o y /\ u.lane.current = e.lane.current
        /\ u.lane.stopped = e.lane.stopped /\ u.lane.continuing = e.lane.continuing
        /\ u.win = e.win /\ u.ghost = e.ghost /\ u.model = e.model
        /\ u.ctl.turbo /\ u.ctl.coverage
        /\ u.ctl.attached = e.ctl.attached /\ u.ctl.armed = e.ctl.armed
        /\ u.ctl.stepOut = e.ctl.stepOut /\ u.ctl.stopEvent = e.ctl.stopEvent
        /\ u.ctl.stepEvent = e.ctl.stepEvent /\ u.ctl.profileSave = e.ctl.profileSave
        /\ u.ctl.guided = e.ctl.guided
    BY <1>7, SetupIs
  <2>2. y = b
    BY <1>8
  <2> HIDE DEF y, b, u
  <2> QED BY <1>8, <2>1, <2>2
<1> HIDE DEF u
<1>10. /\ f.ctl.turbo \in BOOLEAN /\ f.ctl.coverage \in BOOLEAN /\ f.ctl.attached \in BOOLEAN
       /\ f.ctl.stepEvent \in BOOLEAN /\ f.ctl.armed \in BOOLEAN /\ f.ctl.guided \in BOOLEAN
       /\ f.win.bases \in BOOLEAN
  BY <1>1, ControlIs
<1>11. t \in Seq(Requests)
  BY RefreshIs, AttachIs
<1>12. /\ w \in FrameType /\ Same(u, w) /\ w.lane.queue = u.lane.queue \o t
       /\ w.lane.current = u.lane.current
  BY <1>9, <1>11, PutIs
<1>13. b \o t = StopBatch(f.ctl.turbo, f.ctl.coverage, f.ctl.attached)
  BY <1>9 DEF StopBatch
<1> HIDE DEF w, b, t
<1>14. Grown(L, M, b \o t)
  <2>1. /\ f.lane.queue \o b \in Seq(Requests)
        /\ Grown(Line(NoCommand, f.lane.queue), Line(NoCommand, f.lane.queue \o b), b)
    BY <1>1, <1>9, LineGrows DEF Commands
  <2>2. Grown(Line(NoCommand, f.lane.queue \o b), M, t)
    BY <1>9, <1>11, <1>12, <2>1, LineGrows DEF Commands
  <2> HIDE DEF M
  <2> QED BY <1>9, <1>11, <2>1, <2>2, GrownTwice
<1>15. /\ IsLine(L)
       /\ \A i \in DOMAIN L : L[i].kind \in {"none", "clear", "arm", "watch"} /\ ~L[i].emits
  BY <1>2, QuietIs
<1>16. LineOK(f, L, m, r) /\ PatienceOK(f, L, m) /\ Attached(f, r)
  BY DEF FrameOK
<1> HIDE DEF L, M
<1>17. /\ r.move \in Nat /\ x.move \in Nat
       /\ r.valid => r.move < x.move
  <2>1. r.move \in Nat /\ x.move \in Nat /\ m.move \in Nat
    BY DEF States, MachineType
  <2>2. r.valid => r.move <= m.move
    BY <1>16 DEF LineOK, ReportsAreFresh
  <2> QED BY <2>1, <2>2
<1>18. user = "patient" => ~f.ctl.stepOut /\ ~f.ctl.stepEvent
  BY <1>2, QuietIs
<1>19. /\ w.lane.stopped /\ ~w.lane.continuing /\ w.lane.current = f.lane.current
       /\ w.win = f.win /\ w.ghost = f.ghost /\ w.model = f.model
       /\ w.ctl.turbo /\ w.ctl.coverage
       /\ w.ctl.attached = f.ctl.attached /\ w.ctl.armed = f.ctl.armed
       /\ w.ctl.stepOut = f.ctl.stepOut
       /\ w.ctl.stepEvent = f.ctl.stepEvent /\ w.ctl.profileSave = f.ctl.profileSave
       /\ w.ctl.guided = f.ctl.guided
  BY <1>9, <1>12 DEF Same
<1>20. w.ctl \in ControlType
       /\ w = [lane |-> w.lane, ctl |-> w.ctl, win |-> w.win, ghost |-> w.ghost, model |-> w.model]
  BY <1>12, FrameIs
<1>21. /\ v \in FrameType /\ v.lane = w.lane /\ v.win = w.win /\ v.ghost = w.ghost
       /\ v.model = w.model /\ v.ctl = [w.ctl EXCEPT !.attached = TRUE]
  BY <1>12, <1>20 DEF FrameType, ControlType
<1>22. w.ctl.attached => v = w
  <2>1. w.ctl = [attached |-> w.ctl.attached, armed |-> w.ctl.armed,
                 stepOut |-> w.ctl.stepOut, stopEvent |-> w.ctl.stopEvent,
                 stepEvent |-> w.ctl.stepEvent, turbo |-> w.ctl.turbo,
                 coverage |-> w.ctl.coverage, profileSave |-> w.ctl.profileSave,
                 guided |-> w.ctl.guided] /\ w.ctl.attached \in BOOLEAN
    BY <1>20 DEF ControlType
  <2>2. w.ctl.attached => w.ctl = [w.ctl EXCEPT !.attached = TRUE]
    BY <2>1
  <2> QED BY <1>20, <2>2
<1> HIDE DEF v
<1>23. /\ v.ctl.attached /\ v.ctl.turbo /\ v.ctl.coverage /\ v.ctl.armed = f.ctl.armed
       /\ v.ctl.stepOut = f.ctl.stepOut
       /\ v.ctl.stepEvent = f.ctl.stepEvent /\ v.ctl.profileSave = f.ctl.profileSave
       /\ v.ctl.guided = f.ctl.guided
       /\ v.lane.stopped /\ ~v.lane.continuing /\ v.lane.current = f.lane.current
       /\ v.win = f.win /\ v.ghost = f.ghost /\ v.model = f.model
  BY <1>19, <1>20, <1>21 DEF ControlType
<1> DEFINE s == b \o t
<1>24. /\ s \in Seq(Requests)
       /\ \A i \in DOMAIN s :
            s[i].kind \in {"turbo", "coverage", "symbols", "regs", "basepage", "disasm"}
       /\ \A i \in DOMAIN s : s[i].emits =>
            \/ \E j \in DOMAIN s : j <= i /\ s[j].kind = "regs"
            \/ ~f.ctl.attached /\ s[i].kind = "basepage" /\ \A j \in DOMAIN s : j < i => s[j].kind # "regs"
       /\ \E p, z \in DOMAIN s :
            s[p].kind = "basepage" /\ s[z].kind = "disasm" /\ s[z].emits /\ p <= z
       /\ f.ctl.coverage \/ \E i \in DOMAIN s : s[i].kind = "coverage"
       /\ f.ctl.turbo \/ \E i \in DOMAIN s : s[i].kind = "turbo"
       /\ f.ctl.attached \/ \E i \in DOMAIN s : s[i].kind = "symbols"
  <2> DEFINE q == StopBatch(f.ctl.turbo, f.ctl.coverage, f.ctl.attached)
  <2>1. IsStopBatch(q, f.ctl.turbo, f.ctl.coverage, f.ctl.attached)
    BY <1>10, StopBatchIs
  <2>2. s = q
    BY <1>13
  <2> HIDE DEF s, q
  <2>3. IsStopBatch(s, f.ctl.turbo, f.ctl.coverage, f.ctl.attached)
    BY <2>1, <2>2
  <2> QED BY <2>3 DEF IsStopBatch
<1>25. Grown(L, M, s)
  BY <1>14
<1> HIDE DEF s
<1>26. PICK p \in DOMAIN s, z \in DOMAIN s :
         s[p].kind = "basepage" /\ s[z].kind = "disasm" /\ s[z].emits /\ p <= z
  BY <1>24
<1>27. \A i \in DOMAIN s : s[i].emits =>
         \/ \E j \in DOMAIN s : j <= i /\ s[j].kind = "regs"
         \/ ~r.valid /\ s[i].kind = "basepage" /\ \A j \in DOMAIN s : j < i => s[j].kind # "regs"
  <2>1. ~f.ctl.attached => ~r.valid
    BY <1>16 DEF Attached
  <2> QED BY <1>24, <2>1
<1>28. Body(v, M, x, r)
  <2>1. /\ v.win = f.win /\ v.model = f.model /\ ~v.lane.continuing
        /\ v.ctl.armed = f.ctl.armed /\ v.ctl.guided = f.ctl.guided
        /\ v.ctl.stepOut = f.ctl.stepOut /\ v.ctl.stepEvent = f.ctl.stepEvent
        /\ v.ctl.profileSave = f.ctl.profileSave
    BY <1>23
  <2>2. /\ f.ctl.coverage \/ \E i \in DOMAIN s : s[i].kind = "coverage"
        /\ f.ctl.turbo \/ \E i \in DOMAIN s : s[i].kind = "turbo"
        /\ f.ctl.attached \/ \E i \in DOMAIN s : s[i].kind = "symbols"
        /\ \A i \in DOMAIN s :
             s[i].kind \in {"turbo", "coverage", "symbols", "regs", "basepage", "disasm"}
    BY <1>24
  <2> QED BY <1>1, <1>15, <1>16, <1>17, <1>25, <1>26, <1>27, <2>1, <2>2, StoppedBody
<1>29. Attached(v, r)
  <2>1. /\ f.win.bases <=> f.ctl.armed
        /\ ~f.ctl.attached => ~r.valid
        /\ f.win.seen.valid => r.valid
    BY <1>16 DEF Attached
  <2> QED BY <1>23, <2>1 DEF Attached
<1>30. Good(v, NoCommand, x, r)
  BY <1>21, <1>23, <1>28, <1>29 DEF Good, M
<1>31. CASE ~u.ctl.attached
  BY <1>5, <1>18, <1>23, <1>30, <1>31 DEF g, h
<1>32. CASE u.ctl.attached
  <2>1. v = w /\ g = EndGuidedRun(w)
    BY <1>4, <1>9, <1>19, <1>22, <1>32
  <2>2. user = "patient" => ~w.lane.continuing /\ ~w.ctl.stepOut
    BY <1>18, <1>19
  <2>3. NoCommand \in Commands /\ Good(w, NoCommand, x, r)
    BY <1>30, <2>1 DEF Commands
  <2>4. /\ Good(EndGuidedRun(w), NoCommand, x, r) /\ EndGuidedRun(w).lane.current = w.lane.current
        /\ EndGuidedRun(w).win = w.win /\ EndGuidedRun(w).model = w.model
    BY <2>2, <2>3, EndGuidedGood
  <2> QED BY <1>18, <1>19, <2>1, <2>4 DEF g, h
<1> QED BY <1>31, <1>32

(* Nothing is to be done: the line is empty.                                *)
LEMMA EmptyLine ==
  LET L == Line(NoCommand, <<>>)
  IN  DOMAIN L = 0..0 /\ L[0] = NoCommand /\ \A i \in DOMAIN L : L[i] = NoCommand
<1>1. <<>> \in Seq(Requests) /\ Len(<<>>) = 0 /\ NoCommand \in Commands
  BY DEF Commands
<1> DEFINE L == Line(NoCommand, <<>>)
<1>2. DOMAIN L = 0..0 /\ L[0] = NoCommand
  BY <1>1, LineIs
<1> HIDE DEF L
<1>3. \A i \in 0..0 : i = 0
  OBVIOUS
<1> QED BY <1>2, <1>3 DEF L

(* An edit re-arms the breakpoints, at a stop or for the next one.          *)
LEMMA EditGood ==
  ASSUME NEW f, NEW m, NEW r, FrameOK(f, f.lane.current, m, r), NEW n \in Nat \ {0},
         user = "patient" /\ f.lane.stopped =>
           f.lane.queue = <<>> /\ f.lane.current = NoCommand /\ ~f.lane.continuing
  PROVE  LET g == ArmBreakpoints([f EXCEPT !.model = n])
         IN  /\ FrameOK(g, g.lane.current, m, r) /\ g.lane.queue # <<>>
             /\ g.lane.stopped = f.lane.stopped /\ g.model = n /\ g.win = f.win
             /\ g.ctl.stopEvent = f.ctl.stopEvent /\ g.ctl.stepEvent = f.ctl.stepEvent
             /\ g.ctl.stepOut = f.ctl.stepOut
<1> DEFINE e == [f EXCEPT !.model = n]
           g == ArmBreakpoints(e)
           c == f.lane.current
           L == Line(c, f.lane.queue)
<1>1. /\ f \in FrameType /\ f.ctl \in ControlType /\ f.lane.queue \in Seq(Requests)
      /\ f = [lane |-> f.lane, ctl |-> f.ctl, win |-> f.win, ghost |-> f.ghost, model |-> f.model]
      /\ f.lane \in LaneType /\ c \in Commands
  BY FrameIs, ControlIs, LaneIs DEF FrameOK
<1>2. /\ Quiet(f, c, m) /\ Attached(f, r) /\ LineOK(f, L, m, r) /\ PatienceOK(f, L, m)
  BY DEF FrameOK
<1>3. /\ e \in FrameType /\ e.lane = f.lane /\ e.win = f.win /\ e.ghost = f.ghost
      /\ e.model = n /\ e.ctl = f.ctl
  BY <1>1 DEF FrameType
<1> HIDE DEF e, g
<1>4. user = "patient" => ~f.lane.continuing /\ ~f.ctl.stepOut
  <2> SUFFICES ASSUME user = "patient" PROVE ~f.lane.continuing /\ ~f.ctl.stepOut
    OBVIOUS
  <2>1. CASE f.lane.stopped
    <3>1. L = Line(NoCommand, <<>>) /\ ~f.lane.continuing
      BY <2>1
    <3> HIDE DEF L
    <3>2. \A i \in DOMAIN L : L[i] = NoCommand
      BY <3>1, EmptyLine
    <3>3. ~Holds(L, "dump")
      BY <3>2 DEF Holds, NoCommand
    <3> QED BY <1>2, <3>1, <3>3 DEF PatienceOK, StepOutWaits
  <2>2. CASE ~f.lane.stopped
    <3>1. c = NoCommand /\ ~f.lane.continuing
      BY <1>2, <2>2 DEF Quiet
    <3>2. FrameOK(f, NoCommand, m, r)
      BY <3>1
    <3> QED BY <2>2, <3>1, <3>2, QuietIs
  <2> QED BY <2>1, <2>2
<1>5. /\ g \in FrameType /\ g.lane = Put(e, Plan(e)).lane
      /\ g.win = e.win /\ g.ghost = e.ghost /\ g.model = e.model
      /\ g.ctl = [e.ctl EXCEPT !.armed = e.ctl.armed \/ e.win.bases]
  BY <1>3, ArmIs DEF g
<1>6. /\ Plan(e) \in Seq(Requests) /\ 1 \in DOMAIN Plan(e)
      /\ \A i \in DOMAIN Plan(e) : Plan(e)[i].kind \in {"clear", "arm", "watch"}
  BY <1>3, PlanIs
<1>7. /\ g.lane.queue = f.lane.queue \o Plan(e) /\ g.lane.current = c
      /\ g.lane.stopped = f.lane.stopped /\ g.lane.continuing = f.lane.continuing
  <2>1. /\ Same(e, Put(e, Plan(e))) /\ Put(e, Plan(e)).lane.queue = e.lane.queue \o Plan(e)
        /\ Put(e, Plan(e)).lane.current = e.lane.current
    BY <1>3, <1>6, PutIs
  <2> QED BY <1>3, <1>5, <2>1 DEF Same
<1>8. /\ g.ctl.attached = f.ctl.attached /\ g.ctl.stepOut = f.ctl.stepOut
      /\ g.ctl.stopEvent = f.ctl.stopEvent /\ g.ctl.stepEvent = f.ctl.stepEvent
      /\ g.ctl.turbo = f.ctl.turbo /\ g.ctl.coverage = f.ctl.coverage
      /\ g.ctl.guided = f.ctl.guided
      /\ g.ctl.armed = (f.ctl.armed \/ f.win.bases)
  BY <1>1, <1>3, <1>5 DEF ControlType
<1> DEFINE q == f.lane.queue \o Plan(e)
<1>9. /\ q # <<>>
      /\ \A i \in DOMAIN q :
           \/ i \in DOMAIN f.lane.queue /\ q[i] = f.lane.queue[i]
           \/ \E j \in DOMAIN Plan(e) : q[i] = Plan(e)[j]
  <2> DEFINE p == Plan(e)
             o == f.lane.queue
  <2>1. p \in Seq(Requests) /\ 1 \in DOMAIN p /\ o \in Seq(Requests)
    BY <1>1, <1>6
  <2> HIDE DEF p, o
  <2> DEFINE s == o \o p
  <2>2. /\ s \in Seq(Requests) /\ Len(s) = Len(o) + Len(p)
        /\ \A i \in 1 .. Len(o) : s[i] = o[i]
        /\ \A i \in 1 .. Len(p) : s[Len(o) + i] = p[i]
        /\ Len(o) \in Nat /\ DOMAIN o = 1 .. Len(o)
        /\ Len(p) \in Nat /\ DOMAIN p = 1 .. Len(p)
        /\ DOMAIN s = 1 .. Len(o) + Len(p)
    BY <2>1, ConcatIs
  <2>3. q = s
    BY DEF p, o
  <2> HIDE DEF s, q
  <2>4. s # <<>>
    BY <2>1, <2>2
  <2>5. ASSUME NEW i \in DOMAIN s
        PROVE  \/ i \in DOMAIN o /\ s[i] = o[i]
               \/ \E j \in DOMAIN p : s[i] = p[j]
    <3>1. CASE i \in 1..Len(o)
      BY <2>2, <3>1
    <3>2. CASE i \notin 1..Len(o)
      <4>1. i - Len(o) \in 1..Len(p) /\ i = Len(o) + (i - Len(o))
        BY <2>2, <3>2
      <4> QED BY <2>2, <4>1
    <3> QED BY <3>1, <3>2
  <2> QED BY <2>3, <2>4, <2>5 DEF p, o
<1>10. Quiet(g, c, m)
  <2> HIDE DEF q
  <2>1. ~f.lane.stopped => \A i \in DOMAIN q : q[i].kind \in {"clear", "arm", "watch"}
    BY <1>2, <1>6, <1>9 DEF Quiet
  <2>2. g.lane.queue = q
    BY <1>7 DEF q
  <2> QED BY <1>2, <1>7, <1>8, <2>1, <2>2 DEF Quiet
<1>11. Attached(g, r)
  <2>1. f.win.bases \in BOOLEAN /\ f.ctl.armed \in BOOLEAN /\ (f.win.bases <=> f.ctl.armed)
    BY <1>1, <1>2, ControlIs DEF Attached
  <2>2. g.ctl.armed <=> f.ctl.armed
    BY <1>8, <2>1
  <2> QED BY <1>2, <1>3, <1>5, <1>7, <1>8, <2>1, <2>2 DEF Attached
<1>12. Body(g, Line(c, g.lane.queue), m, r)
  <2>1. /\ EndsCovered(e, L, m) /\ ReportsAreFresh(L, m, r) /\ SaveIsComing(e, L)
        /\ BasesCome(e, L, m, r) /\ StopsAreRecorded(e, L, r)
    <3> HIDE DEF L
    <3> QED BY <1>2, <1>3 DEF LineOK, EndsCovered, SaveIsComing, BasesCome, StopsAreRecorded
  <2>2. PatienceOK(e, L, m)
    <3> HIDE DEF L
    <3> SUFFICES ASSUME user = "patient"
                 PROVE  /\ ContinueHasItsEnd(e, L, m) /\ StepOutWaits(e, L, m) /\ SavesAreHere(e, L, m)
                        /\ ViewsCome(e, L, m) /\ EventsCome(e, L, m) /\ SetupComes(e, L, m)
      BY DEF PatienceOK
    <3>1. /\ ContinueHasItsEnd(f, L, m) /\ StepOutWaits(f, L, m) /\ SavesAreHere(f, L, m)
          /\ ViewsCome(f, L, m) /\ EventsCome(f, L, m) /\ SetupComes(f, L, m)
      BY <1>2 DEF PatienceOK
    <3>2. ContinueHasItsEnd(e, L, m) /\ StepOutWaits(e, L, m)
      BY <1>3, <3>1 DEF ContinueHasItsEnd, StepOutWaits
    <3>3. SavesAreHere(e, L, m) /\ ViewsCome(e, L, m)
      BY <1>3, <3>1 DEF SavesAreHere, ViewsCome
    <3>4. EventsCome(e, L, m) /\ SetupComes(e, L, m)
      BY <1>3, <3>1 DEF EventsCome, SetupComes
    <3> QED BY <3>2, <3>3, <3>4
  <2>3. L = Line(c, e.lane.queue)
    BY <1>3
  <2>4. /\ e.ctl.armed => e.win.bases
        /\ user = "patient" => ~e.lane.continuing /\ ~e.ctl.stepOut
    BY <1>2, <1>3, <1>4 DEF Attached
  <2> HIDE DEF L
  <2>5. LET M == Line(c, e.lane.queue)
        IN  /\ EndsCovered(e, M, m) /\ ReportsAreFresh(M, m, r) /\ SaveIsComing(e, M)
            /\ BasesCome(e, M, m, r) /\ StopsAreRecorded(e, M, r) /\ PatienceOK(e, M, m)
    BY <2>1, <2>2, <2>3
  <2> QED BY <1>1, <1>3, <2>4, <2>5, ArmBody DEF g
<1>13. FrameOK(g, g.lane.current, m, r)
  BY <1>5, <1>7, <1>10, <1>11, <1>12 DEF FrameOK, Body
<1> QED BY <1>3, <1>5, <1>7, <1>8, <1>9, <1>13 DEF g, e

(* What dispatchNext() makes of a lane.                                     *)
LEMMA DispatchIs ==
  ASSUME NEW l \in LaneType
  PROVE  LET d == Dispatch(l)
         IN  \/ d = l
             \/ /\ l.current = NoCommand /\ l.queue # <<>> /\ l.stopped
                /\ d = [[l EXCEPT !.current = Head(l.queue)] EXCEPT !.queue = Tail(l.queue)]
             \/ /\ l.current = NoCommand /\ l.queue = <<>> /\ l.stopped /\ l.continuing
                /\ d = [[l EXCEPT !.continuing = FALSE] EXCEPT !.stopped = FALSE]
<1>1. CASE InFlight(l) \/ l.entry \/ ~l.stopped
  BY <1>1 DEF Dispatch
<1>2. CASE ~InFlight(l) /\ ~l.entry /\ l.stopped /\ l.queue # <<>>
  BY <1>2 DEF Dispatch, InFlight, LaneType
<1>3. CASE ~InFlight(l) /\ ~l.entry /\ l.stopped /\ l.queue = <<>> /\ l.continuing
  BY <1>3 DEF Dispatch, InFlight, LaneType
<1>4. CASE ~InFlight(l) /\ ~l.entry /\ l.stopped /\ l.queue = <<>> /\ ~l.continuing
  BY <1>4 DEF Dispatch, InFlight
<1> QED BY <1>1, <1>2, <1>3, <1>4

(* What a program leaves a stop with.                                       *)
LeavesWith(f, m) ==
  /\ f.win.bases => m.bp = f.model /\ m.wp = f.model
  /\ "coverage" \in m.done
  /\ 2 \in m.shots => f.ctl.guided
  /\ user = "patient" =>
       /\ f.ghost.aim = "cursor"  => 1 \in m.shots
       /\ f.ghost.aim = "profile" => 2 \in m.shots /\ m.profiling
       /\ f.ghost.aim = "stepOut" => 3 \in m.shots

(* A Continue that leaves has everything done that it needs.                *)
LEMMA LeavesArmed ==
  ASSUME NEW f, NEW m, NEW r, FrameOK(f, NoCommand, m, r), f.lane.queue = <<>>,
         f.lane.stopped, f.lane.continuing
  PROVE  LeavesWith(f, m)
<1> DEFINE L == Line(NoCommand, f.lane.queue)
<1>1. \A i \in DOMAIN L : L[i] = NoCommand
  <2>1. L = Line(NoCommand, <<>>)
    OBVIOUS
  <2> HIDE DEF L
  <2> QED BY <2>1, EmptyLine
<1>2. LineOK(f, L, m, r) /\ PatienceOK(f, L, m) /\ Attached(f, r)
  BY DEF FrameOK
<1> HIDE DEF L
<1>3. \A i \in DOMAIN L : L[i].kind = "none"
  BY <1>1 DEF NoCommand
<1>4. f.win.bases => m.bp = f.model /\ m.wp = f.model
  BY <1>2, <1>3 DEF LineOK, EndsArmed, Ends, Attached
<1>5. "coverage" \in m.done
  BY <1>2, <1>3 DEF LineOK, EndsCovered, Holds, Attached
<1>6. 2 \in m.shots => f.ctl.guided
  BY <1>2, <1>3 DEF LineOK, ShotIsCleared, Holds
<1>7. user = "patient" =>
        /\ f.ghost.aim = "cursor"  => 1 \in m.shots
        /\ f.ghost.aim = "profile" => 2 \in m.shots /\ m.profiling
        /\ f.ghost.aim = "stepOut" => 3 \in m.shots
  BY <1>2, <1>3 DEF PatienceOK, ContinueHasItsEnd, Has, Holds
<1> QED BY <1>4, <1>5, <1>6, <1>7 DEF LeavesWith

(* The head of the queue goes out.                                          *)
LEMMA HeadGoesOut ==
  ASSUME NEW f, NEW m, NEW r, FrameOK(f, NoCommand, m, r), f.lane.queue # <<>>, f.lane.stopped,
         NEW g, g = [f EXCEPT !.lane =
                      [[@ EXCEPT !.current = Head(f.lane.queue)] EXCEPT !.queue = Tail(f.lane.queue)]]
  PROVE  FrameOK(g, g.lane.current, m, r)
<1> DEFINE q == f.lane.queue
           L == Line(NoCommand, q)
           M == Line(Head(q), Tail(q))
<1>1. /\ f \in FrameType /\ q \in Seq(Requests) /\ f.lane \in LaneType
      /\ f = [lane |-> f.lane, ctl |-> f.ctl, win |-> f.win, ghost |-> f.ghost, model |-> f.model]
  BY FrameIs, ControlIs DEF FrameOK
<1>2. /\ Quiet(f, NoCommand, m) /\ Attached(f, r) /\ LineOK(f, L, m, r) /\ PatienceOK(f, L, m)
  BY DEF FrameOK
<1>3. /\ Tail(q) \in Seq(Requests) /\ Head(q) \in Requests /\ Shifted(L, M)
  <2>1. q # <<>>
    OBVIOUS
  <2> HIDE DEF q
  <2> QED BY <1>1, <2>1, LineShifts
<1> DEFINE l == [[f.lane EXCEPT !.current = Head(q)] EXCEPT !.queue = Tail(q)]
<1>4. /\ l \in LaneType /\ l.queue = Tail(q) /\ l.current = Head(q)
      /\ l.stopped = f.lane.stopped /\ l.continuing = f.lane.continuing
  <2> DEFINE h == Head(q)
             t == Tail(q)
             k == [[f.lane EXCEPT !.current = h] EXCEPT !.queue = t]
  <2>1. h \in Requests /\ t \in Seq(Requests)
    BY <1>3
  <2>2. l = k
    OBVIOUS
  <2> HIDE DEF h, t, l
  <2>3. /\ k \in LaneType /\ k.queue = t /\ k.current = h
        /\ k.stopped = f.lane.stopped /\ k.continuing = f.lane.continuing
    BY <1>1, <2>1 DEF LaneType
  <2> HIDE DEF k
  <2> QED BY <2>2, <2>3 DEF h, t
<1>5. g = [f EXCEPT !.lane = l]
  OBVIOUS
<1> HIDE DEF l, L, M, q
<1>6. /\ g \in FrameType /\ g.lane = l /\ g.ctl = f.ctl /\ g.win = f.win
      /\ g.ghost = f.ghost /\ g.model = f.model
  BY <1>1, <1>4, <1>5 DEF FrameType
<1>7. Same(f, g)
  BY <1>4, <1>6 DEF Same
<1>8. Body(f, M, m, r)
  <2>1. L[0] = NoCommand /\ Less(L, M, {0})
    BY <1>3, ShiftedIsLess DEF Shifted
  <2>2. Done(f, L[0], m, r)
    BY <2>1 DEF Done, NoCommand
  <2>3. Body(f, L, m, r)
    BY <1>2 DEF Body
  <2> QED BY <2>1, <2>2, <2>3, LessBody
<1>9. Body(g, M, m, r)
  BY <1>7, <1>8, BodySame
<1>10. M = Line(g.lane.current, g.lane.queue)
  BY <1>4, <1>6 DEF M, q
<1>11. Quiet(g, g.lane.current, m)
  BY <1>2, <1>4, <1>6 DEF Quiet
<1>12. Attached(g, r)
  BY <1>2, <1>4, <1>6 DEF Attached
<1> QED BY <1>6, <1>9, <1>10, <1>11, <1>12 DEF FrameOK, Body

(* The Continue goes out: the program runs.                                 *)
LEMMA ContinueGoesOut ==
  ASSUME NEW f, NEW m \in MachineType, NEW r, FrameOK(f, NoCommand, m, r), f.lane.queue = <<>>,
         f.lane.stopped, f.lane.continuing,
         f.lane.current = NoCommand,
         NEW g, g \in FrameType, g.win = f.win, g.ghost = f.ghost, g.model = f.model,
         g.ctl = [f.ctl EXCEPT !.stopEvent = FALSE],
         g.lane = [[f.lane EXCEPT !.continuing = FALSE] EXCEPT !.stopped = FALSE]
  PROVE  /\ FrameOK(g, g.lane.current, [m EXCEPT !.going = TRUE], r)
         /\ [m EXCEPT !.going = TRUE] \in MachineType
<1> DEFINE L == Line(NoCommand, f.lane.queue)
           x == [m EXCEPT !.going = TRUE]
<1>1. /\ f \in FrameType /\ f.lane \in LaneType /\ f.ctl \in ControlType
  BY FrameIs DEF FrameOK
<1>2. /\ x \in MachineType /\ x.bp = m.bp /\ x.wp = m.wp /\ x.shots = m.shots /\ x.done = m.done
      /\ x.move = m.move /\ x.pc = m.pc /\ x.by = m.by /\ x.engine = m.engine
      /\ x.profiling = m.profiling /\ x.loaded = m.loaded /\ x.going
  BY DEF MachineType
<1>3. /\ g.lane.queue = <<>> /\ g.lane.current = NoCommand /\ ~g.lane.stopped /\ ~g.lane.continuing
  BY <1>1 DEF LaneType
<1>4. /\ g.ctl.attached = f.ctl.attached /\ g.ctl.armed = f.ctl.armed
      /\ g.ctl.stepOut = f.ctl.stepOut /\ ~g.ctl.stopEvent
      /\ g.ctl.stepEvent = f.ctl.stepEvent /\ g.ctl.turbo = f.ctl.turbo
      /\ g.ctl.coverage = f.ctl.coverage /\ g.ctl.profileSave = f.ctl.profileSave
      /\ g.ctl.guided = f.ctl.guided
  BY <1>1 DEF ControlType
<1> HIDE DEF x
<1>5. L = Line(g.lane.current, g.lane.queue)
  BY <1>3
<1>6. LineOK(f, L, m, r) /\ PatienceOK(f, L, m) /\ Attached(f, r)
  BY DEF FrameOK
<1>7. \A i \in DOMAIN L : L[i] = NoCommand
  <2>1. L = Line(NoCommand, <<>>)
    OBVIOUS
  <2> HIDE DEF L
  <2> QED BY <2>1, EmptyLine
<1> HIDE DEF L
<1>8. Quiet(g, g.lane.current, x)
  BY <1>3, <1>4 DEF Quiet
<1>9. Attached(g, r)
  BY <1>3, <1>4, <1>6 DEF Attached
<1>10. LineOK(g, L, x, r)
  <2>1. EndsArmed(g, L, x) /\ EndsCovered(g, L, x) /\ ShotIsCleared(g, L, x)
    BY <1>2, <1>4, <1>6 DEF LineOK, EndsArmed, EndsCovered, ShotIsCleared
  <2>2. ReportsAreFresh(L, x, r)
    BY <1>2, <1>6 DEF LineOK, ReportsAreFresh, ReadFirst, ReadAlready, NotRead
  <2>3. SaveIsComing(g, L) /\ BasesCome(g, L, x, r)
    BY <1>3, <1>4, <1>6 DEF LineOK, SaveIsComing, BasesCome
  <2>4. StopsAreRecorded(g, L, r)
    BY <1>6 DEF LineOK, StopsAreRecorded
  <2> QED BY <2>1, <2>2, <2>3, <2>4 DEF LineOK
<1>11. ASSUME user = "patient"
       PROVE  /\ ContinueHasItsEnd(g, L, x) /\ StepOutWaits(g, L, x) /\ SavesAreHere(g, L, x)
              /\ ViewsCome(g, L, x) /\ EventsCome(g, L, x) /\ SetupComes(g, L, x)
  <2>1. /\ StepOutWaits(f, L, m) /\ SavesAreHere(f, L, m) /\ ViewsCome(f, L, m)
        /\ EventsCome(f, L, m) /\ SetupComes(f, L, m)
    BY <1>6, <1>11 DEF PatienceOK
  <2>2. ContinueHasItsEnd(g, L, x) /\ StepOutWaits(g, L, x)
    BY <1>2, <1>3, <1>4, <2>1 DEF ContinueHasItsEnd, StepOutWaits
  <2>3. SavesAreHere(g, L, x) /\ ViewsCome(g, L, x)
    BY <1>2, <1>3, <2>1 DEF SavesAreHere, ViewsCome
  <2>4. EventsCome(g, L, x) /\ SetupComes(g, L, x)
    BY <1>2, <1>4, <2>1 DEF EventsCome, SetupComes
  <2> QED BY <2>2, <2>3, <2>4
<1>12. FrameOK(g, g.lane.current, x, r)
  BY <1>5, <1>8, <1>9, <1>10, <1>11 DEF FrameOK, PatienceOK
<1> QED BY <1>2, <1>12 DEF x

(* What Commit() makes of a frame.                                          *)
After(f, l, c) == [lane |-> l, ctl |-> c, win |-> f.win, ghost |-> f.ghost, model |-> f.model]

(* A handler that ends keeps the invariant, and what it leaves as it was.   *)
LEMMA CommitOK ==
  ASSUME NEW f, NEW m \in MachineType, NEW r, FrameOK(f, f.lane.current, m, r), Commit(f, m)
  PROVE  /\ FrameOK(After(f, lane', ctl'), lane'.current, machine', r)
         /\ machine' \in MachineType
         /\ win' = f.win /\ ghost' = f.ghost
         /\ lane'.stopped => f.lane.stopped /\ ctl' = f.ctl
         /\ ctl'.stepEvent = f.ctl.stepEvent /\ ctl'.stepOut = f.ctl.stepOut
         /\ ctl'.guided = f.ctl.guided
         /\ machine'.bp = m.bp /\ machine'.wp = m.wp /\ machine'.done = m.done
         /\ machine'.shots = m.shots /\ machine'.profiling = m.profiling
         /\ f.lane.stopped /\ ~lane'.stopped => f.lane.queue = <<>> /\ LeavesWith(f, m)
<1> DEFINE l == Dispatch(f.lane)
           o == OnRunning(f)
           g == After(f, lane', ctl')
           x == [m EXCEPT !.going = TRUE]
<1>1. /\ f \in FrameType /\ f.lane \in LaneType /\ f.ctl \in ControlType
      /\ f.win \in WindowType /\ f.ghost \in GhostType /\ f.model \in Nat \ {0}
      /\ f = [lane |-> f.lane, ctl |-> f.ctl, win |-> f.win, ghost |-> f.ghost, model |-> f.model]
  BY FrameIs DEF FrameOK
<1>2. /\ o.ctl = [f.ctl EXCEPT !.stopEvent = FALSE] /\ o.win = f.win /\ o.ghost = f.ghost
  BY <1>1 DEF OnRunning, FrameType
<1> HIDE DEF o, x
<1>3. /\ lane' = l
      /\ f.lane.stopped /\ ~l.stopped =>
           ctl' = o.ctl /\ win' = o.win /\ ghost' = o.ghost /\ machine' = x
      /\ ~(f.lane.stopped /\ ~l.stopped) =>
           ctl' = f.ctl /\ win' = f.win /\ ghost' = f.ghost /\ machine' = m
  BY DEF Commit, o, x
<1>4. \/ l = f.lane
      \/ /\ f.lane.current = NoCommand /\ f.lane.queue # <<>> /\ f.lane.stopped
         /\ l = [[f.lane EXCEPT !.current = Head(f.lane.queue)] EXCEPT !.queue = Tail(f.lane.queue)]
      \/ /\ f.lane.current = NoCommand /\ f.lane.queue = <<>> /\ f.lane.stopped /\ f.lane.continuing
         /\ l = [[f.lane EXCEPT !.continuing = FALSE] EXCEPT !.stopped = FALSE]
  BY <1>1, DispatchIs
<1> HIDE DEF l
<1>5. CASE l = f.lane
  <2>1. /\ lane' = f.lane /\ ctl' = f.ctl /\ win' = f.win /\ ghost' = f.ghost /\ machine' = m
    BY <1>3, <1>5
  <2>2. g = f
    BY <1>1, <2>1 DEF After
  <2> HIDE DEF g
  <2> QED BY <2>1, <2>2 DEF g
<1>6. CASE /\ f.lane.current = NoCommand /\ f.lane.queue # <<>> /\ f.lane.stopped
           /\ l = [[f.lane EXCEPT !.current = Head(f.lane.queue)] EXCEPT !.queue = Tail(f.lane.queue)]
  <2>1. l.stopped = f.lane.stopped
    BY <1>1, <1>6 DEF LaneType
  <2>2. /\ lane' = l /\ ctl' = f.ctl /\ win' = f.win /\ ghost' = f.ghost /\ machine' = m
    BY <1>3, <2>1
  <2>3. g = [f EXCEPT !.lane = l] /\ g.lane = l
    BY <1>1, <2>2 DEF After
  <2> HIDE DEF g
  <2>4. g = [f EXCEPT !.lane =
               [[@ EXCEPT !.current = Head(f.lane.queue)] EXCEPT !.queue = Tail(f.lane.queue)]]
    BY <1>6, <2>3
  <2>5. FrameOK(f, NoCommand, m, r)
    BY <1>6
  <2>6. FrameOK(g, g.lane.current, m, r)
    BY <1>6, <2>4, <2>5, HeadGoesOut
  <2> QED BY <1>6, <2>1, <2>2, <2>3, <2>6 DEF g
<1>7. CASE /\ f.lane.current = NoCommand /\ f.lane.queue = <<>> /\ f.lane.stopped /\ f.lane.continuing
           /\ l = [[f.lane EXCEPT !.continuing = FALSE] EXCEPT !.stopped = FALSE]
  <2>1. ~l.stopped /\ l \in LaneType
    BY <1>1, <1>7 DEF LaneType
  <2>2. /\ lane' = l /\ ctl' = [f.ctl EXCEPT !.stopEvent = FALSE] /\ win' = f.win
        /\ ghost' = f.ghost /\ machine' = x
    BY <1>2, <1>3, <1>7, <2>1
  <2>3. ctl' \in ControlType /\ ctl'.stepEvent = f.ctl.stepEvent /\ ctl'.stepOut = f.ctl.stepOut
        /\ ctl'.guided = f.ctl.guided
    BY <1>1, <2>2 DEF ControlType
  <2>4. /\ g \in FrameType /\ g.lane = l /\ g.ctl = ctl' /\ g.win = f.win /\ g.ghost = f.ghost
        /\ g.model = f.model
    BY <1>1, <2>1, <2>2, <2>3 DEF FrameType, After
  <2> HIDE DEF g
  <2>5. FrameOK(f, NoCommand, m, r)
    BY <1>7
  <2>6. /\ FrameOK(g, g.lane.current, [m EXCEPT !.going = TRUE], r)
        /\ [m EXCEPT !.going = TRUE] \in MachineType
    BY <1>7, <2>2, <2>4, <2>5, ContinueGoesOut
  <2>7. /\ x.bp = m.bp /\ x.wp = m.wp /\ x.done = m.done /\ x.shots = m.shots
        /\ x.profiling = m.profiling
    BY DEF x, MachineType
  <2>8. LeavesWith(f, m)
    BY <1>7, <2>5, LeavesArmed
  <2>9. FrameOK(g, g.lane.current, x, r) /\ x \in MachineType
    BY <2>6 DEF x
  <2> QED BY <1>7, <2>1, <2>2, <2>3, <2>4, <2>7, <2>8, <2>9 DEF g
<1> QED BY <1>4, <1>5, <1>6, <1>7

(* What every step of a live session is: a frame, and what dispatchNext()   *)
(* makes of it.                                                             *)
Takes(f, m) ==
  /\ Commit(f, m) /\ m \in MachineType /\ FrameOK(f, f.lane.current, m, read')
  /\ f.model = model' /\ (f.lane.queue = <<>> => model' = model)
  /\ lane.stopped => f.lane.stopped
  /\ win.bases => f.win.bases
  /\ lane.stopped /\ ctl.stopEvent /\ ~f.ctl.stopEvent =>
       f.win.seen.valid /\ f.win.seen.move = machine.move
  /\ user = "patient" /\ ctl.stepEvent /\ ~f.ctl.stepEvent =>
       machine.by = "step" /\ f.win.seen.move = machine.move
  /\ user = "patient" /\ ctl.stepOut /\ ~f.ctl.stepOut => DumpIsTheStops

(* What the session's other variables do.                                   *)
Stays ==
  /\ live /\ live' /\ user' = user /\ sessions' = sessions
  /\ read' \in States /\ model' \in Nat \ {0} /\ acts' \in Nat

(* The frame of the state.                                                  *)
LEMMA FrameHas ==
  /\ Frame.lane = lane /\ Frame.ctl = ctl /\ Frame.win = win /\ Frame.ghost = ghost
  /\ Frame.model = model
BY DEF Frame

(* A live session, at a stop.                                               *)
LEMMA LiveIs ==
  ASSUME IInv, live
  PROVE  /\ FrameOK(Frame, lane.current, machine, read) /\ Frame \in FrameType
         /\ machine \in MachineType /\ read \in States /\ lane \in LaneType
         /\ user \in {"patient", "hasty"} /\ model \in Nat \ {0} /\ acts \in Nat /\ sessions \in Nat
         /\ lane.stopped => Good(Frame, lane.current, machine, read) /\ ~machine.going
         /\ lane.current \in Commands
<1>1. FrameOK(Frame, lane.current, machine, read)
  BY DEF IInv
<1>2. /\ machine \in MachineType /\ read \in States /\ lane \in LaneType
      /\ user \in {"patient", "hasty"} /\ model \in Nat \ {0} /\ acts \in Nat /\ sessions \in Nat
  BY DEF IInv, TypeOK
<1>3. Frame \in FrameType /\ Attached(Frame, read) /\ Quiet(Frame, lane.current, machine)
      /\ Body(Frame, Line(lane.current, Frame.lane.queue), machine, read)
  BY <1>1 DEF FrameOK, Body
<1>4. lane.stopped => Good(Frame, lane.current, machine, read) /\ ~machine.going
  <2>1. Frame.lane = lane
    BY FrameHas
  <2> QED BY <1>3, <2>1 DEF Good, Quiet
<1>5. lane.current \in Commands
  BY <1>2, LaneIs
<1> QED BY <1>1, <1>2, <1>3, <1>4, <1>5

(* Nothing is to be done at a settled stop.                                 *)
LEMMA SettledIs ==
  ASSUME IInv, live, lane.stopped, Settled
  PROVE  /\ lane.queue = <<>> /\ lane.current = NoCommand /\ ~lane.continuing
         /\ LET L == Line(lane.current, lane.queue) IN \A i \in DOMAIN L : L[i] = NoCommand
<1>1. lane.queue = <<>> /\ lane.current = NoCommand /\ ~lane.continuing
  BY DEF Settled, InFlight
<1>2. Line(lane.current, lane.queue) = Line(NoCommand, <<>>)
  BY <1>1
<1> QED BY <1>1, <1>2, EmptyLine

(* An answer takes a frame.                                                 *)
LEMMA CompleteTakes ==
  ASSUME IInv, Complete
  PROVE  Stays /\ \E f, m : Takes(f, m)
<1> DEFINE c == lane.current
<1>1. live /\ InFlight(lane)
  BY DEF Complete
<1>2. /\ FrameOK(Frame, c, machine, read) /\ machine \in MachineType /\ read \in States
      /\ lane \in LaneType /\ model \in Nat \ {0} /\ acts \in Nat /\ c \in Commands
      /\ lane.stopped => Good(Frame, c, machine, read) /\ ~machine.going
  BY <1>1, LiveIs
<1>3. c \in Requests /\ c # NoCommand
  BY <1>1, <1>2 DEF InFlight, Commands
<1>4. lane.stopped
  BY <1>2, <1>3, FrameHas DEF FrameOK, Quiet
<1>5. PICK pc \in Pcs, plausible \in BOOLEAN :
        LET f == Reported(Saved(Frame, c), c, plausible)
        IN  Commit(OnFinished([f EXCEPT !.lane.current = NoCommand], c), Executed(machine, c, pc))
  BY DEF Complete
<1>6. /\ read' = Parsed(read, c) /\ user' = user /\ live' = live /\ model' = model
      /\ acts' = acts /\ sessions' = sessions
  BY DEF Complete
<1>7. Stays
  <2>1. read' \in States
    BY <1>2, <1>6, ParsedIs
  <2> QED BY <1>1, <1>2, <1>6, <2>1 DEF Stays
<1> DEFINE m == Executed(machine, c, pc)
           x == Parsed(read, c)
           h == Reported(Saved(Frame, c), c, plausible)
           g == OnFinished([h EXCEPT !.lane.current = NoCommand], c)
<1>8. Commit(g, m)
  BY <1>5
<1> HIDE DEF c
<1>9. /\ Good(g, NoCommand, m, x) /\ g.lane.current = NoCommand
      /\ g.ctl.attached = Frame.ctl.attached /\ g.model = Frame.model
      /\ Frame.win.bases => g.win.bases
      /\ (Frame.ctl.stopEvent /\ ~g.ctl.stopEvent) \/ (Frame.ctl.stepEvent /\ ~g.ctl.stepEvent) =>
           /\ c.emits /\ g.win.seen.valid /\ g.win.seen.move = machine.move
  BY <1>2, <1>3, <1>4, CompleteGood
<1>10. m \in MachineType /\ ~m.going
  BY <1>2, <1>3, <1>4, ExecutedIs
<1> HIDE DEF m, x, h, g
<1>11. /\ FrameOK(g, g.lane.current, m, x) /\ g.lane.stopped
  <2>1. NoCommand \in Commands
    BY DEF Commands
  <2>2. FrameOK(g, NoCommand, m, x)
    BY <1>9, <1>10, <2>1, GoodIs
  <2>3. g.lane.stopped
    BY <1>9 DEF Good
  <2> QED BY <1>9, <2>2, <2>3
<1> DEFINE L == Line(c, lane.queue)
<1>12. /\ Body(Frame, L, machine, read) /\ Frame.lane = lane
  BY <1>2, <1>4, FrameHas DEF Good
<1>13. user = "patient" /\ ctl.stepEvent /\ ~g.ctl.stepEvent =>
         machine.by = "step" /\ g.win.seen.move = machine.move
  <2> SUFFICES ASSUME user = "patient", ctl.stepEvent, ~g.ctl.stepEvent
               PROVE  machine.by = "step" /\ g.win.seen.move = machine.move
    OBVIOUS
  <2>1. c.emits /\ g.win.seen.move = machine.move
    BY <1>9, FrameHas
  <2>2. ~Holds(Line(c, Frame.lane.queue), "step")
    BY <1>2, <1>3, <1>4, <2>1, PatientReports
  <2>3. ~Holds(L, "step")
    BY <1>12, <2>2
  <2> HIDE DEF L
  <2>4. EventsCome(Frame, L, machine)
    BY <1>12 DEF Body, PatienceOK
  <2>5. machine.by = "step"
    BY <2>3, <2>4, FrameHas DEF EventsCome
  <2> QED BY <2>1, <2>5
<1>14. user = "patient" /\ ctl.stepOut => DumpIsTheStops
  <2> SUFFICES ASSUME user = "patient", ctl.stepOut PROVE DumpIsTheStops
    OBVIOUS
  <2>1. 0 \in DOMAIN L /\ L[0] = c
    <3>1. lane.queue \in Seq(Requests)
      BY <1>2, LaneIs
    <3>2. /\ Len(lane.queue) \in Nat /\ DOMAIN L = 0..Len(lane.queue) /\ L[0] = c
      BY <1>2, <3>1, LineIs
    <3> QED BY <3>2
  <2> HIDE DEF L
  <2>2. StepOutWaits(Frame, L, machine)
    BY <1>12 DEF Body, PatienceOK
  <2>3. /\ ghost.outAt = machine.move
        /\ \A i \in DOMAIN L : L[i].kind = "none" \/ (L[i].kind = "dump" /\ L[i].n = machine.move)
    BY <2>2, FrameHas DEF StepOutWaits
  <2>4. c.kind # "none"
    BY <1>3 DEF Requests, Kinds
  <2>5. c.n = machine.move
    BY <2>1, <2>3, <2>4
  <2> QED BY <2>3, <2>5 DEF DumpIsTheStops, c
<1>15. Takes(g, m)
  <2>1. read' = x
    BY <1>6 DEF x, c
  <2>2. FrameOK(g, g.lane.current, m, read')
    BY <1>11, <2>1
  <2>3. g.model = model' /\ model' = model /\ (win.bases => g.win.bases)
    BY <1>6, <1>9, FrameHas
  <2>4. ctl.stopEvent /\ ~g.ctl.stopEvent => g.win.seen.valid /\ g.win.seen.move = machine.move
    BY <1>9, FrameHas
  <2> QED BY <1>8, <1>10, <1>11, <1>13, <1>14, <2>2, <2>3, <2>4 DEF Takes
<1> QED BY <1>7, <1>15

(* The debugger where the program has stopped.                              *)
IsStopped(m, x) ==
  /\ x \in MachineType /\ x.move = m.move + 1 /\ ~x.going
  /\ x.bp = m.bp /\ x.wp = m.wp /\ x.shots \subseteq m.shots
  /\ x.done = m.done /\ x.engine = m.engine

(* What it is there.                                                        *)
LEMMA StoppedIs ==
  ASSUME NEW m \in MachineType, NEW pc \in Pcs, NEW loaded \in BOOLEAN, NEW hit
  PROVE  IsStopped(m, [Moved(m, "stop", pc) EXCEPT
                         !.going = FALSE, !.loaded = loaded, !.shots = @ \ hit])
<1> DEFINE x == [Moved(m, "stop", pc) EXCEPT !.going = FALSE, !.loaded = loaded, !.shots = @ \ hit]
           y == Moved(m, "stop", pc)
<1>1. /\ m.move \in Nat /\ m.move + 1 \in Nat /\ pc \in Pcs \union {0} /\ "stop" \in {"stop", "step"}
      /\ m.shots \in SUBSET {1, 2, 3}
  BY DEF MachineType
<1>2. y = [m EXCEPT !.move = m.move + 1, !.pc = pc, !.by = "stop"]
  BY DEF Moved
<1> HIDE DEF y
<1>3. PICK u : u = [m EXCEPT !.move = m.move + 1]
  OBVIOUS
<1>4. PICK v : v = [u EXCEPT !.pc = pc]
  OBVIOUS
<1>5. y = [v EXCEPT !.by = "stop"]
  BY <1>2, <1>3, <1>4
<1>6. /\ u \in MachineType /\ u.move = m.move + 1 /\ u.bp = m.bp /\ u.wp = m.wp
      /\ u.shots = m.shots /\ u.done = m.done /\ u.engine = m.engine
  BY <1>1, <1>3 DEF MachineType
<1>7. /\ v \in MachineType /\ v.move = m.move + 1 /\ v.bp = m.bp /\ v.wp = m.wp
      /\ v.shots = m.shots /\ v.done = m.done /\ v.engine = m.engine
  BY <1>1, <1>4, <1>6 DEF MachineType
<1>8. /\ y \in MachineType /\ y.move = m.move + 1 /\ y.bp = m.bp /\ y.wp = m.wp
      /\ y.shots = m.shots /\ y.done = m.done /\ y.engine = m.engine
  BY <1>1, <1>5, <1>7 DEF MachineType
<1>9. x = [y EXCEPT !.going = FALSE, !.loaded = loaded, !.shots = y.shots \ hit]
  BY DEF y
<1> HIDE DEF x
<1>10. PICK s : s = [y EXCEPT !.going = FALSE]
  OBVIOUS
<1>11. PICK t : t = [s EXCEPT !.loaded = loaded]
  OBVIOUS
<1>12. x = [t EXCEPT !.shots = y.shots \ hit]
  BY <1>9, <1>10, <1>11
<1>13. /\ s \in MachineType /\ s.move = m.move + 1 /\ s.bp = m.bp /\ s.wp = m.wp /\ ~s.going
       /\ s.done = m.done /\ s.engine = m.engine
  BY <1>8, <1>10 DEF MachineType
<1>14. /\ t \in MachineType /\ t.move = m.move + 1 /\ t.bp = m.bp /\ t.wp = m.wp /\ ~t.going
       /\ t.done = m.done /\ t.engine = m.engine
  BY <1>11, <1>13 DEF MachineType
<1>15. y.shots \ hit \in SUBSET {1, 2, 3} /\ y.shots \ hit \subseteq m.shots
  BY <1>1, <1>8
<1>16. /\ x \in MachineType /\ x.move = m.move + 1 /\ x.bp = m.bp /\ x.wp = m.wp /\ ~x.going
       /\ x.done = m.done /\ x.engine = m.engine /\ x.shots = y.shots \ hit
  <2> DEFINE z == y.shots \ hit
  <2>1. x = [t EXCEPT !.shots = z] /\ z \in SUBSET {1, 2, 3}
    BY <1>12, <1>15
  <2> HIDE DEF z
  <2>2. /\ x \in MachineType /\ x.move = m.move + 1 /\ x.bp = m.bp /\ x.wp = m.wp /\ ~x.going
        /\ x.done = m.done /\ x.engine = m.engine /\ x.shots = z
    BY <1>14, <2>1 DEF MachineType
  <2> QED BY <2>2 DEF z
<1>17. IsStopped(m, x)
  BY <1>15, <1>16 DEF IsStopped
<1> QED BY <1>17 DEF x

(* A stop takes a frame.                                                    *)
LEMMA StopTakes ==
  ASSUME IInv, Stop
  PROVE  Stays /\ \E f, m : Takes(f, m)
<1>1. live /\ machine.going
  BY DEF Stop
<1>2. /\ FrameOK(Frame, lane.current, machine, read) /\ machine \in MachineType /\ read \in States
      /\ model \in Nat \ {0} /\ acts \in Nat
      /\ lane.stopped => ~machine.going
  BY <1>1, LiveIs
<1>3. ~lane.stopped /\ lane.current = NoCommand /\ ~ctl.stopEvent
  BY <1>1, <1>2, FrameHas DEF FrameOK, Quiet
<1>4. PICK pc \in Pcs, loaded \in {machine.loaded, TRUE}, hit \in SUBSET machine.shots,
          banner \in {FALSE, ~ctl.attached} :
        Commit(OnStopped([Frame EXCEPT !.lane.stopped = TRUE, !.lane.entry = banner]),
               [Moved(machine, "stop", pc) EXCEPT
                  !.going = FALSE, !.loaded = loaded, !.shots = @ \ hit])
  BY DEF Stop
<1>5. /\ read' = read /\ user' = user /\ live' = live /\ model' = model
      /\ acts' = acts /\ sessions' = sessions
  BY DEF Stop
<1>6. Stays
  BY <1>1, <1>2, <1>5 DEF Stays
<1> DEFINE h == [Frame EXCEPT !.lane.stopped = TRUE, !.lane.entry = banner]
           g == OnStopped(h)
           x == [Moved(machine, "stop", pc) EXCEPT
                   !.going = FALSE, !.loaded = loaded, !.shots = @ \ hit]
<1>7. /\ x \in MachineType /\ x.move = machine.move + 1 /\ ~x.going
      /\ x.bp = machine.bp /\ x.wp = machine.wp /\ x.shots \subseteq machine.shots
      /\ x.done = machine.done /\ x.engine = machine.engine
  <2>1. loaded \in BOOLEAN
    BY <1>2 DEF MachineType
  <2>2. IsStopped(machine, x)
    BY <1>2, <2>1, StoppedIs
  <2> HIDE DEF x
  <2> QED BY <2>2 DEF IsStopped
<1>8. banner \in BOOLEAN
  BY <1>2, ControlIs, FrameHas DEF FrameOK
<1>9. Commit(g, x)
  BY <1>4
<1> HIDE DEF x
<1>10. /\ Good(g, NoCommand, x, read) /\ g.lane.current = Frame.lane.current
       /\ g.model = Frame.model /\ g.win = Frame.win
       /\ user = "patient" => ~Frame.ctl.stepOut /\ ~Frame.ctl.stepEvent
  <2>1. FrameOK(Frame, NoCommand, machine, read)
    BY <1>2, <1>3
  <2> QED BY <1>1, <1>2, <1>7, <1>8, <2>1, StopGood
<1> HIDE DEF g, h
<1>11. FrameOK(g, NoCommand, x, read)
  <2>1. NoCommand \in Commands
    BY DEF Commands
  <2> QED BY <1>7, <1>10, <2>1, GoodIs
<1>12. FrameOK(g, g.lane.current, x, read')
  BY <1>3, <1>5, <1>10, <1>11, FrameHas
<1>13. Takes(g, x)
  BY <1>3, <1>5, <1>7, <1>9, <1>10, <1>12, FrameHas DEF Takes
<1> QED BY <1>6, <1>13

(* A frame that a request of the user, or nothing, makes of the state.      *)
LEMMA CarriesTakes ==
  ASSUME IInv, live, NEW g, Commit(g, machine), FrameOK(g, g.lane.current, machine, read),
         g.lane.stopped = lane.stopped, g.model = model, g.win.bases = win.bases,
         g.ctl.stopEvent = ctl.stopEvent, ctl.stepEvent => g.ctl.stepEvent,
         user = "patient" /\ ctl.stepOut => g.ctl.stepOut,
         read' = read, model' = model
  PROVE  Takes(g, machine)
<1>1. machine \in MachineType
  BY LiveIs
<1> QED BY <1>1 DEF Takes

(* The entry prompt takes a frame.                                          *)
LEMMA EntryTakes ==
  ASSUME IInv, EntryPrompt
  PROVE  Stays /\ \E f, m : Takes(f, m)
<1> DEFINE g == [Frame EXCEPT !.lane.entry = FALSE]
<1>1. /\ live /\ Commit(g, machine) /\ read' = read /\ user' = user /\ live' = live
      /\ model' = model /\ acts' = acts /\ sessions' = sessions
  BY DEF EntryPrompt
<1>2. /\ FrameOK(Frame, lane.current, machine, read) /\ Frame \in FrameType
      /\ read \in States /\ model \in Nat \ {0} /\ acts \in Nat /\ lane \in LaneType
  BY <1>1, LiveIs
<1>3. Stays
  BY <1>1, <1>2 DEF Stays
<1>4. /\ g \in FrameType /\ g.lane = [lane EXCEPT !.entry = FALSE] /\ g.ctl = ctl /\ g.win = win
      /\ g.ghost = ghost /\ g.model = model
  <2>1. Frame = [lane |-> lane, ctl |-> ctl, win |-> win, ghost |-> ghost, model |-> model]
    BY DEF Frame
  <2>2. /\ lane \in LaneType /\ ctl \in ControlType /\ win \in WindowType
        /\ ghost \in GhostType /\ model \in Nat \ {0}
    BY <1>2, FrameIs, FrameHas
  <2>3. [lane EXCEPT !.entry = FALSE] \in LaneType
    BY <2>2 DEF LaneType
  <2>4. g = [Frame EXCEPT !.lane = [lane EXCEPT !.entry = FALSE]]
    BY <2>1
  <2> HIDE DEF g
  <2>5. g = [lane |-> [lane EXCEPT !.entry = FALSE], ctl |-> ctl, win |-> win, ghost |-> ghost,
             model |-> model]
    BY <2>1, <2>4
  <2> QED BY <2>2, <2>3, <2>5 DEF FrameType
<1> HIDE DEF g
<1>5. /\ g.lane.queue = lane.queue /\ g.lane.current = lane.current
      /\ g.lane.stopped = lane.stopped /\ g.lane.continuing = lane.continuing
  BY <1>2, <1>4 DEF LaneType
<1>6. Same(Frame, g)
  BY <1>4, <1>5, FrameHas DEF Same
<1> DEFINE L == Line(lane.current, lane.queue)
<1>7. /\ Body(Frame, L, machine, read) /\ Quiet(Frame, lane.current, machine) /\ Attached(Frame, read)
  BY <1>2, FrameHas DEF FrameOK, Body
<1> HIDE DEF L
<1>8. Body(g, L, machine, read)
  BY <1>6, <1>7, BodySame
<1>9. Quiet(g, lane.current, machine) /\ Attached(g, read)
  BY <1>4, <1>5, <1>7, FrameHas DEF Quiet, Attached
<1>10. FrameOK(g, g.lane.current, machine, read)
  BY <1>4, <1>5, <1>8, <1>9 DEF FrameOK, Body, L
<1>11. Takes(g, machine)
  BY <1>1, <1>4, <1>5, <1>10, CarriesTakes
<1> QED BY <1>3, <1>11

(* What the user asks for is asked at a stop.                               *)
LEMMA AskedIs ==
  ASSUME IInv, MayAct
  PROVE  /\ Good(Frame, lane.current, machine, read) /\ ~machine.going /\ live
         /\ Calm(Frame, lane.current)
         /\ lane.current \in Commands /\ machine \in MachineType
         /\ user = "patient" => ~ctl.stepOut
<1>1. live /\ lane.stopped /\ (user = "patient" => Settled)
  BY DEF MayAct
<1>2. /\ Good(Frame, lane.current, machine, read) /\ ~machine.going
      /\ lane.current \in Commands /\ machine \in MachineType
  BY <1>1, LiveIs
<1>3. Calm(Frame, lane.current)
  BY <1>1, FrameHas, SettledIs DEF Calm
<1>4. user = "patient" => ~ctl.stepOut
  BY <1>2, <1>3, CalmIs, FrameHas
<1> QED BY <1>1, <1>2, <1>3, <1>4

(* A request of the user takes a frame.                                     *)
LEMMA AskTakes ==
  ASSUME IInv, NEW g, Ask(g), Good(g, lane.current, machine, read), Carries(Frame, g)
  PROVE  Stays /\ \E f, m : Takes(f, m)
<1>1. /\ MayAct /\ acts' = acts + 1 /\ Commit(g, machine)
      /\ user' = user /\ live' = live /\ read' = read /\ model' = model /\ sessions' = sessions
  BY DEF Ask
<1>2. /\ live /\ lane.stopped /\ ~machine.going /\ lane.current \in Commands
      /\ user = "patient" => ~ctl.stepOut
  BY <1>1, AskedIs DEF MayAct
<1>3. read \in States /\ model \in Nat \ {0} /\ acts \in Nat
  BY <1>2, LiveIs
<1>4. Stays
  BY <1>1, <1>2, <1>3 DEF Stays
<1>5. /\ g.lane.stopped = lane.stopped /\ g.lane.current = lane.current
      /\ g.ctl.stopEvent = ctl.stopEvent /\ (ctl.stepEvent => g.ctl.stepEvent)
      /\ g.win.bases = win.bases /\ g.model = model
  BY FrameHas DEF Carries
<1>6. FrameOK(g, g.lane.current, machine, read)
  BY <1>2, <1>5, GoodIs
<1>7. Takes(g, machine)
  BY <1>1, <1>2, <1>5, <1>6, CarriesTakes
<1> QED BY <1>4, <1>7

(* Each of them does.                                                       *)
LEMMA UserTakes ==
  ASSUME IInv,
         UserSteps \/ UserStepsOut \/ UserContinues \/ UserRunsToCursor \/ UserProfilesToCursor
  PROVE  Stays /\ \E f, m : Takes(f, m)
<1>1. CASE UserSteps
  <2>1. Ask(Step(Frame)) /\ MayAct
    BY <1>1 DEF UserSteps, Ask
  <2>2. Good(Step(Frame), lane.current, machine, read) /\ Carries(Frame, Step(Frame))
    BY <2>1, AskedIs, StepGood
  <2> QED BY <2>1, <2>2, AskTakes
<1>2. CASE UserStepsOut
  <2>1. Ask(StepOut(Frame)) /\ MayAct
    BY <1>2 DEF UserStepsOut, Ask
  <2>2. Good(StepOut(Frame), lane.current, machine, read) /\ Carries(Frame, StepOut(Frame))
    BY <2>1, AskedIs, StepOutGood
  <2> QED BY <2>1, <2>2, AskTakes
<1>3. CASE UserContinues
  <2>1. Ask(Go(Frame)) /\ MayAct
    BY <1>3 DEF UserContinues, Ask
  <2>2. Good(Go(Frame), lane.current, machine, read) /\ Carries(Frame, Go(Frame))
    BY <2>1, AskedIs, GoGood
  <2> QED BY <2>1, <2>2, AskTakes
<1>4. CASE UserRunsToCursor
  <2>1. Ask(RunToCursor(Frame)) /\ MayAct
    BY <1>4 DEF UserRunsToCursor, Ask
  <2>2. Good(RunToCursor(Frame), lane.current, machine, read) /\ Carries(Frame, RunToCursor(Frame))
    BY <2>1, AskedIs, RunToCursorGood
  <2> QED BY <2>1, <2>2, AskTakes
<1>5. CASE UserProfilesToCursor
  <2>1. Ask(ProfileToCursor(Frame)) /\ MayAct
    BY <1>5 DEF UserProfilesToCursor, Ask
  <2>2. Good(ProfileToCursor(Frame), lane.current, machine, read)
        /\ Carries(Frame, ProfileToCursor(Frame))
    BY <2>1, AskedIs, ProfileToCursorGood
  <2> QED BY <2>1, <2>2, AskTakes
<1> QED BY <1>1, <1>2, <1>3, <1>4, <1>5

(* An edit in a live session takes a frame.                                 *)
LEMMA EditTakes ==
  ASSUME IInv, live, UserEdits
  PROVE  Stays /\ \E f, m : Takes(f, m)
<1> DEFINE g == ArmBreakpoints([Frame EXCEPT !.model = model'])
<1>1. /\ model' = model + 1 /\ user' = user /\ live' = live /\ read' = read /\ acts' = acts
      /\ sessions' = sessions /\ (user = "patient" => (lane.stopped => Settled))
      /\ Commit(g, machine)
  BY DEF UserEdits
<1>2. /\ FrameOK(Frame, lane.current, machine, read) /\ machine \in MachineType
      /\ read \in States /\ model \in Nat \ {0} /\ acts \in Nat
  BY LiveIs
<1>3. model' \in Nat \ {0}
  BY <1>1, <1>2
<1>4. Stays
  BY <1>1, <1>2, <1>3 DEF Stays
<1>5. /\ FrameOK(g, g.lane.current, machine, read) /\ g.lane.queue # <<>>
      /\ g.lane.stopped = Frame.lane.stopped /\ g.model = model' /\ g.win = Frame.win
      /\ g.ctl.stopEvent = Frame.ctl.stopEvent /\ g.ctl.stepEvent = Frame.ctl.stepEvent
      /\ g.ctl.stepOut = Frame.ctl.stepOut
  <2>1. user = "patient" /\ Frame.lane.stopped =>
          Frame.lane.queue = <<>> /\ Frame.lane.current = NoCommand /\ ~Frame.lane.continuing
    BY <1>1, FrameHas, SettledIs
  <2>2. FrameOK(Frame, Frame.lane.current, machine, read)
    BY <1>2, FrameHas
  <2> QED BY <1>3, <2>1, <2>2, EditGood
<1> HIDE DEF g
<1>6. Takes(g, machine)
  BY <1>1, <1>2, <1>5, FrameHas DEF Takes
<1> QED BY <1>4, <1>6

-----------------------------------------------------------------------------
(* What a live session's step keeps.                                        *)
LEMMA TakesKeeps ==
  ASSUME IInv, Stays, NEW f, NEW m, Takes(f, m)
  PROVE  IInv'
<1> DEFINE g == After(f, lane', ctl')
<1>1. /\ Commit(f, m) /\ m \in MachineType /\ FrameOK(f, f.lane.current, m, read')
      /\ f.model = model'
  BY DEF Takes
<1>2. /\ FrameOK(g, lane'.current, machine', read') /\ machine' \in MachineType
      /\ win' = f.win /\ ghost' = f.ghost
  BY <1>1, CommitOK
<1>3. g = Frame'
  BY <1>1, <1>2 DEF After, Frame
<1>4. /\ g.lane = lane' /\ g.ctl = ctl' /\ g.win = win' /\ g.ghost = ghost'
  BY <1>2 DEF After
<1> HIDE DEF g
<1>5. /\ lane' \in LaneType /\ ctl' \in ControlType /\ win' \in WindowType /\ ghost' \in GhostType
  <2>1. g \in FrameType
    BY <1>2 DEF FrameOK
  <2> QED BY <1>4, <2>1, FrameIs
<1>6. /\ live' /\ user' = user /\ user \in {"patient", "hasty"} /\ sessions' \in Nat
      /\ read' \in States /\ model' \in Nat \ {0} /\ acts' \in Nat
  BY LiveIs DEF Stays
<1>7. TypeOK'
  BY <1>2, <1>5, <1>6 DEF TypeOK
<1>8. FrameOK(Frame, lane.current, machine, read)'
  BY <1>2, <1>3, <1>6 DEF FrameOK, PatienceOK
<1> QED BY <1>6, <1>7, <1>8 DEF IInv

(* An edit between sessions changes what the panel lists, and nothing else. *)
LEMMA IdleEdit ==
  ASSUME IInv, ~live, UserEdits
  PROVE  IInv' /\ UNCHANGED <<live, lane, ctl, win, machine, sessions>>
<1> DEFINE f == [Frame EXCEPT !.model = model']
<1>1. /\ model' = model + 1 /\ user' = user /\ live' = live /\ read' = read /\ acts' = acts
      /\ sessions' = sessions /\ Commit(f, machine)
  BY DEF UserEdits
<1>2. TypeOK /\ NoSession
  BY DEF IInv
<1>3. f.lane = lane /\ f.ctl = ctl /\ f.win = win /\ f.ghost = ghost
  BY DEF Frame
<1> HIDE DEF f
<1>4. Dispatch(lane) = lane
  BY <1>2 DEF Dispatch, NoSession
<1>5. lane' = lane /\ ctl' = ctl /\ win' = win /\ ghost' = ghost /\ machine' = machine
  BY <1>1, <1>3, <1>4 DEF Commit
<1>6. TypeOK' /\ NoSession'
  BY <1>1, <1>2, <1>5 DEF TypeOK, NoSession
<1> QED BY <1>1, <1>5, <1>6 DEF IInv

(* A session that is over leaves nothing.                                   *)
LEMMA NewIs ==
  /\ NewControl \in ControlType /\ NewWindow \in WindowType /\ NoState \in States
  /\ NewMachine \in MachineType /\ NewLane \in LaneType
<1>1. NoState \in States
  BY DEF NoState, States
<1>2. NewWindow \in WindowType
  BY <1>1 DEF NewWindow, WindowType
<1> QED BY <1>1, <1>2 DEF NewControl, ControlType, NewMachine, MachineType, NewLane, LaneType

(* The end of a session keeps the invariant.                                *)
LEMMA EndKeeps ==
  ASSUME IInv, End
  PROVE  IInv' /\ ~live'
<1>1. /\ live' = FALSE /\ ctl' = NewControl /\ win' = NewWindow
      /\ lane' = [lane EXCEPT !.queue = <<>>, !.current = NoCommand, !.stopped = FALSE]
      /\ machine' = [machine EXCEPT !.going = FALSE]
      /\ user' = user /\ read' = read /\ model' = model /\ ghost' = ghost /\ acts' = acts
      /\ sessions' = sessions
  BY DEF End, ResetControl, ResetWindow
<1>2. TypeOK
  BY DEF IInv
<1>3. /\ lane' \in LaneType /\ lane'.queue = <<>> /\ lane'.current = NoCommand /\ ~lane'.stopped
  <2>1. lane \in LaneType /\ <<>> \in Seq(Requests) /\ NoCommand \in Requests \union {NoCommand}
    BY <1>2 DEF TypeOK
  <2>2. PICK x : x = [lane EXCEPT !.queue = <<>>]
    OBVIOUS
  <2>3. PICK y : y = [x EXCEPT !.current = NoCommand]
    OBVIOUS
  <2>4. lane' = [y EXCEPT !.stopped = FALSE]
    BY <1>1, <2>2, <2>3
  <2>5. x \in LaneType /\ x.queue = <<>>
    BY <2>1, <2>2 DEF LaneType
  <2>6. y \in LaneType /\ y.queue = <<>> /\ y.current = NoCommand
    BY <2>1, <2>3, <2>5 DEF LaneType
  <2> QED BY <2>4, <2>6 DEF LaneType
<1>4. machine' \in MachineType
  BY <1>1, <1>2 DEF TypeOK, MachineType
<1>5. TypeOK'
  BY <1>1, <1>2, <1>3, <1>4, NewIs DEF TypeOK
<1>6. NoSession'
  BY <1>1, <1>3 DEF NoSession
<1> QED BY <1>1, <1>5, <1>6 DEF IInv

(* The invariant holds at first.                                            *)
LEMMA InitKeeps ==
  ASSUME Init
  PROVE  IInv
<1>1. user \in {"patient", "hasty"}
  BY UsersAssumption DEF Init
<1>2. [NewMachine EXCEPT !.going = FALSE] \in MachineType
  BY NewIs DEF MachineType
<1>3. [aim |-> "continue", outAt |-> 0] \in GhostType
  BY DEF GhostType
<1>4. TypeOK
  <2>1. lane \in LaneType /\ machine \in MachineType /\ read \in States
    BY <1>2, NewIs DEF Init
  <2>2. ctl \in ControlType /\ win \in WindowType /\ ghost \in GhostType
    BY <1>3, NewIs DEF Init
  <2>3. model \in Nat \ {0} /\ acts \in Nat /\ sessions \in Nat
    BY DEF Init
  <2>4. live \in BOOLEAN
    BY Zenon DEF Init
  <2> QED BY <1>1, <2>1, <2>2, <2>3, <2>4 DEF TypeOK
<1>5. NoSession
  BY DEF Init, NoSession, NewLane
<1> QED BY <1>4, <1>5 DEF IInv, Init

(* A session begins with nothing asked for, and nothing done.               *)
LEMMA LaunchKeeps ==
  ASSUME IInv, Launch
  PROVE  IInv' /\ sessions' # sessions
<1>1. /\ live' = TRUE /\ ctl' = NewControl /\ win' = NewWindow /\ lane' = NewLane
      /\ read' = NoState /\ machine' = NewMachine /\ sessions' = sessions + 1
      /\ user' = user /\ model' = model /\ ghost' = ghost /\ acts' = acts
  BY DEF Launch, ResetControl, ResetWindow
<1>2. TypeOK
  BY DEF IInv
<1>3. TypeOK' /\ sessions' # sessions
  BY <1>1, <1>2, NewIs DEF TypeOK
<1> DEFINE f == [lane |-> NewLane, ctl |-> NewControl, win |-> NewWindow,
                 ghost |-> ghost, model |-> model]
           L == Line(NoCommand, <<>>)
<1>4. f \in FrameType
  BY <1>2, NewIs DEF TypeOK, FrameType
<1>5. /\ f.lane = NewLane /\ f.ctl = NewControl /\ f.win = NewWindow
  OBVIOUS
<1>6. f = Frame'
  BY <1>1 DEF Frame
<1> HIDE DEF f
<1>7. \A i \in DOMAIN L : L[i].kind = "none" /\ ~L[i].emits
  BY EmptyLine DEF NoCommand
<1> HIDE DEF L
<1>8. /\ ~f.lane.stopped /\ ~f.lane.continuing /\ f.lane.queue = <<>> /\ f.lane.current = NoCommand
      /\ ~f.ctl.attached /\ ~f.ctl.armed /\ ~f.ctl.stepOut /\ ~f.ctl.stopEvent /\ ~f.ctl.stepEvent
      /\ ~f.ctl.turbo /\ ~f.ctl.coverage /\ ~f.ctl.profileSave /\ ~f.ctl.guided
      /\ ~f.win.seen.valid /\ ~f.win.bases /\ f.win.anchors = <<>> /\ f.win.saving = 0
      /\ f.win.after = "none" /\ ~f.win.logging
      /\ ~NoState.valid /\ NewMachine.shots = {} /\ NewMachine.engine = "uae"
  BY <1>5 DEF NewLane, NewControl, NewWindow, NoState, NewMachine
<1>9. Quiet(f, NoCommand, NewMachine) /\ Attached(f, NoState)
  BY <1>8 DEF Quiet, Attached
<1>10. LineOK(f, L, NewMachine, NoState)
  <2>1. EndsArmed(f, L, NewMachine) /\ EndsCovered(f, L, NewMachine) /\ ShotIsCleared(f, L, NewMachine)
    BY <1>7, <1>8 DEF EndsArmed, EndsCovered, ShotIsCleared
  <2>2. ReportsAreFresh(L, NewMachine, NoState) /\ SaveIsComing(f, L)
    BY <1>7, <1>8 DEF ReportsAreFresh, SaveIsComing
  <2>3. BasesCome(f, L, NewMachine, NoState)
    BY <1>8 DEF BasesCome
  <2>4. StopsAreRecorded(f, L, NoState)
    BY <1>7, <1>8 DEF StopsAreRecorded
  <2> QED BY <2>1, <2>2, <2>3, <2>4 DEF LineOK
<1>11. /\ ContinueHasItsEnd(f, L, NewMachine) /\ StepOutWaits(f, L, NewMachine)
       /\ SavesAreHere(f, L, NewMachine) /\ ViewsCome(f, L, NewMachine)
       /\ EventsCome(f, L, NewMachine) /\ SetupComes(f, L, NewMachine)
  <2>1. ContinueHasItsEnd(f, L, NewMachine) /\ StepOutWaits(f, L, NewMachine)
    BY <1>8 DEF ContinueHasItsEnd, StepOutWaits
  <2>2. SavesAreHere(f, L, NewMachine)
    BY <1>7, <1>8 DEF SavesAreHere
  <2>3. ViewsCome(f, L, NewMachine) /\ EventsCome(f, L, NewMachine)
    BY <1>7, <1>8 DEF ViewsCome, EventsCome
  <2>4. SetupComes(f, L, NewMachine)
    BY <1>7, <1>8 DEF SetupComes, Holds
  <2> QED BY <2>1, <2>2, <2>3, <2>4
<1>12. L = Line(NoCommand, f.lane.queue)
  BY <1>8 DEF L
<1>13. FrameOK(f, NoCommand, NewMachine, NoState)
  BY <1>4, <1>9, <1>10, <1>11, <1>12 DEF FrameOK, PatienceOK
<1>14. FrameOK(Frame, lane.current, machine, read)'
  <2>1. lane'.current = NoCommand
    BY <1>1 DEF NewLane
  <2>2. user' = user
    BY <1>1
  <2> QED BY <1>1, <1>6, <1>13, <2>1, <2>2 DEF FrameOK, PatienceOK
<1> QED BY <1>1, <1>3, <1>14 DEF IInv

(* A step of a session that goes on makes a frame and dispatches it; any    *)
(* other step begins or ends a session, or is made between two.             *)
LEMMA StepIs ==
  ASSUME IInv, Next
  PROVE  \/ Stays /\ \E f, m : Takes(f, m)
         \/ IInv' /\ ~SameSession
<1>1. CASE Complete
  BY <1>1, CompleteTakes
<1>2. CASE Stop
  BY <1>2, StopTakes
<1>3. CASE EntryPrompt
  BY <1>3, EntryTakes
<1>4. CASE UserSteps \/ UserStepsOut \/ UserContinues \/ UserRunsToCursor \/ UserProfilesToCursor
  BY <1>4, UserTakes
<1>5. CASE UserEdits
  BY <1>5, EditTakes, IdleEdit DEF SameSession
<1>6. CASE End
  BY <1>6, EndKeeps DEF SameSession
<1>7. CASE Launch
  BY <1>7, LaunchKeeps DEF SameSession
<1> QED BY <1>1, <1>2, <1>3, <1>4, <1>5, <1>6, <1>7 DEF Next

(* A step of something else keeps the invariant.                            *)
LEMMA StutterKeeps ==
  ASSUME IInv, UNCHANGED vars
  PROVE  IInv'
<1>1. /\ user' = user /\ live' = live /\ lane' = lane /\ machine' = machine /\ read' = read
      /\ ctl' = ctl /\ win' = win /\ model' = model /\ ghost' = ghost /\ acts' = acts
      /\ sessions' = sessions
  BY DEF vars
<1>2. TypeOK'
  BY <1>1 DEF IInv, TypeOK
<1>3. live => FrameOK(Frame, lane.current, machine, read)'
  <2>1. Frame' = Frame
    BY <1>1 DEF Frame
  <2>2. live => FrameOK(Frame, lane.current, machine, read)
    BY DEF IInv
  <2> QED BY <1>1, <2>1, <2>2 DEF FrameOK, PatienceOK
<1>4. ~live => NoSession'
  BY <1>1 DEF IInv, NoSession
<1> QED BY <1>1, <1>2, <1>3, <1>4 DEF IInv

(* The inductive invariant holds in every behaviour.                        *)
THEOREM Invariance == Spec => []IInv
<1>1. Init => IInv
  BY InitKeeps
<1>2. IInv /\ [Next]_vars => IInv'
  <2> SUFFICES ASSUME IInv, [Next]_vars PROVE IInv'
    OBVIOUS
  <2>1. CASE Next
    BY <2>1, StepIs, TakesKeeps
  <2>2. CASE UNCHANGED vars
    BY <2>2, StutterKeeps
  <2> QED BY <2>1, <2>2
<1> QED BY <1>1, <1>2, PTL DEF Spec

(* Every part of the session keeps its type.                                *)
THEOREM TypeCorrect == Spec => []TypeOK
<1>1. IInv => TypeOK
  BY DEF IInv
<1> QED BY <1>1, Invariance, PTL

-----------------------------------------------------------------------------
(* Whatever is held for a statesave is made when its answer comes; no stop  *)
(* is recorded twice; a snapshot is of its own stop.                        *)
THEOREM SnapshotsStayTrue == Spec => []SnapshotsAreTrue
<1> DEFINE L == Line(lane.current, lane.queue)
<1>1. ASSUME IInv, live
      PROVE  /\ StopsAreRecorded(Frame, L, read)
             /\ user = "patient" => SavesAreHere(Frame, L, machine)
             /\ DOMAIN L = 0..Len(lane.queue) /\ L[0] = lane.current /\ lane.queue \in Seq(Requests)
             /\ \A i \in 1..Len(lane.queue) : L[i] = lane.queue[i]
             /\ win.anchors \in Seq(Anchors)
  <2>1. FrameOK(Frame, lane.current, machine, read) /\ lane \in LaneType /\ lane.current \in Commands
    BY <1>1, LiveIs
  <2>2. lane.queue \in Seq(Requests)
    BY <2>1, LaneIs
  <2>3. /\ DOMAIN L = 0..Len(lane.queue) /\ L[0] = lane.current
        /\ \A i \in 1..Len(lane.queue) : L[i] = lane.queue[i]
    BY <2>1, <2>2, LineIs
  <2>4. Line(lane.current, Frame.lane.queue) = L
    BY FrameHas
  <2> HIDE DEF L
  <2>5. LineOK(Frame, L, machine, read) /\ PatienceOK(Frame, L, machine)
    BY <2>1, <2>4 DEF FrameOK
  <2>6. win.anchors \in Seq(Anchors)
    BY <1>1 DEF IInv, TypeOK, WindowType
  <2> QED BY <2>2, <2>3, <2>5, <2>6 DEF LineOK, PatienceOK
<1> HIDE DEF L
<1>2. ASSUME IInv PROVE SaveIsPending
  <2> SUFFICES ASSUME live, user = "patient", win.saving # 0 PROVE SavePending
    BY DEF SaveIsPending
  <2>1. Has(L, "save", win.saving)
    BY <1>1, <1>2, FrameHas DEF SavesAreHere
  <2>2. PICK i \in DOMAIN L : L[i].kind = "save" /\ L[i].n = win.saving
    BY <2>1 DEF Has
  <2>3. L[i] \in Range(lane.queue) \union {lane.current}
    <3>1. CASE i = 0
      BY <1>1, <1>2, <3>1
    <3>2. CASE i # 0
      <4>1. i \in 1..Len(lane.queue) /\ DOMAIN lane.queue = 1..Len(lane.queue)
        BY <1>1, <1>2, <3>2
      <4>2. L[i] = lane.queue[i] /\ i \in DOMAIN lane.queue
        BY <1>1, <1>2, <4>1
      <4> QED BY <4>2 DEF Range
    <3> QED BY <3>1, <3>2
  <2> QED BY <2>2, <2>3 DEF SavePending
<1>3. ASSUME IInv PROVE OneAnchorPerStop
  <2>1. CASE live
    <3>1. /\ \A i, j \in DOMAIN win.anchors : i < j => win.anchors[i].move < win.anchors[j].move
          /\ win.anchors \in Seq(Anchors)
      BY <1>1, <1>3, <2>1, FrameHas DEF StopsAreRecorded
    <3>2. \A i, j \in DOMAIN win.anchors : i < j \/ j < i \/ i = j
      BY <3>1
    <3>3. \A i \in DOMAIN win.anchors : win.anchors[i].move \in Nat
      <4> SUFFICES ASSUME NEW i \in DOMAIN win.anchors PROVE win.anchors[i].move \in Nat
        OBVIOUS
      <4>1. win.anchors[i] \in Anchors
        <5>1. win.anchors \in Seq(Anchors)
          BY <3>1
        <5> HIDE DEF Anchors
        <5> QED BY <5>1
      <4> QED BY <4>1 DEF Anchors
    <3>4. \A i, j \in DOMAIN win.anchors : i < j => win.anchors[i].move # win.anchors[j].move
      BY <3>1, <3>3
    <3> QED BY <3>2, <3>4 DEF OneAnchorPerStop
  <2>2. CASE ~live
    <3>1. win.anchors = <<>>
      BY <1>3, <2>2 DEF IInv, NoSession, NewWindow
    <3> QED BY <3>1 DEF OneAnchorPerStop
  <2> QED BY <2>1, <2>2
<1>4. ASSUME IInv PROVE SnapshotIsAtItsPc
  <2>1. CASE live
    <3> SUFFICES ASSUME user = "patient", NEW a \in Range(win.anchors), a.file # 0
                 PROVE  a.filePc = a.pc
      BY DEF SnapshotIsAtItsPc
    <3>1. PICK i \in DOMAIN win.anchors : a = win.anchors[i]
      BY DEF Range
    <3> QED BY <1>1, <1>4, <2>1, <3>1, FrameHas DEF SavesAreHere
  <2>2. CASE ~live
    <3>1. win.anchors = <<>>
      BY <1>4, <2>2 DEF IInv, NoSession, NewWindow
    <3> QED BY <3>1 DEF SnapshotIsAtItsPc, Range
  <2> QED BY <2>1, <2>2
<1>5. IInv => SnapshotsAreTrue
  BY <1>2, <1>3, <1>4 DEF SnapshotsAreTrue
<1> QED BY <1>5, Invariance, PTL

(* The two-phase attach ends: once nothing is left to do, all that a        *)
(* session sets up is set up, and the breakpoints listed are armed.         *)
THEOREM AttachAlwaysCompletes == Spec => []AttachCompletes
<1>1. ASSUME IInv, live, lane.stopped, Settled
      PROVE  LET L == Line(lane.current, lane.queue)
             IN  /\ \A i \in DOMAIN L : L[i].kind = "none" /\ ~L[i].emits
                 /\ LineOK(Frame, L, machine, read) /\ PatienceOK(Frame, L, machine)
                 /\ Attached(Frame, read) /\ ~lane.continuing
  <2> DEFINE L == Line(lane.current, lane.queue)
  <2>1. /\ ~lane.continuing /\ \A i \in DOMAIN L : L[i] = NoCommand
    BY <1>1, SettledIs
  <2>2. FrameOK(Frame, lane.current, machine, read)
    BY <1>1, LiveIs
  <2>3. Line(lane.current, Frame.lane.queue) = L
    BY FrameHas
  <2> HIDE DEF L
  <2>4. \A i \in DOMAIN L : L[i].kind = "none" /\ ~L[i].emits
    BY <2>1 DEF NoCommand
  <2> QED BY <2>1, <2>2, <2>3, <2>4 DEF FrameOK, L
<1> DEFINE L == Line(lane.current, lane.queue)
<1>2. ASSUME IInv PROVE SetupIsDone
  <2> SUFFICES ASSUME live, lane.stopped, Settled
               PROVE  /\ ~ctl.profileSave
                      /\ user = "patient" =>
                           /\ ctl.attached => "symbols" \in machine.done
                           /\ ctl.turbo => "turbo" \in machine.done
                           /\ win.logging => "replaylog" \in machine.done
                           /\ machine.engine = "uae"
    BY DEF SetupIsDone
  <2>1. /\ \A i \in DOMAIN L : L[i].kind = "none"
        /\ LineOK(Frame, L, machine, read) /\ PatienceOK(Frame, L, machine)
    BY <1>1, <1>2
  <2> HIDE DEF L
  <2>2. ~ctl.profileSave
    BY <2>1, FrameHas DEF LineOK, SaveIsComing, Holds
  <2>3. ASSUME user = "patient"
        PROVE  /\ ctl.attached => "symbols" \in machine.done
               /\ ctl.turbo => "turbo" \in machine.done
               /\ win.logging => "replaylog" \in machine.done
               /\ machine.engine = "uae"
    <3>1. SetupComes(Frame, L, machine)
      BY <2>1, <2>3 DEF PatienceOK
    <3> QED BY <2>1, <3>1, FrameHas DEF SetupComes, Holds
  <2> QED BY <2>2, <2>3
<1>3. ASSUME IInv PROVE SettledMeansArmed
  <2> SUFFICES ASSUME live, lane.stopped, Settled, machine.loaded
               PROVE  machine.bp = model /\ machine.wp = model
    BY DEF SettledMeansArmed
  <2>1. /\ \A i \in DOMAIN L : L[i].kind = "none" /\ ~L[i].emits
        /\ LineOK(Frame, L, machine, read) /\ Attached(Frame, read) /\ ~lane.continuing
    BY <1>1, <1>3
  <2> HIDE DEF L
  <2>2. win.bases
    BY <2>1, FrameHas DEF LineOK, BasesCome
  <2>3. ctl.armed
    BY <2>1, <2>2, FrameHas DEF Attached
  <2> QED BY <2>1, <2>3, FrameHas DEF LineOK, EndsArmed, Ends
<1>4. IInv => AttachCompletes
  BY <1>2, <1>3 DEF AttachCompletes
<1> QED BY <1>4, Invariance, PTL

-----------------------------------------------------------------------------
(* A step of a session that goes on: what a program leaves a stop with.     *)
LEMMA TakesArmed ==
  ASSUME IInv, Stays, NEW f, NEW m, Takes(f, m), Leaves
  PROVE  /\ win.bases => machine'.bp = model /\ machine'.wp = model
         /\ "coverage" \in machine'.done
         /\ user = "patient" =>
              /\ ghost'.aim = "cursor"  => 1 \in machine'.shots
              /\ ghost'.aim = "profile" => 2 \in machine'.shots /\ machine'.profiling
              /\ ghost'.aim = "stepOut" => 3 \in machine'.shots
         /\ 2 \in machine'.shots => ctl'.guided
<1>1. /\ Commit(f, m) /\ m \in MachineType /\ FrameOK(f, f.lane.current, m, read')
      /\ f.model = model' /\ (f.lane.queue = <<>> => model' = model)
      /\ f.lane.stopped /\ ~lane'.stopped /\ (win.bases => f.win.bases)
  BY DEF Takes, Leaves
<1>2. /\ ghost' = f.ghost /\ ctl'.guided = f.ctl.guided
      /\ machine'.bp = m.bp /\ machine'.wp = m.wp /\ machine'.done = m.done
      /\ machine'.shots = m.shots /\ machine'.profiling = m.profiling
      /\ f.lane.queue = <<>> /\ LeavesWith(f, m)
  BY <1>1, CommitOK
<1> QED BY <1>1, <1>2 DEF LeavesWith

(* A step of a session that goes on: what it tells of a stop.               *)
LEMMA TakesTold ==
  ASSUME IInv, Stays, NEW f, NEW m, Takes(f, m)
  PROVE  /\ ~lane.stopped => ~ctl.stopEvent
         /\ ctl.stopEvent /\ ~ctl'.stopEvent /\ lane'.stopped =>
              win'.seen.valid /\ win'.seen.move = machine.move
         /\ user = "patient" /\ ctl.stepEvent /\ ~ctl'.stepEvent =>
              machine.by = "step" /\ win'.seen.move = machine.move
         /\ user = "patient" /\ ctl.stepOut /\ ~ctl'.stepOut => DumpIsTheStops
<1>1. ~lane.stopped => ~ctl.stopEvent
  <2>1. live
    BY DEF Stays
  <2> QED BY <2>1, LiveIs, FrameHas DEF FrameOK, Quiet
<1>2. /\ win' = f.win /\ (lane'.stopped => f.lane.stopped /\ ctl' = f.ctl)
      /\ ctl'.stepEvent = f.ctl.stepEvent /\ ctl'.stepOut = f.ctl.stepOut
  <2>1. Commit(f, m) /\ m \in MachineType /\ FrameOK(f, f.lane.current, m, read')
    BY DEF Takes
  <2> QED BY <2>1, CommitOK
<1>3. /\ lane.stopped /\ ctl.stopEvent /\ ~f.ctl.stopEvent =>
           f.win.seen.valid /\ f.win.seen.move = machine.move
      /\ user = "patient" /\ ctl.stepEvent /\ ~f.ctl.stepEvent =>
           machine.by = "step" /\ f.win.seen.move = machine.move
      /\ user = "patient" /\ ctl.stepOut /\ ~f.ctl.stepOut => DumpIsTheStops
  BY DEF Takes
<1> QED BY <1>1, <1>2, <1>3

(* A program never leaves a stop without the breakpoints listed, coverage   *)
(* and what is to end the run, and never with a guided run's one-shot once  *)
(* that run is over.                                                        *)
THEOREM ProgramAlwaysRunsArmed == Spec => ProgramRunsArmed
<1>1. ASSUME IInv, [Next]_vars
      PROVE  /\ [Leaves /\ win.bases => machine'.bp = model /\ machine'.wp = model]_vars
             /\ [Leaves => "coverage" \in machine'.done]_vars
             /\ [Leaves /\ user = "patient" =>
                   /\ ghost'.aim = "cursor"  => 1 \in machine'.shots
                   /\ ghost'.aim = "profile" => 2 \in machine'.shots /\ machine'.profiling
                   /\ ghost'.aim = "stepOut" => 3 \in machine'.shots]_vars
             /\ [Leaves /\ 2 \in machine'.shots => ctl'.guided]_vars
  <2>1. CASE Next
    <3>1. CASE Stays /\ \E f, m : Takes(f, m)
      <4>1. PICK f, m : Takes(f, m)
        BY <3>1
      <4> QED BY <1>1, <3>1, <4>1, TakesArmed
    <3>2. CASE ~SameSession
      BY <3>2 DEF Leaves
    <3> QED BY <1>1, <2>1, <3>1, <3>2, StepIs
  <2>2. CASE UNCHANGED vars
    BY <2>2
  <2> QED BY <1>1, <2>1, <2>2
<1> QED BY <1>1, Invariance, PTL
        DEF Spec, ProgramRunsArmed, BreakpointsInForce, CoverageCoversTheRun, RunHasItsEnd,
            GuidedShotIsGone

(* A stop is told once and at its own place, a step only if it was one, and *)
(* a step-out is decided by the dump of the stop it was asked at.           *)
THEOREM StopsAreAlwaysToldApart == Spec => StopsAreToldApart
<1>1. ASSUME IInv, [Next]_vars
      PROVE  /\ [SameSession /\ ~lane.stopped /\ lane'.stopped => ~ctl.stopEvent]_vars
             /\ [SameSession /\ ctl.stopEvent /\ ~ctl'.stopEvent /\ lane'.stopped =>
                   win'.seen.valid /\ win'.seen.move = machine.move]_vars
             /\ [SameSession /\ user = "patient" /\ ctl.stepEvent /\ ~ctl'.stepEvent =>
                   machine.by = "step" /\ win'.seen.move = machine.move]_vars
             /\ [TakesDump /\ user = "patient" => DumpIsTheStops]_vars
  <2>1. CASE Next
    <3>1. CASE Stays /\ \E f, m : Takes(f, m)
      <4>1. PICK f, m : Takes(f, m)
        BY <3>1
      <4> QED BY <1>1, <3>1, <4>1, TakesTold DEF TakesDump
    <3>2. CASE ~SameSession
      BY <3>2 DEF TakesDump
    <3> QED BY <1>1, <2>1, <3>1, <3>2, StepIs
  <2>2. CASE UNCHANGED vars
    BY <2>2
  <2> QED BY <1>1, <2>1, <2>2
<1> QED BY <1>1, Invariance, PTL
        DEF Spec, StopsAreToldApart, StopIsPublished, StopEventPlace, StepEventIsAStep,
            StepOutAtItsStopIfPatient
=============================================================================

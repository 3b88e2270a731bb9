------------------------ MODULE RemoteControlProofs ------------------------
(***************************************************************************)
(* Proofs about RemoteControl, for any number of connections, lines,       *)
(* events and time-outs, and for every hook script.                        *)
(***************************************************************************)
EXTENDS RemoteControlInv, SequenceLemmas, FiniteSetTheorems, TLAPS

Asked == {"info", "m1", "m2"}
Tags == {"state", "cmd", "hook", "memory"}
Askers == {"ide", "console", "user", "remote", "hook"}

(* The parts of a frame, and a frame with some of them replaced.            *)
LEMMA FrameIs ==
  ASSUME NEW f \in FrameType
  PROVE  /\ f.conns \in [Clients -> Connections] /\ f.ide \in IdeType /\ f.dbg \in DbgType
         /\ f.loops \in Seq(Waits) /\ f.hook \in HookType /\ f.loose \subseteq Nat
         /\ f = [conns |-> f.conns, ide |-> f.ide, dbg |-> f.dbg, loops |-> f.loops,
                 hook |-> f.hook, loose |-> f.loose]
         /\ f.dbg.lane \in Seq(Entries) /\ f.dbg.live \in BOOLEAN
         /\ f.dbg.stopped \in BOOLEAN /\ f.dbg.going \in BOOLEAN /\ f.dbg.stop \in Nat
  BY DEF FrameType, DbgType

LEMMA DbgIs ==
  ASSUME NEW d \in DbgType
  PROVE  /\ d = [live |-> d.live, stopped |-> d.stopped, going |-> d.going, stop |-> d.stop,
                 lane |-> d.lane]
         /\ d.lane \in Seq(Entries) /\ d.live \in BOOLEAN /\ d.stopped \in BOOLEAN
         /\ d.going \in BOOLEAN /\ d.stop \in Nat
  BY DEF DbgType

-----------------------------------------------------------------------------
(* A fresh name is one that no request in the lane has, nor any wait.       *)
LEMMA IdsAreFinite ==
  ASSUME NEW S, NEW s \in Seq(S), NEW F, F \in [DOMAIN s -> Nat]
  PROVE  IsFiniteSet({F[i] : i \in DOMAIN s})
<1> DEFINE T == {F[i] : i \in DOMAIN s}
<1>1. DOMAIN s = 1 .. Len(s) /\ Len(s) \in Nat
  OBVIOUS
<1>2. IsFiniteSet(DOMAIN s)
  BY <1>1, FS_Interval
<1>3. F \in Surjection(DOMAIN s, T)
  <2>1. F \in [DOMAIN s -> T]
    OBVIOUS
  <2>2. \A t \in T : \E i \in DOMAIN s : F[i] = t
    OBVIOUS
  <2> QED BY <2>1, <2>2, Fun_IsSurj
<1> HIDE DEF T
<1>4. IsFiniteSet(T)
  BY <1>2, <1>3, FS_Surjection
<1> QED BY <1>4 DEF T

LEMMA FreshIs ==
  ASSUME NEW f \in FrameType
  PROVE  /\ FreshId(f) \in Nat \ {0}
         /\ \A i \in DOMAIN f.dbg.lane : f.dbg.lane[i].id # FreshId(f)
         /\ \A i \in DOMAIN f.loops : f.loops[i].mine # FreshId(f)
<1> DEFINE A == [i \in DOMAIN f.dbg.lane |-> f.dbg.lane[i].id]
           B == [i \in DOMAIN f.loops |-> f.loops[i].mine]
           N == 1 .. (Cardinality(Ids(f)) + 1)
           S == N \ Ids(f)
<1>1. f.dbg.lane \in Seq(Entries) /\ f.loops \in Seq(Waits)
  BY FrameIs
<1>2. A \in [DOMAIN f.dbg.lane -> Nat]
  <2>1. \A i \in DOMAIN f.dbg.lane : f.dbg.lane[i] \in Entries
    BY <1>1
  <2>2. \A e \in Entries : e.id \in Nat
    BY DEF Entries
  <2> QED BY <2>1, <2>2
<1>3. B \in [DOMAIN f.loops -> Nat]
  <2>1. \A i \in DOMAIN f.loops : f.loops[i] \in Waits
    BY <1>1
  <2>2. \A w \in Waits : w.mine \in Nat
    BY DEF Waits
  <2> QED BY <2>1, <2>2
<1>4. /\ InLane(f) = {A[i] : i \in DOMAIN f.dbg.lane}
      /\ {f.loops[i].mine : i \in DOMAIN f.loops} = {B[i] : i \in DOMAIN f.loops}
  BY DEF InLane
<1> HIDE DEF A, B
<1>5. IsFiniteSet(InLane(f)) /\ IsFiniteSet({f.loops[i].mine : i \in DOMAIN f.loops})
  <2>1. IsFiniteSet({A[i] : i \in DOMAIN f.dbg.lane})
    BY <1>1, <1>2, IdsAreFinite
  <2>2. IsFiniteSet({B[i] : i \in DOMAIN f.loops})
    BY <1>1, <1>3, IdsAreFinite
  <2> QED BY <1>4, <2>1, <2>2
<1>6. IsFiniteSet(Ids(f)) /\ Cardinality(Ids(f)) \in Nat
  BY <1>5, FS_Union, FS_CardinalityType DEF Ids
<1>7. IsFiniteSet(N) /\ Cardinality(N) = Cardinality(Ids(f)) + 1
  BY <1>6, FS_Interval
<1>8. S # {}
  <2>1. SUFFICES ASSUME N \subseteq Ids(f) PROVE FALSE
    OBVIOUS
  <2>2. Cardinality(N) <= Cardinality(Ids(f))
    BY <1>6, <2>1, FS_Subset
  <2> QED BY <1>6, <1>7, <2>2
<1>9. S \subseteq Nat \ {0}
  BY <1>6
<1> HIDE DEF S
<1>10. \E x \in S : \A y \in S : x <= y
  BY <1>8, <1>9, LeastNatural
<1>11. Min(S) \in S
  BY <1>10 DEF Min
<1>12. FreshId(f) = Min(S)
  BY DEF FreshId, S
<1>13. FreshId(f) \in Nat \ {0} /\ FreshId(f) \notin Ids(f)
  BY <1>9, <1>11, <1>12 DEF S
<1> QED BY <1>13 DEF Ids, InLane

-----------------------------------------------------------------------------
(* What the functions of the lane do to a frame.                            *)

LEMMA EnqueueIs ==
  ASSUME NEW f \in FrameType, NEW key \in Keys, NEW tag \in Tags, NEW by \in Askers,
         NEW g, g = Enqueue(f, key, tag, by)
  PROVE  /\ g \in FrameType
         /\ g.conns = f.conns /\ g.ide = f.ide /\ g.loops = f.loops /\ g.hook = f.hook
         /\ g.loose = f.loose
         /\ g.dbg.live = f.dbg.live /\ g.dbg.stopped = f.dbg.stopped
         /\ g.dbg.going = f.dbg.going /\ g.dbg.stop = f.dbg.stop
         /\ g.dbg.lane = IF f.dbg.live
                         THEN Append(f.dbg.lane, [key |-> key, tag |-> tag, by |-> by,
                                                  id |-> FreshId(f)])
                         ELSE f.dbg.lane
<1> DEFINE e == [key |-> key, tag |-> tag, by |-> by, id |-> FreshId(f)]
<1>1. CASE ~f.dbg.live
  BY <1>1 DEF Enqueue
<1>2. CASE f.dbg.live
  <2>1. e \in Entries
    BY FreshIs DEF Entries, Tags, Askers
  <2>2. g = [f EXCEPT !.dbg.lane = Append(@, e)]
    BY <1>2 DEF Enqueue
  <2> HIDE DEF e
  <2>3. Append(f.dbg.lane, e) \in Seq(Entries)
    BY <2>1, FrameIs
  <2>4. /\ g.conns = f.conns /\ g.ide = f.ide /\ g.loops = f.loops /\ g.hook = f.hook
        /\ g.loose = f.loose /\ g.dbg = [f.dbg EXCEPT !.lane = Append(@, e)]
        /\ g = [conns |-> f.conns, ide |-> f.ide, dbg |-> g.dbg, loops |-> f.loops,
                hook |-> f.hook, loose |-> f.loose]
    BY <2>2, FrameIs
  <2>5. /\ g.dbg = [live |-> f.dbg.live, stopped |-> f.dbg.stopped, going |-> f.dbg.going,
                    stop |-> f.dbg.stop, lane |-> Append(f.dbg.lane, e)]
        /\ g.dbg \in DbgType
    BY <2>3, <2>4, FrameIs DEF DbgType
  <2>6. g \in FrameType
    BY <2>4, <2>5, FrameIs DEF FrameType
  <2> QED BY <1>2, <2>4, <2>5, <2>6 DEF e
<1> QED BY <1>1, <1>2, FrameIs

LEMMA ResumeIs ==
  ASSUME NEW f \in FrameType, NEW g, g = Resume(f)
  PROVE  /\ g \in FrameType
         /\ g.conns = f.conns /\ g.ide = f.ide /\ g.loops = f.loops /\ g.hook = f.hook
         /\ g.dbg.live = f.dbg.live /\ g.dbg.stop = f.dbg.stop
         /\ \/ g.loose = f.loose /\ g.dbg.lane = f.dbg.lane /\ g.dbg.going = f.dbg.going
               /\ (g.dbg.stopped => f.dbg.stopped)
               /\ (f.dbg.going => g.dbg.stopped = f.dbg.stopped)
            \/ /\ f.dbg.lane # <<>> /\ f.dbg.stopped
               /\ g.loose = f.loose \intersect {f.dbg.lane[1].id}
               /\ g.dbg.lane = <<f.dbg.lane[1]>> /\ g.dbg.stopped
<1>1. CASE ~f.dbg.stopped \/ f.dbg.going
  BY <1>1 DEF Resume
<1>2. CASE f.dbg.stopped /\ ~f.dbg.going /\ f.dbg.lane = <<>>
  <2>1. g = [f EXCEPT !.dbg.stopped = FALSE]
    BY <1>2 DEF Resume
  <2>2. /\ g.conns = f.conns /\ g.ide = f.ide /\ g.loops = f.loops /\ g.hook = f.hook
        /\ g.loose = f.loose /\ g.dbg = [f.dbg EXCEPT !.stopped = FALSE]
        /\ g = [conns |-> f.conns, ide |-> f.ide, dbg |-> g.dbg, loops |-> f.loops,
                hook |-> f.hook, loose |-> f.loose]
    BY <2>1, FrameIs
  <2>3. /\ g.dbg = [live |-> f.dbg.live, stopped |-> FALSE, going |-> f.dbg.going,
                    stop |-> f.dbg.stop, lane |-> f.dbg.lane]
        /\ g.dbg \in DbgType
    BY <2>2, FrameIs DEF DbgType
  <2>4. g \in FrameType
    BY <2>2, <2>3, FrameIs DEF FrameType
  <2> QED BY <1>2, <2>2, <2>3, <2>4
<1>3. CASE f.dbg.stopped /\ ~f.dbg.going /\ f.dbg.lane # <<>>
  <2>1. Head(f.dbg.lane) = f.dbg.lane[1] /\ Head(f.dbg.lane) \in Entries
    BY <1>3, FrameIs, TailIs
  <2> DEFINE one == <<Head(f.dbg.lane)>>
             kept == f.loose \intersect {Head(f.dbg.lane).id}
  <2>2. one \in Seq(Entries) /\ kept \subseteq Nat
    BY <2>1, FrameIs
  <2>3. g = [f EXCEPT !.dbg.lane = one, !.dbg.going = TRUE, !.loose = kept]
    BY <1>3 DEF Resume
  <2>4. one = <<f.dbg.lane[1]>> /\ kept = f.loose \intersect {f.dbg.lane[1].id}
    BY <2>1
  <2> HIDE DEF one, kept
  <2>5. /\ g.conns = f.conns /\ g.ide = f.ide /\ g.loops = f.loops /\ g.hook = f.hook
        /\ g.loose = kept /\ g.dbg = [f.dbg EXCEPT !.lane = one, !.going = TRUE]
        /\ g = [conns |-> f.conns, ide |-> f.ide, dbg |-> g.dbg, loops |-> f.loops,
                hook |-> f.hook, loose |-> kept]
    <3> DEFINE d == [f.dbg EXCEPT !.lane = one, !.going = TRUE]
    <3>1. g = [f EXCEPT !.dbg = d, !.loose = kept]
      BY <2>3, FrameIs
    <3> HIDE DEF d
    <3>2. /\ g.dbg = d
          /\ g = [conns |-> f.conns, ide |-> f.ide, dbg |-> d, loops |-> f.loops,
                  hook |-> f.hook, loose |-> kept]
      BY <3>1, FrameIs
    <3> QED BY <3>2 DEF d
  <2>6. /\ g.dbg = [live |-> f.dbg.live, stopped |-> f.dbg.stopped, going |-> TRUE,
                    stop |-> f.dbg.stop, lane |-> one]
        /\ g.dbg \in DbgType
    BY <2>2, <2>5, FrameIs DEF DbgType
  <2>7. g \in FrameType
    BY <2>2, <2>5, <2>6, FrameIs DEF FrameType
  <2> QED BY <1>3, <2>4, <2>5, <2>6, <2>7
<1> QED BY <1>1, <1>2, <1>3, FrameIs

LEMMA EndSessionIs ==
  ASSUME NEW f \in FrameType, NEW g, g = EndSession(f)
  PROVE  /\ g \in FrameType
         /\ g.conns = f.conns /\ g.loops = f.loops /\ g.hook = f.hook
         /\ g.ide.busy = f.ide.busy /\ g.ide.seen = f.ide.seen /\ g.dbg.stop = f.dbg.stop
         /\ \/ g.dbg = f.dbg /\ g.loose = f.loose
            \/ g.dbg.lane = <<>> /\ g.loose = {} /\ ~g.dbg.stopped /\ ~g.dbg.going
<1>1. CASE ~f.dbg.live
  BY <1>1 DEF EndSession
<1>2. CASE f.dbg.live
  <2> DEFINE d == [f.dbg EXCEPT !.live = FALSE, !.stopped = FALSE, !.going = FALSE,
                                !.lane = <<>>]
             i == [f.ide EXCEPT !.pending = "none"]
  <2>1. /\ d \in DbgType /\ d.lane = <<>> /\ ~d.stopped /\ ~d.going /\ d.stop = f.dbg.stop
    <3>1. <<>> \in Seq(Entries)
      OBVIOUS
    <3> QED BY <3>1, FrameIs DEF DbgType
  <2>2. i \in IdeType /\ i.busy = f.ide.busy /\ i.seen = f.ide.seen
    BY FrameIs DEF IdeType
  <2>3. g = [conns |-> f.conns, ide |-> i, dbg |-> d, loops |-> f.loops,
             hook |-> f.hook, loose |-> {}]
    <3>1. g = [f EXCEPT !.dbg.live = FALSE, !.dbg.stopped = FALSE, !.dbg.going = FALSE,
                        !.dbg.lane = <<>>, !.loose = {}, !.ide.pending = "none"]
      BY <1>2 DEF EndSession
    <3>2. g = [f EXCEPT !.dbg = d, !.loose = {}, !.ide = i]
      BY <3>1, FrameIs
    <3> HIDE DEF d, i
    <3> QED BY <3>2, FrameIs
  <2> HIDE DEF d, i
  <2>4. g \in FrameType
    BY <2>1, <2>2, <2>3, FrameIs DEF FrameType
  <2> QED BY <2>1, <2>2, <2>3, <2>4
<1> QED BY <1>1, <1>2, FrameIs

-----------------------------------------------------------------------------
(* The lane keeps its claims when it grows, and when it shrinks.            *)

LEMMA GrownLane ==
  ASSUME NEW lane \in Seq(Entries), NEW e \in Entries, NEW waits, NEW waits2, NEW given,
         LaneIsClaimed(lane, waits, given),
         \A i \in DOMAIN lane : lane[i].id # e.id,
         e.tag = "state" => e.key \in {"state", "reg"},
         e.by \in {"remote", "hook"} =>
           \E j \in DOMAIN waits2 : waits2[j].mine = e.id /\ waits2[j].kind = e.by,
         \A j \in DOMAIN waits : \E k \in DOMAIN waits2 :
           waits2[k].mine = waits[j].mine /\ waits2[k].kind = waits[j].kind
  PROVE  LaneIsClaimed(Append(lane, e), waits2, given)
<1> DEFINE t == Append(lane, e)
<1>1. /\ Len(lane) \in Nat /\ DOMAIN lane = 1 .. Len(lane) /\ DOMAIN t = 1 .. Len(lane) + 1
      /\ \A i \in DOMAIN lane : t[i] = lane[i]
      /\ t[Len(lane) + 1] = e
  BY AppendIs
<1> HIDE DEF t
<1>2. \A i \in DOMAIN t : i \in DOMAIN lane \/ i = Len(lane) + 1
  BY <1>1
<1>3. \A i, j \in DOMAIN t : t[i].id = t[j].id => i = j
  BY <1>1, <1>2 DEF LaneIsClaimed
<1>4. \A i \in DOMAIN t : t[i].tag = "state" => t[i].key \in {"state", "reg"}
  BY <1>1, <1>2 DEF LaneIsClaimed
<1>5. ASSUME NEW i \in DOMAIN t, t[i].by \in {"remote", "hook"}
      PROVE  \/ t[i].id \in given
             \/ \E j \in DOMAIN waits2 : waits2[j].mine = t[i].id /\ waits2[j].kind = t[i].by
  <2>1. CASE i \in DOMAIN lane
    <3>1. \/ lane[i].id \in given
          \/ \E j \in DOMAIN waits : waits[j].mine = lane[i].id /\ waits[j].kind = lane[i].by
      BY <1>1, <1>5, <2>1 DEF LaneIsClaimed
    <3> QED BY <1>1, <2>1, <3>1
  <2>2. CASE i = Len(lane) + 1
    BY <1>1, <1>5, <2>2
  <2> QED BY <1>2, <2>1, <2>2
<1>6. \A x \in given : \E i \in DOMAIN t : t[i].id = x
  <2>1. \A i \in DOMAIN lane : i \in DOMAIN t
    BY <1>1
  <2> QED BY <1>1, <2>1 DEF LaneIsClaimed
<1>7. LaneIsClaimed(t, waits2, given)
  BY <1>3, <1>4, <1>5, <1>6 DEF LaneIsClaimed
<1> QED BY <1>7 DEF t

LEMMA FirstInLane ==
  ASSUME NEW lane \in Seq(Entries), lane # <<>>, NEW waits, NEW given,
         LaneIsClaimed(lane, waits, given)
  PROVE  LaneIsClaimed(<<lane[1]>>, waits, given \intersect {lane[1].id})
<1> DEFINE t == <<lane[1]>>
<1>1. 1 \in DOMAIN lane
  BY TailIs
<1>2. DOMAIN t = {1} /\ t[1] = lane[1]
  OBVIOUS
<1> HIDE DEF t
<1>3. LaneIsClaimed(t, waits, given \intersect {lane[1].id})
  BY <1>1, <1>2 DEF LaneIsClaimed
<1> QED BY <1>3 DEF t

(* The rest of the lane, once its front has been answered.                  *)
LEMMA RestOfLane ==
  ASSUME NEW lane \in Seq(Entries), lane # <<>>, NEW waits, NEW waits2, NEW given,
         LaneIsClaimed(lane, waits, given),
         \A j \in DOMAIN waits : \E k \in DOMAIN waits2 :
           waits2[k].mine = waits[j].mine /\ waits2[k].kind = waits[j].kind
  PROVE  LaneIsClaimed(Tail(lane), waits2, given \ {lane[1].id})
<1> DEFINE t == Tail(lane)
<1>1. /\ Len(lane) \in Nat \ {0} /\ DOMAIN lane = 1 .. Len(lane)
      /\ DOMAIN t = 1 .. Len(lane) - 1
      /\ \A i \in DOMAIN t : t[i] = lane[i + 1]
  BY TailIs
<1> HIDE DEF t
<1>2. \A i \in DOMAIN t : i + 1 \in DOMAIN lane /\ i + 1 # 1
  BY <1>1
<1>3. 1 \in DOMAIN lane /\ \A i \in DOMAIN t : t[i].id # lane[1].id
  BY <1>1, <1>2 DEF LaneIsClaimed
<1>4. \A i, j \in DOMAIN t : t[i].id = t[j].id => i = j
  <2> TAKE i, j \in DOMAIN t
  <2>1. lane[i + 1].id = lane[j + 1].id => i + 1 = j + 1
    BY <1>2 DEF LaneIsClaimed
  <2> QED BY <1>1, <2>1
<1>5. \A i \in DOMAIN t : t[i].tag = "state" => t[i].key \in {"state", "reg"}
  BY <1>1, <1>2 DEF LaneIsClaimed
<1>6. ASSUME NEW i \in DOMAIN t, t[i].by \in {"remote", "hook"}
      PROVE  \/ t[i].id \in given \ {lane[1].id}
             \/ \E j \in DOMAIN waits2 : waits2[j].mine = t[i].id /\ waits2[j].kind = t[i].by
  <2>1. \/ lane[i + 1].id \in given
        \/ \E j \in DOMAIN waits :
             waits[j].mine = lane[i + 1].id /\ waits[j].kind = lane[i + 1].by
    BY <1>1, <1>2, <1>6 DEF LaneIsClaimed
  <2> QED BY <1>1, <1>3, <2>1
<1>7. ASSUME NEW x \in given \ {lane[1].id}
      PROVE  \E i \in DOMAIN t : t[i].id = x
  <2>1. PICK i \in DOMAIN lane : lane[i].id = x
    BY <1>7 DEF LaneIsClaimed
  <2>2. i # 1
    BY <1>7, <2>1
  <2>3. i - 1 \in DOMAIN t /\ (i - 1) + 1 = i
    BY <1>1, <2>1, <2>2
  <2> QED BY <1>1, <2>1, <2>3
<1>8. LaneIsClaimed(t, waits2, given \ {lane[1].id})
  BY <1>4, <1>5, <1>6, <1>7 DEF LaneIsClaimed
<1> QED BY <1>8 DEF t

(* Nobody's requests are added to, as long as they are in the lane.         *)
LEMMA GivenUpInLane ==
  ASSUME NEW lane, NEW waits, NEW waits2, NEW given, NEW given2,
         LaneIsClaimed(lane, waits, given),
         given \subseteq given2,
         \A x \in given2 : x \in given \/ \E i \in DOMAIN lane : lane[i].id = x,
         \A j \in DOMAIN waits :
           \/ \E k \in DOMAIN waits2 : waits2[k].mine = waits[j].mine
                                        /\ waits2[k].kind = waits[j].kind
           \/ \A i \in DOMAIN lane : lane[i].id = waits[j].mine => lane[i].id \in given2
  PROVE  LaneIsClaimed(lane, waits2, given2)
<1>1. ASSUME NEW i \in DOMAIN lane, lane[i].by \in {"remote", "hook"}
      PROVE  \/ lane[i].id \in given2
             \/ \E j \in DOMAIN waits2 :
                  waits2[j].mine = lane[i].id /\ waits2[j].kind = lane[i].by
  <2>1. \/ lane[i].id \in given
        \/ \E j \in DOMAIN waits : waits[j].mine = lane[i].id /\ waits[j].kind = lane[i].by
    BY <1>1 DEF LaneIsClaimed
  <2> QED BY <2>1
<1>2. \A x \in given2 : \E i \in DOMAIN lane : lane[i].id = x
  BY DEF LaneIsClaimed
<1> QED BY <1>1, <1>2 DEF LaneIsClaimed

-----------------------------------------------------------------------------
(* The functions that change no wait keep the frame's invariant.            *)

LEMMA EnqueueOK ==
  ASSUME NEW f, NEW held, NEW owing, NEW script, FrameOK(f, held, owing, script),
         NEW key \in Keys, NEW tag \in Tags, NEW by \in {"ide", "console"},
         tag = "state" => key = "state",
         NEW g, g = Enqueue(f, key, tag, by)
  PROVE  FrameOK(g, held, owing, script)
<1>1. f \in FrameType /\ by \in Askers
  BY DEF FrameOK, Askers
<1> DEFINE e == [key |-> key, tag |-> tag, by |-> by, id |-> FreshId(f)]
<1>2. /\ g \in FrameType
      /\ g.conns = f.conns /\ g.ide = f.ide /\ g.loops = f.loops /\ g.hook = f.hook
      /\ g.loose = f.loose
      /\ g.dbg.live = f.dbg.live /\ g.dbg.stopped = f.dbg.stopped
      /\ g.dbg.going = f.dbg.going /\ g.dbg.stop = f.dbg.stop
      /\ g.dbg.lane = IF f.dbg.live THEN Append(f.dbg.lane, e) ELSE f.dbg.lane
  BY <1>1, EnqueueIs
<1>3. /\ e \in Entries /\ \A i \in DOMAIN f.dbg.lane : f.dbg.lane[i].id # e.id
      /\ (e.tag = "state" => e.key \in {"state", "reg"}) /\ e.by \notin {"remote", "hook"}
  BY <1>1, FreshIs DEF Entries, Tags
<1> HIDE DEF e
<1>4. f.dbg.lane \in Seq(Entries) /\ LaneIsClaimed(f.dbg.lane, f.loops, f.loose)
  BY <1>1, FrameIs DEF FrameOK
<1>5. LaneIsClaimed(Append(f.dbg.lane, e), f.loops, f.loose)
  BY <1>3, <1>4, GrownLane
<1>6. LaneIsClaimed(g.dbg.lane, g.loops, g.loose)
  BY <1>2, <1>4, <1>5
<1>7. Append(f.dbg.lane, e) # <<>>
  BY <1>3, <1>4
<1>8. SessionIsWhole(g.ide, g.dbg)
  <2>1. SessionIsWhole(f.ide, f.dbg)
    BY DEF FrameOK
  <2> QED BY <1>2, <1>7, <2>1 DEF SessionIsWhole
<1> QED BY <1>2, <1>6, <1>8 DEF FrameOK

LEMMA ResumeOK ==
  ASSUME NEW f, NEW held, NEW owing, NEW script, FrameOK(f, held, owing, script),
         NEW g, g = Resume(f)
  PROVE  FrameOK(g, held, owing, script)
<1>1. f \in FrameType
  BY DEF FrameOK
<1>2. /\ g \in FrameType
      /\ g.conns = f.conns /\ g.ide = f.ide /\ g.loops = f.loops /\ g.hook = f.hook
      /\ g.dbg.live = f.dbg.live /\ g.dbg.stop = f.dbg.stop
      /\ \/ g.loose = f.loose /\ g.dbg.lane = f.dbg.lane /\ g.dbg.going = f.dbg.going
            /\ (g.dbg.stopped => f.dbg.stopped)
            /\ (f.dbg.going => g.dbg.stopped = f.dbg.stopped)
         \/ /\ f.dbg.lane # <<>> /\ f.dbg.stopped
            /\ g.loose = f.loose \intersect {f.dbg.lane[1].id}
            /\ g.dbg.lane = <<f.dbg.lane[1]>> /\ g.dbg.stopped
  BY <1>1, ResumeIs
<1>3. LaneIsClaimed(g.dbg.lane, g.loops, g.loose)
  <2>1. f.dbg.lane \in Seq(Entries) /\ LaneIsClaimed(f.dbg.lane, f.loops, f.loose)
    BY <1>1, FrameIs DEF FrameOK
  <2>2. f.dbg.lane # <<>> =>
          LaneIsClaimed(<<f.dbg.lane[1]>>, f.loops, f.loose \intersect {f.dbg.lane[1].id})
    BY <2>1, FirstInLane
  <2> QED BY <1>2, <2>1, <2>2
<1>4. SessionIsWhole(g.ide, g.dbg)
  <2>1. SessionIsWhole(f.ide, f.dbg)
    BY DEF FrameOK
  <2>2. <<f.dbg.lane[1]>> # <<>>
    OBVIOUS
  <2>3. f.dbg.live \in BOOLEAN /\ f.dbg.stopped \in BOOLEAN /\ f.dbg.going \in BOOLEAN
        /\ g.dbg.live \in BOOLEAN /\ g.dbg.stopped \in BOOLEAN /\ g.dbg.going \in BOOLEAN
    BY <1>1, <1>2, FrameIs
  <2>4. g.ide.seen <= g.dbg.stop
    BY <1>2, <2>1 DEF SessionIsWhole
  <2>5. g.dbg.stopped => g.dbg.live
    BY <1>2, <2>1, <2>3 DEF SessionIsWhole
  <2>6. g.dbg.going => g.dbg.stopped /\ g.dbg.lane # <<>>
    BY <1>2, <2>1, <2>2, <2>3 DEF SessionIsWhole
  <2>7. ~g.dbg.live => g.dbg.lane = <<>>
    BY <1>2, <2>1, <2>3 DEF SessionIsWhole
  <2> QED BY <2>4, <2>5, <2>6, <2>7 DEF SessionIsWhole
<1> QED BY <1>2, <1>3, <1>4 DEF FrameOK

LEMMA EndSessionOK ==
  ASSUME NEW f, NEW held, NEW owing, NEW script, FrameOK(f, held, owing, script),
         NEW g, g = EndSession(f)
  PROVE  FrameOK(g, held, owing, script)
<1>1. f \in FrameType
  BY DEF FrameOK
<1>2. /\ g \in FrameType
      /\ g.conns = f.conns /\ g.loops = f.loops /\ g.hook = f.hook
      /\ g.ide.busy = f.ide.busy /\ g.ide.seen = f.ide.seen /\ g.dbg.stop = f.dbg.stop
      /\ \/ g.dbg = f.dbg /\ g.loose = f.loose
         \/ g.dbg.lane = <<>> /\ g.loose = {} /\ ~g.dbg.stopped /\ ~g.dbg.going
  BY <1>1, EndSessionIs
<1>3. LaneIsClaimed(<<>>, g.loops, {})
  <2>1. DOMAIN <<>> = {}
    OBVIOUS
  <2> QED BY <2>1 DEF LaneIsClaimed
<1>4. LaneIsClaimed(f.dbg.lane, f.loops, f.loose) /\ SessionIsWhole(f.ide, f.dbg)
  BY DEF FrameOK
<1>5. LaneIsClaimed(g.dbg.lane, g.loops, g.loose)
  BY <1>2, <1>3, <1>4
<1>6. SessionIsWhole(g.ide, g.dbg)
  BY <1>2, <1>4 DEF SessionIsWhole
<1> QED BY <1>2, <1>5, <1>6 DEF FrameOK

-----------------------------------------------------------------------------
(* Waiting.                                                                 *)

LEMMA NoAnswerIs ==
  NoAnswer \in Answers /\ NoAnswer.id = 0
  BY DEF NoAnswer, Answers

(* A wait that begins has a fresh request and no answer.                    *)
Begun(f, w) == [w EXCEPT !.mine = FreshId(f), !.got = NoAnswer, !.done = FALSE]

LEMMA BegunIs ==
  ASSUME NEW f \in FrameType, NEW w \in Waits
  PROVE  /\ Begun(f, w) \in Waits /\ Begun(f, w).kind = w.kind /\ Begun(f, w).conn = w.conn
         /\ Begun(f, w).mine = FreshId(f) /\ Begun(f, w).got = NoAnswer
<1>1. FreshId(f) \in Nat
  BY FreshIs
<1> QED BY <1>1, NoAnswerIs DEF Begun, Waits

LEMMA WaitIs ==
  ASSUME NEW f \in FrameType, NEW w \in Waits, NEW g, g = Wait(f, w),
         ~(w.kind = "hook" /\ w.key \in Texts)
  PROVE  /\ g \in FrameType
         /\ g.conns = f.conns /\ g.hook = f.hook /\ g.loose = f.loose
         /\ g.ide.busy = f.ide.busy /\ g.ide.seen = f.ide.seen
         /\ g.dbg.live = f.dbg.live /\ g.dbg.stopped = f.dbg.stopped
         /\ g.dbg.going = f.dbg.going /\ g.dbg.stop = f.dbg.stop
         /\ g.loops = Append(f.loops, Begun(f, w))
         /\ \E e \in Entries :
              /\ e.id = FreshId(f) /\ e.by = w.kind /\ (e.tag = "state" => e.key = "reg")
              /\ g.dbg.lane = IF f.dbg.live THEN Append(f.dbg.lane, e) ELSE f.dbg.lane
<1> DEFINE tag == CASE w.key \in Texts -> "cmd"
                    [] w.key \notin Texts /\ w.kind = "hook" -> IF w.key = "reg" THEN "state" ELSE "hook"
                    [] OTHER -> "memory"
           p == IF w.key \in Texts THEN [f EXCEPT !.ide.pending = w.key] ELSE f
           h == Enqueue(p, w.key, tag, w.kind)
           e == [key |-> w.key, tag |-> tag, by |-> w.kind, id |-> FreshId(f)]
<1>1. w.key \in Keys /\ w.kind \in Askers /\ w.kind \in {"user", "remote", "hook"}
  BY DEF Waits, Askers
<1>2. tag \in Tags /\ (tag = "state" => w.key = "reg")
  BY DEF Tags
<1>3. /\ p \in FrameType /\ p.conns = f.conns /\ p.dbg = f.dbg /\ p.loops = f.loops
      /\ p.hook = f.hook /\ p.loose = f.loose
      /\ p.ide.busy = f.ide.busy /\ p.ide.seen = f.ide.seen
  <2>1. CASE w.key \in Texts
    <3> DEFINE i == [f.ide EXCEPT !.pending = w.key]
    <3>1. i \in IdeType /\ i.busy = f.ide.busy /\ i.seen = f.ide.seen
      BY <2>1, FrameIs DEF IdeType
    <3>2. p = [f EXCEPT !.ide = i]
      BY <2>1, FrameIs
    <3> HIDE DEF i, p
    <3>3. p = [conns |-> f.conns, ide |-> i, dbg |-> f.dbg, loops |-> f.loops,
               hook |-> f.hook, loose |-> f.loose]
      BY <3>2, FrameIs
    <3>4. p \in FrameType
      BY <3>1, <3>3, FrameIs DEF FrameType
    <3> QED BY <3>1, <3>3, <3>4
  <2>2. CASE w.key \notin Texts
    BY <2>2
  <2> QED BY <2>1, <2>2
<1>4. FreshId(p) = FreshId(f)
  BY <1>3 DEF FreshId, Ids, InLane
<1>5. g = [h EXCEPT !.loops = Append(@, Begun(p, w))]
  <2>1. CASE w.key \in Texts
    BY <2>1, <1>4 DEF Wait, Begun
  <2>2. CASE w.key \notin Texts /\ w.kind = "hook"
    BY <2>2, <1>4 DEF Wait, Begun
  <2>3. CASE w.key \notin Texts /\ w.kind # "hook"
    BY <2>3, <1>4 DEF Wait, Begun
  <2> QED BY <2>1, <2>2, <2>3
<1>6. Begun(p, w) = Begun(f, w)
  BY <1>4 DEF Begun
<1>7. e \in Entries
  BY <1>1, <1>2, FreshIs DEF Entries, Tags
<1> HIDE DEF tag, p
<1>8. /\ h \in FrameType
      /\ h.conns = p.conns /\ h.ide = p.ide /\ h.loops = p.loops /\ h.hook = p.hook
      /\ h.loose = p.loose
      /\ h.dbg.live = p.dbg.live /\ h.dbg.stopped = p.dbg.stopped
      /\ h.dbg.going = p.dbg.going /\ h.dbg.stop = p.dbg.stop
      /\ h.dbg.lane = IF p.dbg.live
                      THEN Append(p.dbg.lane, [key |-> w.key, tag |-> tag, by |-> w.kind,
                                               id |-> FreshId(p)])
                      ELSE p.dbg.lane
  BY <1>1, <1>2, <1>3, EnqueueIs
<1> HIDE DEF h
<1>9. g = [conns |-> h.conns, ide |-> h.ide, dbg |-> h.dbg,
           loops |-> Append(f.loops, Begun(f, w)), hook |-> h.hook, loose |-> h.loose]
  <2>1. h.loops = f.loops
    BY <1>3, <1>8
  <2>2. g = [h EXCEPT !.loops = Append(f.loops, Begun(f, w))]
    BY <1>5, <1>6, <1>8, <2>1, FrameIs
  <2> QED BY <1>8, <2>2, FrameIs
<1>10. Append(f.loops, Begun(f, w)) \in Seq(Waits)
  BY BegunIs, FrameIs
<1>11. g \in FrameType
  BY <1>8, <1>9, <1>10, FrameIs DEF FrameType
<1>12. h.dbg.lane = IF f.dbg.live THEN Append(f.dbg.lane, e) ELSE f.dbg.lane
  BY <1>3, <1>4, <1>8
<1>13. e.id = FreshId(f) /\ e.by = w.kind /\ (e.tag = "state" => e.key = "reg")
  BY <1>2
<1> HIDE DEF e
<1>14. \E x \in Entries :
         /\ x.id = FreshId(f) /\ x.by = w.kind /\ (x.tag = "state" => x.key = "reg")
         /\ g.dbg.lane = IF f.dbg.live THEN Append(f.dbg.lane, x) ELSE f.dbg.lane
  <2>1. g.dbg.lane = h.dbg.lane
    BY <1>9
  <2> QED BY <1>7, <1>12, <1>13, <2>1
<1> QED BY <1>3, <1>8, <1>9, <1>11, <1>14

(* One more wait on top of the others.                                      *)
LEMMA MoreIs ==
  ASSUME NEW waits \in Seq(Waits), NEW w \in Waits, NEW more, more = Append(waits, w)
  PROVE  /\ Len(waits) + 1 \in DOMAIN more /\ more[Len(waits) + 1] = w
         /\ \A i \in DOMAIN waits : i \in DOMAIN more /\ more[i] = waits[i]
         /\ \A i \in DOMAIN more : i \in DOMAIN waits \/ i = Len(waits) + 1
<1>1. /\ Len(waits) \in Nat /\ DOMAIN waits = 1 .. Len(waits)
      /\ DOMAIN more = 1 .. Len(waits) + 1
      /\ \A i \in DOMAIN waits : more[i] = waits[i]
      /\ more[Len(waits) + 1] = w
  BY AppendIs
<1> QED BY <1>1

LEMMA MoreClaims ==
  ASSUME NEW waits \in Seq(Waits), NEW w \in Waits, NEW more, more = Append(waits, w)
  PROVE  /\ \E k \in DOMAIN more : more[k].mine = w.mine /\ more[k].kind = w.kind
         /\ \A j \in DOMAIN waits : \E k \in DOMAIN more :
              more[k].mine = waits[j].mine /\ more[k].kind = waits[j].kind
<1>1. \E k \in DOMAIN more : more[k].mine = w.mine /\ more[k].kind = w.kind
  BY MoreIs
<1>2. \A j \in DOMAIN waits : \E k \in DOMAIN more :
        more[k].mine = waits[j].mine /\ more[k].kind = waits[j].kind
  BY MoreIs
<1> QED BY <1>1, <1>2

LEMMA MoreAnswers ==
  ASSUME NEW waits \in Seq(Waits), NEW w \in Waits, NEW more, more = Append(waits, w),
         AnswersAreOwn(waits), w.got = NoAnswer
  PROVE  AnswersAreOwn(more)
  BY MoreIs DEF AnswersAreOwn

LEMMA MoreHas ==
  ASSUME NEW waits \in Seq(Waits), NEW w \in Waits, NEW more, more = Append(waits, w), NEW kind
  PROVE  Has(more, kind) <=> (Has(waits, kind) \/ w.kind = kind)
<1>1. Has(more, kind) => Has(waits, kind) \/ w.kind = kind
  BY MoreIs DEF Has
<1>2. Has(waits, kind) => Has(more, kind)
  BY MoreIs DEF Has
<1>3. w.kind = kind => Has(more, kind)
  BY MoreIs DEF Has
<1> QED BY <1>1, <1>2, <1>3

LEMMA MoreOne ==
  ASSUME NEW waits \in Seq(Waits), NEW w \in Waits, NEW more, more = Append(waits, w), NEW kind,
         AtMostOne(waits, kind), Has(waits, kind) => w.kind # kind
  PROVE  AtMostOne(more, kind)
<1>1. /\ Len(waits) + 1 \in DOMAIN more /\ more[Len(waits) + 1] = w
      /\ \A i \in DOMAIN waits : i \in DOMAIN more /\ more[i] = waits[i]
      /\ \A i \in DOMAIN more : i \in DOMAIN waits \/ i = Len(waits) + 1
  BY MoreIs
<1>2. ASSUME NEW i \in DOMAIN more, NEW j \in DOMAIN more,
             more[i].kind = kind, more[j].kind = kind
      PROVE  i = j
  <2>1. CASE i \in DOMAIN waits /\ j \in DOMAIN waits
    BY <1>1, <1>2, <2>1 DEF AtMostOne
  <2>2. CASE i \in DOMAIN waits /\ j = Len(waits) + 1
    BY <1>1, <1>2, <2>2 DEF Has
  <2>3. CASE i = Len(waits) + 1 /\ j \in DOMAIN waits
    BY <1>1, <1>2, <2>3 DEF Has
  <2> QED BY <1>1, <2>1, <2>2, <2>3
<1> QED BY <1>2 DEF AtMostOne

LEMMA MoreFor ==
  ASSUME NEW waits \in Seq(Waits), NEW w \in Waits, NEW more, more = Append(waits, w), NEW c
  PROVE  WaitsFor(more, c) <=> (WaitsFor(waits, c) \/ (w.kind = "remote" /\ w.conn = c))
<1>1. WaitsFor(more, c) => WaitsFor(waits, c) \/ (w.kind = "remote" /\ w.conn = c)
  BY MoreIs DEF WaitsFor
<1>2. WaitsFor(waits, c) => WaitsFor(more, c)
  BY MoreIs DEF WaitsFor
<1>3. w.kind = "remote" /\ w.conn = c => WaitsFor(more, c)
  BY MoreIs DEF WaitsFor
<1> QED BY <1>1, <1>2, <1>3

(* What every wait keeps, whoever it is for.                                *)
LEMMA WaitShared ==
  ASSUME NEW f \in FrameType, LaneIsClaimed(f.dbg.lane, f.loops, f.loose),
         AnswersAreOwn(f.loops), SessionIsWhole(f.ide, f.dbg),
         NEW w \in Waits, NEW g, g = Wait(f, w), ~(w.kind = "hook" /\ w.key \in Texts)
  PROVE  /\ g \in FrameType
         /\ LaneIsClaimed(g.dbg.lane, g.loops, g.loose)
         /\ AnswersAreOwn(g.loops)
         /\ SessionIsWhole(g.ide, g.dbg)
         /\ g.conns = f.conns /\ g.hook = f.hook /\ g.ide.busy = f.ide.busy
         /\ f.loops \in Seq(Waits) /\ Begun(f, w) \in Waits
         /\ Begun(f, w).kind = w.kind /\ Begun(f, w).conn = w.conn
         /\ g.loops = Append(f.loops, Begun(f, w))
<1>2. /\ g \in FrameType
      /\ g.conns = f.conns /\ g.hook = f.hook /\ g.loose = f.loose
      /\ g.ide.busy = f.ide.busy /\ g.ide.seen = f.ide.seen
      /\ g.dbg.live = f.dbg.live /\ g.dbg.stopped = f.dbg.stopped
      /\ g.dbg.going = f.dbg.going /\ g.dbg.stop = f.dbg.stop
      /\ g.loops = Append(f.loops, Begun(f, w))
      /\ \E e \in Entries :
           /\ e.id = FreshId(f) /\ e.by = w.kind /\ (e.tag = "state" => e.key = "reg")
           /\ g.dbg.lane = IF f.dbg.live THEN Append(f.dbg.lane, e) ELSE f.dbg.lane
  BY WaitIs
<1>3. /\ Begun(f, w) \in Waits /\ Begun(f, w).kind = w.kind /\ Begun(f, w).conn = w.conn
      /\ Begun(f, w).mine = FreshId(f) /\ Begun(f, w).got = NoAnswer
  BY BegunIs
<1>4. f.dbg.lane \in Seq(Entries) /\ f.loops \in Seq(Waits)
  BY FrameIs
<1>5. PICK e \in Entries :
        /\ e.id = FreshId(f) /\ e.by = w.kind /\ (e.tag = "state" => e.key = "reg")
        /\ g.dbg.lane = IF f.dbg.live THEN Append(f.dbg.lane, e) ELSE f.dbg.lane
  BY <1>2
<1>6. /\ \A j \in DOMAIN f.loops : \E k \in DOMAIN g.loops :
           g.loops[k].mine = f.loops[j].mine /\ g.loops[k].kind = f.loops[j].kind
      /\ \E k \in DOMAIN g.loops : g.loops[k].mine = e.id /\ g.loops[k].kind = e.by
      /\ AnswersAreOwn(g.loops)
  <2> DEFINE b == Begun(f, w)
  <2>1. b \in Waits /\ b.kind = w.kind /\ b.mine = FreshId(f) /\ b.got = NoAnswer
        /\ g.loops = Append(f.loops, b)
    BY <1>2, <1>3
  <2> HIDE DEF b
  <2>2. /\ \A j \in DOMAIN f.loops : \E k \in DOMAIN g.loops :
             g.loops[k].mine = f.loops[j].mine /\ g.loops[k].kind = f.loops[j].kind
        /\ \E k \in DOMAIN g.loops : g.loops[k].mine = b.mine /\ g.loops[k].kind = b.kind
        /\ AnswersAreOwn(g.loops)
    <3>1. ASSUME NEW j \in DOMAIN f.loops
          PROVE  \E k \in DOMAIN g.loops :
                   g.loops[k].mine = f.loops[j].mine /\ g.loops[k].kind = f.loops[j].kind
      BY <1>4, <2>1, MoreIs
    <3>2. \E k \in DOMAIN g.loops : g.loops[k].mine = b.mine /\ g.loops[k].kind = b.kind
      BY <1>4, <2>1, MoreClaims
    <3>3. AnswersAreOwn(g.loops)
      BY <1>4, <2>1, MoreAnswers
    <3> QED BY <3>1, <3>2, <3>3
  <2> QED BY <1>5, <2>1, <2>2
<1>7. LaneIsClaimed(g.dbg.lane, g.loops, g.loose)
  <2>1. CASE f.dbg.live
    <3>1. \A i \in DOMAIN f.dbg.lane : f.dbg.lane[i].id # e.id
      BY <1>5, FreshIs
    <3>2. e.tag = "state" => e.key \in {"state", "reg"}
      BY <1>5
    <3>3. e.by \in {"remote", "hook"} =>
            \E j \in DOMAIN g.loops : g.loops[j].mine = e.id /\ g.loops[j].kind = e.by
      BY <1>6
    <3>4. \A j \in DOMAIN f.loops : \E k \in DOMAIN g.loops :
            g.loops[k].mine = f.loops[j].mine /\ g.loops[k].kind = f.loops[j].kind
      BY <1>6
    <3>5. LaneIsClaimed(Append(f.dbg.lane, e), g.loops, f.loose)
      BY <1>4, <3>1, <3>2, <3>3, <3>4, GrownLane
    <3> QED BY <1>2, <1>5, <2>1, <3>5
  <2>2. CASE ~f.dbg.live
    <3>1. LaneIsClaimed(f.dbg.lane, g.loops, f.loose)
      <4>1. \A x \in f.loose : x \in f.loose \/ \E i \in DOMAIN f.dbg.lane : f.dbg.lane[i].id = x
        OBVIOUS
      <4> QED BY <1>6, <4>1, GivenUpInLane
    <3> QED BY <1>2, <1>5, <2>2, <3>1
  <2> QED BY <2>1, <2>2
<1>8. SessionIsWhole(g.ide, g.dbg)
  <2>1. Append(f.dbg.lane, e) # <<>>
    BY <1>4, <1>5
  <2> QED BY <1>2, <1>5, <2>1 DEF SessionIsWhole
<1> QED BY <1>2, <1>3, <1>4, <1>6, <1>7, <1>8

(* A verb's wait takes over the busy flag and the reply.                    *)
LEMMA WaitRemoteOK ==
  ASSUME NEW f, NEW w \in Waits, w.kind = "remote", FrameOK(f, TRUE, {w.conn}, FALSE),
         NEW g, g = Wait(f, w)
  PROVE  FrameOK(g, FALSE, {}, FALSE)
<1> DEFINE b == Begun(f, w)
<1>1. /\ g \in FrameType
      /\ LaneIsClaimed(g.dbg.lane, g.loops, g.loose)
      /\ AnswersAreOwn(g.loops)
      /\ SessionIsWhole(g.ide, g.dbg)
      /\ g.conns = f.conns /\ g.hook = f.hook /\ g.ide.busy = f.ide.busy
      /\ f.loops \in Seq(Waits) /\ b \in Waits
      /\ b.kind = w.kind /\ b.conn = w.conn
      /\ g.loops = Append(f.loops, b)
  <2>1. /\ f \in FrameType /\ LaneIsClaimed(f.dbg.lane, f.loops, f.loose)
        /\ AnswersAreOwn(f.loops) /\ SessionIsWhole(f.ide, f.dbg)
    BY DEF FrameOK
  <2>2. ~(w.kind = "hook" /\ w.key \in Texts)
    OBVIOUS
  <2> HIDE DEF b
  <2>3. /\ g \in FrameType
        /\ LaneIsClaimed(g.dbg.lane, g.loops, g.loose)
        /\ AnswersAreOwn(g.loops)
        /\ SessionIsWhole(g.ide, g.dbg)
        /\ g.conns = f.conns /\ g.hook = f.hook /\ g.ide.busy = f.ide.busy
    BY <2>1, <2>2, WaitShared
  <2>4. /\ f.loops \in Seq(Waits) /\ Begun(f, w) \in Waits
        /\ Begun(f, w).kind = w.kind /\ Begun(f, w).conn = w.conn
        /\ g.loops = Append(f.loops, Begun(f, w))
    BY <2>1, <2>2, WaitShared
  <2> QED BY <2>3, <2>4 DEF b
<1> HIDE DEF b
<1>2. /\ \A kind : Has(g.loops, kind) <=> (Has(f.loops, kind) \/ b.kind = kind)
      /\ \A kind : AtMostOne(f.loops, kind) /\ (Has(f.loops, kind) => b.kind # kind)
                     => AtMostOne(g.loops, kind)
      /\ \A c : WaitsFor(g.loops, c) <=> (WaitsFor(f.loops, c) \/ (b.kind = "remote" /\ b.conn = c))
  <2>1. \A kind : Has(g.loops, kind) <=> (Has(f.loops, kind) \/ b.kind = kind)
    BY <1>1, MoreHas
  <2>2. \A kind : AtMostOne(f.loops, kind) /\ (Has(f.loops, kind) => b.kind # kind)
                    => AtMostOne(g.loops, kind)
    BY <1>1, MoreOne
  <2>3. \A c : WaitsFor(g.loops, c) <=> (WaitsFor(f.loops, c) \/ (b.kind = "remote" /\ b.conn = c))
    BY <1>1, MoreFor
  <2> QED BY <2>1, <2>2, <2>3
<1>3. /\ VerbsAreAccounted(f.ide.busy, f.conns, f.loops, TRUE, {w.conn})
      /\ ScriptIsAccounted(f.hook, f.loops, FALSE)
  BY DEF FrameOK
<1>4. \A c : ~WaitsFor(f.loops, c)
  BY <1>3 DEF VerbsAreAccounted, WaitsFor, Has
<1>5. ASSUME NEW c \in Clients
      PROVE  g.conns[c].owed = Len(g.conns[c].posted) + (IF WaitsFor(g.loops, c) THEN 1 ELSE 0)
                                 + (IF c \in {} THEN 1 ELSE 0)
  <2>1. f.conns[c].owed = Len(f.conns[c].posted) + 0 + (IF c = w.conn THEN 1 ELSE 0)
    BY <1>3, <1>4 DEF VerbsAreAccounted
  <2>2. WaitsFor(g.loops, c) <=> c = w.conn
    BY <1>1, <1>2, <1>4
  <2>3. Len(f.conns[c].posted) \in Nat
    <3>1. f.conns[c] \in Connections
      BY FrameIs DEF FrameOK
    <3>2. f.conns[c].posted \in Seq(Requests)
      BY <3>1 DEF Connections
    <3> QED BY <3>2
  <2>4. CASE c = w.conn
    BY <1>1, <2>1, <2>2, <2>3, <2>4
  <2>5. CASE c # w.conn
    BY <1>1, <2>1, <2>2, <2>3, <2>5
  <2> QED BY <2>4, <2>5
<1>6. VerbsAreAccounted(g.ide.busy, g.conns, g.loops, FALSE, {})
  BY <1>1, <1>2, <1>3, <1>5 DEF VerbsAreAccounted
<1>7. ScriptIsAccounted(g.hook, g.loops, FALSE)
  BY <1>1, <1>2, <1>3 DEF ScriptIsAccounted
<1> QED BY <1>1, <1>6, <1>7 DEF FrameOK

(* A capture from the menu belongs to nobody that keeps account.            *)
LEMMA WaitUserOK ==
  ASSUME NEW f, NEW w \in Waits, w.kind = "user", FrameOK(f, FALSE, {}, FALSE),
         NEW g, g = Wait(f, w)
  PROVE  FrameOK(g, FALSE, {}, FALSE)
<1> DEFINE b == Begun(f, w)
<1>1. /\ g \in FrameType
      /\ LaneIsClaimed(g.dbg.lane, g.loops, g.loose)
      /\ AnswersAreOwn(g.loops)
      /\ SessionIsWhole(g.ide, g.dbg)
      /\ g.conns = f.conns /\ g.hook = f.hook /\ g.ide.busy = f.ide.busy
      /\ f.loops \in Seq(Waits) /\ b \in Waits
      /\ b.kind = w.kind /\ b.conn = w.conn
      /\ g.loops = Append(f.loops, b)
  <2>1. /\ f \in FrameType /\ LaneIsClaimed(f.dbg.lane, f.loops, f.loose)
        /\ AnswersAreOwn(f.loops) /\ SessionIsWhole(f.ide, f.dbg)
    BY DEF FrameOK
  <2>2. ~(w.kind = "hook" /\ w.key \in Texts)
    OBVIOUS
  <2> HIDE DEF b
  <2>3. /\ g \in FrameType
        /\ LaneIsClaimed(g.dbg.lane, g.loops, g.loose)
        /\ AnswersAreOwn(g.loops)
        /\ SessionIsWhole(g.ide, g.dbg)
        /\ g.conns = f.conns /\ g.hook = f.hook /\ g.ide.busy = f.ide.busy
    BY <2>1, <2>2, WaitShared
  <2>4. /\ f.loops \in Seq(Waits) /\ Begun(f, w) \in Waits
        /\ Begun(f, w).kind = w.kind /\ Begun(f, w).conn = w.conn
        /\ g.loops = Append(f.loops, Begun(f, w))
    BY <2>1, <2>2, WaitShared
  <2> QED BY <2>3, <2>4 DEF b
<1> HIDE DEF b
<1>2. /\ \A kind : Has(g.loops, kind) <=> (Has(f.loops, kind) \/ b.kind = kind)
      /\ \A kind : AtMostOne(f.loops, kind) /\ (Has(f.loops, kind) => b.kind # kind)
                     => AtMostOne(g.loops, kind)
      /\ \A c : WaitsFor(g.loops, c) <=> (WaitsFor(f.loops, c) \/ (b.kind = "remote" /\ b.conn = c))
  <2>1. \A kind : Has(g.loops, kind) <=> (Has(f.loops, kind) \/ b.kind = kind)
    BY <1>1, MoreHas
  <2>2. \A kind : AtMostOne(f.loops, kind) /\ (Has(f.loops, kind) => b.kind # kind)
                    => AtMostOne(g.loops, kind)
    BY <1>1, MoreOne
  <2>3. \A c : WaitsFor(g.loops, c) <=> (WaitsFor(f.loops, c) \/ (b.kind = "remote" /\ b.conn = c))
    BY <1>1, MoreFor
  <2> QED BY <2>1, <2>2, <2>3
<1>3. /\ VerbsAreAccounted(f.ide.busy, f.conns, f.loops, FALSE, {})
      /\ ScriptIsAccounted(f.hook, f.loops, FALSE)
  BY DEF FrameOK
<1>4. VerbsAreAccounted(g.ide.busy, g.conns, g.loops, FALSE, {})
  BY <1>1, <1>2, <1>3 DEF VerbsAreAccounted
<1>5. ScriptIsAccounted(g.hook, g.loops, FALSE)
  BY <1>1, <1>2, <1>3 DEF ScriptIsAccounted
<1> QED BY <1>1, <1>4, <1>5 DEF FrameOK

(* A script that waits is no longer in hand.                                *)
LEMMA WaitHookOK ==
  ASSUME NEW f, NEW w \in Waits, w.kind = "hook", w.key \notin Texts, FrameOK(f, FALSE, {}, TRUE),
         NEW g, g = Wait(f, w)
  PROVE  FrameOK(g, FALSE, {}, FALSE)
<1> DEFINE b == Begun(f, w)
<1>1. /\ g \in FrameType
      /\ LaneIsClaimed(g.dbg.lane, g.loops, g.loose)
      /\ AnswersAreOwn(g.loops)
      /\ SessionIsWhole(g.ide, g.dbg)
      /\ g.conns = f.conns /\ g.hook = f.hook /\ g.ide.busy = f.ide.busy
      /\ f.loops \in Seq(Waits) /\ b \in Waits
      /\ b.kind = w.kind /\ b.conn = w.conn
      /\ g.loops = Append(f.loops, b)
  <2>1. /\ f \in FrameType /\ LaneIsClaimed(f.dbg.lane, f.loops, f.loose)
        /\ AnswersAreOwn(f.loops) /\ SessionIsWhole(f.ide, f.dbg)
    BY DEF FrameOK
  <2>2. ~(w.kind = "hook" /\ w.key \in Texts)
    OBVIOUS
  <2> HIDE DEF b
  <2>3. /\ g \in FrameType
        /\ LaneIsClaimed(g.dbg.lane, g.loops, g.loose)
        /\ AnswersAreOwn(g.loops)
        /\ SessionIsWhole(g.ide, g.dbg)
        /\ g.conns = f.conns /\ g.hook = f.hook /\ g.ide.busy = f.ide.busy
    BY <2>1, <2>2, WaitShared
  <2>4. /\ f.loops \in Seq(Waits) /\ Begun(f, w) \in Waits
        /\ Begun(f, w).kind = w.kind /\ Begun(f, w).conn = w.conn
        /\ g.loops = Append(f.loops, Begun(f, w))
    BY <2>1, <2>2, WaitShared
  <2> QED BY <2>3, <2>4 DEF b
<1> HIDE DEF b
<1>2. /\ \A kind : Has(g.loops, kind) <=> (Has(f.loops, kind) \/ b.kind = kind)
      /\ \A kind : AtMostOne(f.loops, kind) /\ (Has(f.loops, kind) => b.kind # kind)
                     => AtMostOne(g.loops, kind)
      /\ \A c : WaitsFor(g.loops, c) <=> (WaitsFor(f.loops, c) \/ (b.kind = "remote" /\ b.conn = c))
  <2>1. \A kind : Has(g.loops, kind) <=> (Has(f.loops, kind) \/ b.kind = kind)
    BY <1>1, MoreHas
  <2>2. \A kind : AtMostOne(f.loops, kind) /\ (Has(f.loops, kind) => b.kind # kind)
                    => AtMostOne(g.loops, kind)
    BY <1>1, MoreOne
  <2>3. \A c : WaitsFor(g.loops, c) <=> (WaitsFor(f.loops, c) \/ (b.kind = "remote" /\ b.conn = c))
    BY <1>1, MoreFor
  <2> QED BY <2>1, <2>2, <2>3
<1>3. /\ VerbsAreAccounted(f.ide.busy, f.conns, f.loops, FALSE, {})
      /\ ScriptIsAccounted(f.hook, f.loops, TRUE)
  BY DEF FrameOK
<1>4. VerbsAreAccounted(g.ide.busy, g.conns, g.loops, FALSE, {})
  BY <1>1, <1>2, <1>3 DEF VerbsAreAccounted
<1>5. ScriptIsAccounted(g.hook, g.loops, FALSE)
  BY <1>1, <1>2, <1>3 DEF ScriptIsAccounted
<1> QED BY <1>1, <1>4, <1>5 DEF FrameOK

-----------------------------------------------------------------------------
(* Frames with one part replaced.                                           *)

LEMMA IdeOK ==
  ASSUME NEW f, NEW held, NEW owing, NEW script, FrameOK(f, held, owing, script),
         NEW i \in IdeType, i.busy = f.ide.busy, i.seen <= f.dbg.stop,
         NEW g, g = [f EXCEPT !.ide = i]
  PROVE  FrameOK(g, held, owing, script)
<1>1. f \in FrameType
  BY DEF FrameOK
<1>2. g = [conns |-> f.conns, ide |-> i, dbg |-> f.dbg, loops |-> f.loops,
           hook |-> f.hook, loose |-> f.loose]
  BY <1>1, FrameIs
<1>3. g \in FrameType
  BY <1>1, <1>2, FrameIs DEF FrameType
<1>4. SessionIsWhole(g.ide, g.dbg)
  BY <1>2 DEF FrameOK, SessionIsWhole
<1> QED BY <1>2, <1>3, <1>4 DEF FrameOK

LEMMA HookOK ==
  ASSUME NEW f, NEW held, NEW owing, NEW script, FrameOK(f, held, owing, script),
         NEW h \in HookType, h.running = f.hook.running, h.lost = f.hook.lost,
         NEW g, g = [f EXCEPT !.hook = h]
  PROVE  FrameOK(g, held, owing, script)
<1>1. f \in FrameType
  BY DEF FrameOK
<1>2. g = [conns |-> f.conns, ide |-> f.ide, dbg |-> f.dbg, loops |-> f.loops,
           hook |-> h, loose |-> f.loose]
  BY <1>1, FrameIs
<1>3. g \in FrameType
  BY <1>1, <1>2, FrameIs DEF FrameType
<1>4. ScriptIsAccounted(g.hook, g.loops, script)
  BY <1>2 DEF FrameOK, ScriptIsAccounted
<1> QED BY <1>2, <1>3, <1>4 DEF FrameOK

(* m_busy is set for what is in hand, and reset.                            *)
Busied(f, busy) == [f EXCEPT !.ide.busy = busy]

LEMMA BusiedIs ==
  ASSUME NEW f \in FrameType, NEW busy \in BOOLEAN
  PROVE  /\ Busied(f, busy) \in FrameType
         /\ Busied(f, busy).ide.busy = busy /\ Busied(f, busy).ide.seen = f.ide.seen
         /\ Busied(f, busy).conns = f.conns /\ Busied(f, busy).dbg = f.dbg
         /\ Busied(f, busy).loops = f.loops /\ Busied(f, busy).hook = f.hook
         /\ Busied(f, busy).loose = f.loose
<1> DEFINE i == [f.ide EXCEPT !.busy = busy]
<1>1. i \in IdeType /\ i.busy = busy /\ i.seen = f.ide.seen
  BY FrameIs DEF IdeType
<1>2. Busied(f, busy) = [f EXCEPT !.ide = i]
  BY FrameIs DEF Busied
<1> HIDE DEF i
<1>3. Busied(f, busy) = [conns |-> f.conns, ide |-> i, dbg |-> f.dbg, loops |-> f.loops,
                         hook |-> f.hook, loose |-> f.loose]
  BY <1>2, FrameIs
<1>4. Busied(f, busy) \in FrameType
  BY <1>1, <1>3, FrameIs DEF FrameType
<1> QED BY <1>1, <1>3, <1>4

LEMMA BusyOK ==
  ASSUME NEW f, NEW c \in Clients, FrameOK(f, FALSE, {c}, FALSE), ~f.ide.busy,
         NEW g, g = Busied(f, TRUE)
  PROVE  FrameOK(g, TRUE, {c}, FALSE)
<1>1. /\ g \in FrameType
      /\ g.ide.busy /\ g.ide.seen = f.ide.seen /\ g.conns = f.conns /\ g.dbg = f.dbg
      /\ g.loops = f.loops /\ g.hook = f.hook /\ g.loose = f.loose
  <2>1. f \in FrameType
    BY DEF FrameOK
  <2> QED BY <2>1, BusiedIs
<1>2. SessionIsWhole(g.ide, g.dbg)
  BY <1>1 DEF FrameOK, SessionIsWhole
<1>3. VerbsAreAccounted(f.ide.busy, f.conns, f.loops, FALSE, {c})
  BY DEF FrameOK
<1>4. ~Has(f.loops, "remote")
  BY <1>3 DEF VerbsAreAccounted
<1>5. VerbsAreAccounted(g.ide.busy, g.conns, g.loops, TRUE, {c})
  BY <1>1, <1>3, <1>4 DEF VerbsAreAccounted
<1> QED BY <1>1, <1>2, <1>5 DEF FrameOK

LEMMA FreedOK ==
  ASSUME NEW f, NEW c \in Clients, FrameOK(f, TRUE, {c}, FALSE), NEW g, g = Busied(f, FALSE)
  PROVE  FrameOK(g, FALSE, {c}, FALSE)
<1>1. /\ g \in FrameType
      /\ ~g.ide.busy /\ g.ide.seen = f.ide.seen /\ g.conns = f.conns /\ g.dbg = f.dbg
      /\ g.loops = f.loops /\ g.hook = f.hook /\ g.loose = f.loose
  <2>1. f \in FrameType
    BY DEF FrameOK
  <2> QED BY <2>1, BusiedIs
<1>2. SessionIsWhole(g.ide, g.dbg)
  BY <1>1 DEF FrameOK, SessionIsWhole
<1>3. VerbsAreAccounted(f.ide.busy, f.conns, f.loops, TRUE, {c})
  BY DEF FrameOK
<1>4. ~Has(f.loops, "remote")
  BY <1>3 DEF VerbsAreAccounted
<1>5. VerbsAreAccounted(g.ide.busy, g.conns, g.loops, FALSE, {c})
  BY <1>1, <1>3, <1>4 DEF VerbsAreAccounted
<1> QED BY <1>1, <1>2, <1>5 DEF FrameOK

(* A reply settles what is owed.                                            *)
LEMMA ReplyOK ==
  ASSUME NEW f, NEW c \in Clients, FrameOK(f, FALSE, {c}, FALSE), NEW g, g = Reply(f, c)
  PROVE  FrameOK(g, FALSE, {}, FALSE)
<1> DEFINE new == [f.conns[c] EXCEPT !.owed = @ - 1]
           all == [f.conns EXCEPT ![c] = new]
<1>1. f \in FrameType /\ f.conns \in [Clients -> Connections]
  BY FrameIs DEF FrameOK
<1>2. /\ f.conns[c] \in Connections /\ f.conns[c].owed \in Nat
      /\ \A x \in Clients : Len(f.conns[x].posted) \in Nat
  <2>1. \A x \in Connections : x.owed \in Nat /\ x.posted \in Seq(Requests)
    BY DEF Connections
  <2> QED BY <1>1, <2>1
<1>3. VerbsAreAccounted(f.ide.busy, f.conns, f.loops, FALSE, {c})
  BY DEF FrameOK
<1>4. PICK n \in Nat : n = IF WaitsFor(f.loops, c) THEN 1 ELSE 0
  OBVIOUS
<1>5. f.conns[c].owed = Len(f.conns[c].posted) + n + 1 /\ f.conns[c].owed - 1 \in Nat
  <2>1. f.conns[c].owed = Len(f.conns[c].posted) + n + 1
    BY <1>3, <1>4 DEF VerbsAreAccounted
  <2> QED BY <1>2, <2>1
<1>6. /\ new \in Connections /\ new.owed = f.conns[c].owed - 1
      /\ new.posted = f.conns[c].posted
  BY <1>2, <1>5 DEF Connections
<1>7. g = [f EXCEPT !.conns = all]
  BY <1>1, FrameIs DEF Reply
<1> HIDE DEF new
<1>8. /\ all \in [Clients -> Connections] /\ all[c] = new
      /\ \A x \in Clients : x # c => all[x] = f.conns[x]
  BY <1>1, <1>6
<1> HIDE DEF all
<1>9. g = [conns |-> all, ide |-> f.ide, dbg |-> f.dbg, loops |-> f.loops,
           hook |-> f.hook, loose |-> f.loose]
  BY <1>1, <1>7, FrameIs
<1>10. g \in FrameType
  BY <1>1, <1>8, <1>9, FrameIs DEF FrameType
<1>11. VerbsAreAccounted(g.ide.busy, g.conns, g.loops, FALSE, {})
  <2>1. all[c].owed = Len(all[c].posted) + n + 0
    <3>1. PICK p \in Nat : p = Len(f.conns[c].posted)
      BY <1>2
    <3>2. all[c].owed = (p + n + 1) - 1
      BY <1>5, <1>6, <1>8, <3>1
    <3>3. Len(all[c].posted) = p
      BY <1>6, <1>8, <3>1
    <3> QED BY <3>2, <3>3
  <2>2. \A x \in Clients : all[x].owed = Len(all[x].posted)
          + (IF WaitsFor(f.loops, x) THEN 1 ELSE 0) + (IF x \in {} THEN 1 ELSE 0)
    <3>1. ASSUME NEW x \in Clients, x # c
          PROVE  all[x].owed = Len(all[x].posted)
                   + (IF WaitsFor(f.loops, x) THEN 1 ELSE 0) + (IF x \in {} THEN 1 ELSE 0)
      BY <1>3, <1>8, <3>1 DEF VerbsAreAccounted
    <3>2. all[c].owed = Len(all[c].posted)
                   + (IF WaitsFor(f.loops, c) THEN 1 ELSE 0) + (IF c \in {} THEN 1 ELSE 0)
      BY <1>4, <2>1
    <3> QED BY <3>1, <3>2
  <2>3. g.ide.busy = f.ide.busy /\ g.conns = all /\ g.loops = f.loops
    BY <1>9
  <2>4. /\ AtMostOne(f.loops, "remote") /\ (f.ide.busy <=> FALSE \/ Has(f.loops, "remote"))
    BY <1>3 DEF VerbsAreAccounted
  <2>5. AtMostOne(g.loops, "remote") /\ (g.ide.busy <=> FALSE \/ Has(g.loops, "remote"))
    BY <2>3, <2>4
  <2>6. \A x \in Clients : g.conns[x].owed = Len(g.conns[x].posted)
          + (IF WaitsFor(g.loops, x) THEN 1 ELSE 0) + (IF x \in {} THEN 1 ELSE 0)
    BY <2>2, <2>3
  <2> HIDE <1>3, <1>4, <1>9, <2>2, <2>3, <2>4
  <2> QED BY <2>5, <2>6 DEF VerbsAreAccounted
<1>12. /\ LaneIsClaimed(g.dbg.lane, g.loops, g.loose) /\ AnswersAreOwn(g.loops)
       /\ ScriptIsAccounted(g.hook, g.loops, FALSE) /\ SessionIsWhole(g.ide, g.dbg)
  <2>1. /\ g.dbg = f.dbg /\ g.loops = f.loops /\ g.loose = f.loose /\ g.hook = f.hook
        /\ g.ide = f.ide
    BY <1>9
  <2> QED BY <2>1 DEF FrameOK
<1> QED BY <1>10, <1>11, <1>12 DEF FrameOK

-----------------------------------------------------------------------------
(* The verbs.                                                               *)

LEMMA NewWaitIs ==
  ASSUME NEW kind \in {"user", "remote"}, NEW c \in Clients \union {"none"},
         kind = "remote" => c \in Clients,
         NEW req \in Requests, req.verb \notin {"continue", "stop"}
  PROVE  /\ NewWait(kind, c, req) \in Waits /\ NewWait(kind, c, req).kind = kind
         /\ NewWait(kind, c, req).conn = c
<1>1. req.verb \in Verbs /\ req.todo \in Seq(Asked) /\ req.todo # <<>>
  BY RequestsAssumption DEF Asked
<1>2. Head(req.todo) \in Asked /\ Tail(req.todo) \in Seq(Asked)
  BY <1>1, TailIs
<1> QED BY <1>1, <1>2, NoAnswerIs DEF NewWait, Waits, Asked, Keys

LEMMA ExecuteOK ==
  ASSUME NEW f, NEW c \in Clients, NEW req \in Requests, FrameOK(f, FALSE, {c}, FALSE),
         NEW g, g = Execute(f, c, req)
  PROVE  FrameOK(g, FALSE, {}, FALSE)
<1>1. CASE req.verb = "continue"
  <2>1. g = Reply(Resume(f), c)
    BY <1>1 DEF Execute
  <2>2. FrameOK(Resume(f), FALSE, {c}, FALSE)
    BY ResumeOK
  <2> QED BY <2>1, <2>2, ReplyOK
<1>2. CASE req.verb = "stop"
  <2>1. g = Reply(EndSession(f), c)
    BY <1>2 DEF Execute
  <2>2. FrameOK(EndSession(f), FALSE, {c}, FALSE)
    BY EndSessionOK
  <2> QED BY <2>1, <2>2, ReplyOK
<1>3. CASE /\ req.verb \notin {"continue", "stop"}
           /\ f.ide.busy \/ (req.verb = "capture" /\ ~f.dbg.stopped)
  <2>1. g = Reply(f, c)
    BY <1>3 DEF Execute
  <2> QED BY <2>1, ReplyOK
<1>4. CASE /\ req.verb \notin {"continue", "stop"}
           /\ ~(f.ide.busy \/ (req.verb = "capture" /\ ~f.dbg.stopped))
  <2> DEFINE h == Busied(f, TRUE)
             w == NewWait("remote", c, req)
  <2>1. g = Wait(h, w)
    BY <1>4 DEF Execute, Busied
  <2>2. w \in Waits /\ w.kind = "remote" /\ w.conn = c
    BY <1>4, NewWaitIs
  <2>3. FrameOK(h, TRUE, {c}, FALSE)
    BY <1>4, BusyOK
  <2> HIDE DEF h, w
  <2> QED BY <2>1, <2>2, <2>3, WaitRemoteOK
<1> QED BY <1>1, <1>2, <1>3, <1>4

LEMMA FinishOK ==
  ASSUME NEW f, NEW w \in Waits, NEW g, g = Finish(f, w),
         \/ w.kind = "user" /\ FrameOK(f, FALSE, {}, FALSE)
         \/ w.kind = "remote" /\ w.conn \in Clients /\ FrameOK(f, TRUE, {w.conn}, FALSE)
  PROVE  FrameOK(g, FALSE, {}, FALSE)
<1> DEFINE h == Busied(f, FALSE)
           r == Reply(h, w.conn)
           m == [bytes |-> w.got.stop, pc |-> f.ide.seen]
<1>1. CASE w.kind = "user"
  BY <1>1 DEF Finish
<1>2. CASE w.kind = "remote"
  <2>1. FrameOK(h, FALSE, {w.conn}, FALSE) /\ w.conn \in Clients
    BY <1>2, FreedOK
  <2> HIDE DEF h
  <2>2. FrameOK(r, FALSE, {}, FALSE)
    BY <2>1, ReplyOK
  <2> HIDE DEF r
  <2>3. CASE ~(w.verb = "memmark" /\ w.got # NoAnswer)
    <3>1. g = r
      BY <1>2, <2>3 DEF Finish, r, h, Busied
    <3> QED BY <2>2, <3>1
  <2>4. CASE w.verb = "memmark" /\ w.got # NoAnswer
    <3>1. g = [r EXCEPT !.ide.mark = m]
      BY <1>2, <2>4 DEF Finish, r, h, Busied
    <3>2. m \in [bytes : Nat, pc : Nat]
      <4>1. w.got.stop \in Nat
        BY DEF Waits, Answers
      <4>2. f.ide \in IdeType
        BY <1>2, FrameIs DEF FrameOK
      <4>3. f.ide.seen \in Nat
        BY <4>2 DEF IdeType
      <4> QED BY <4>1, <4>3
    <3> HIDE DEF m
    <3> DEFINE i == [r.ide EXCEPT !.mark = m]
    <3>3. r \in FrameType /\ r.ide \in IdeType /\ SessionIsWhole(r.ide, r.dbg)
      BY <2>2, FrameIs DEF FrameOK
    <3>4. i \in IdeType /\ i.busy = r.ide.busy /\ i.seen <= r.dbg.stop
      BY <3>2, <3>3 DEF IdeType, SessionIsWhole
    <3>5. g = [r EXCEPT !.ide = i]
      BY <3>1, <3>3, FrameIs
    <3> HIDE DEF i
    <3> QED BY <2>2, <3>4, <3>5, IdeOK
  <2> QED BY <2>3, <2>4
<1> QED BY <1>1, <1>2

LEMMA WaitReturnsOK ==
  ASSUME NEW f, NEW w \in Waits, NEW g, g = WaitReturns(f, w),
         \/ w.kind = "user" /\ FrameOK(f, FALSE, {}, FALSE)
         \/ w.kind = "remote" /\ w.conn \in Clients /\ FrameOK(f, TRUE, {w.conn}, FALSE)
  PROVE  FrameOK(g, FALSE, {}, FALSE)
<1>1. CASE w.got = NoAnswer \/ w.todo = <<>>
  <2>1. g = Finish(f, w)
    BY <1>1 DEF WaitReturns
  <2> QED BY <2>1, FinishOK
<1>2. CASE w.got # NoAnswer /\ w.todo # <<>>
  <2> DEFINE v == [w EXCEPT !.key = Head(w.todo), !.todo = Tail(@),
                            !.stops = @ \union {w.got.stop}]
  <2>1. g = Wait(f, v)
    BY <1>2 DEF WaitReturns
  <2>2. w.todo \in Seq(Asked) /\ w.stops \subseteq Nat /\ w.got.stop \in Nat
    BY DEF Waits, Answers, Asked
  <2>3. Head(w.todo) \in Keys /\ Tail(w.todo) \in Seq(Asked)
    BY <1>2, <2>2, TailIs DEF Asked, Keys
  <2>4. v \in Waits /\ v.kind = w.kind /\ v.conn = w.conn
    BY <2>2, <2>3 DEF Waits, Asked
  <2> HIDE DEF v
  <2>5. CASE w.kind = "user"
    BY <2>1, <2>4, <2>5, WaitUserOK
  <2>6. CASE w.kind = "remote"
    BY <2>1, <2>4, <2>6, WaitRemoteOK
  <2> QED BY <2>5, <2>6
<1> QED BY <1>1, <1>2

-----------------------------------------------------------------------------
(* The script.                                                              *)

LEMMA HookParts ==
  ASSUME NEW h \in HookType
  PROVE  /\ h.set \in BOOLEAN /\ h.queued \in BOOLEAN /\ h.running \in BOOLEAN
         /\ h.lost \in BOOLEAN /\ h.dirty \in BOOLEAN /\ h.wrote \in BOOLEAN
         /\ h.at \in 1 .. (Len(Script) + 1)
         /\ h = [set |-> h.set, queued |-> h.queued, running |-> h.running, lost |-> h.lost,
                 at |-> h.at, dirty |-> h.dirty, wrote |-> h.wrote]
  BY DEF HookType

(* A frame whose hook is replaced.                                          *)
LEMMA HookedIs ==
  ASSUME NEW f \in FrameType, NEW h \in HookType, NEW g, g = [f EXCEPT !.hook = h]
  PROVE  /\ g \in FrameType /\ g.hook = h /\ g.conns = f.conns /\ g.ide = f.ide
         /\ g.dbg = f.dbg /\ g.loops = f.loops /\ g.loose = f.loose
<1>1. g = [conns |-> f.conns, ide |-> f.ide, dbg |-> f.dbg, loops |-> f.loops,
           hook |-> h, loose |-> f.loose]
  BY FrameIs
<1>2. g \in FrameType
  BY <1>1, FrameIs DEF FrameType
<1> QED BY <1>1, <1>2

LEMMA OnStopPublishedOK ==
  ASSUME NEW f, FrameOK(f, FALSE, {}, FALSE), NEW g, g = OnStopPublished(f)
  PROVE  FrameOK(g, FALSE, {}, FALSE)
<1> DEFINE h == [f.hook EXCEPT !.queued = TRUE, !.dirty = FALSE]
<1>1. f \in FrameType /\ f.hook \in HookType
  BY FrameIs DEF FrameOK
<1>2. h \in HookType /\ h.running = f.hook.running /\ h.lost = f.hook.lost
  BY <1>1, HookParts DEF HookType
<1>3. g = f \/ g = [f EXCEPT !.hook = h]
  <2>1. CASE ~f.hook.set \/ f.hook.running
    BY <2>1 DEF OnStopPublished
  <2>2. CASE ~(~f.hook.set \/ f.hook.running)
    BY <1>1, <2>2, FrameIs DEF OnStopPublished
  <2> QED BY <2>1, <2>2
<1> HIDE DEF h
<1> QED BY <1>2, <1>3, HookOK

(* The end of a run frees the hook.                                         *)
LEMMA HookEndOK ==
  ASSUME NEW f, FrameOK(f, FALSE, {}, TRUE), NEW continues \in BOOLEAN,
         NEW g, g = HookEnd(f, continues)
  PROVE  FrameOK(g, FALSE, {}, FALSE)
<1> DEFINE e == Enqueue(f, "state", "state", "ide")
           a == IF f.hook.wrote THEN e ELSE f
           h == [a.hook EXCEPT !.running = FALSE]
           b == [a EXCEPT !.hook = h]
<1>1. FrameOK(e, FALSE, {}, TRUE)
  BY EnqueueOK DEF Keys, Tags
<1> HIDE DEF e
<1>2. FrameOK(a, FALSE, {}, TRUE)
  BY <1>1
<1>3. b = [a EXCEPT !.hook.running = FALSE]
  BY <1>2, FrameIs DEF FrameOK
<1>4. g = IF continues THEN Resume(b) ELSE b
  BY <1>3 DEF HookEnd, e
<1> HIDE DEF a
<1>5. a \in FrameType /\ a.hook \in HookType /\ ScriptIsAccounted(a.hook, a.loops, TRUE)
  BY <1>2, FrameIs DEF FrameOK
<1>6. h \in HookType /\ ~h.running /\ h.lost = a.hook.lost
  BY <1>5, HookParts DEF HookType
<1>7. ScriptIsAccounted(h, a.loops, FALSE)
  BY <1>5, <1>6 DEF ScriptIsAccounted
<1> HIDE DEF h
<1>8. /\ b \in FrameType /\ b.hook = h /\ b.conns = a.conns /\ b.ide = a.ide
      /\ b.dbg = a.dbg /\ b.loops = a.loops /\ b.loose = a.loose
  BY <1>5, <1>6, HookedIs
<1> HIDE DEF b
<1>9. FrameOK(b, FALSE, {}, FALSE)
  BY <1>2, <1>7, <1>8 DEF FrameOK
<1> QED BY <1>4, <1>9, ResumeOK

(* The script's next wait.                                                  *)
LEMMA OperationIs ==
  ASSUME NEW k \in Keys, NEW a \in Answers, NEW t \in Seq({"info", "m1", "m2"}), NEW s \in SUBSET Nat
  PROVE  [kind |-> "hook", conn |-> "none", verb |-> "hook", key |-> k,
           todo |-> t, mine |-> 0, got |-> a, done |-> FALSE, stops |-> s] \in Waits
  BY DEF Waits

LEMMA ScriptWaitIs ==
  ASSUME NEW i \in 1 .. Len(Script), NEW w,
         w = NewWait("hook", "none", [verb |-> "hook", todo |-> <<Script[i]>>])
  PROVE  w \in Waits /\ w.kind = "hook" /\ w.key \notin Texts
<1>1. Script \in Seq({"read", "write", "reg"})
  BY RequestsAssumption
<1>2. Script[i] \in {"read", "write", "reg"}
  BY <1>1
<1>3. Head(<<Script[i]>>) = Script[i] /\ Tail(<<Script[i]>>) = <<>>
  OBVIOUS
<1>4. <<>> \in Seq({"info", "m1", "m2"}) /\ {} \in SUBSET Nat
  OBVIOUS
<1>5. w = [kind |-> "hook", conn |-> "none", verb |-> "hook", key |-> Script[i],
           todo |-> <<>>, mine |-> 0, got |-> NoAnswer, done |-> FALSE, stops |-> {}]
  BY <1>3 DEF NewWait
<1>6. Script[i] \in Keys /\ Script[i] \notin Texts
  BY <1>2 DEF Keys, Texts
<1>7. w \in Waits
  BY <1>4, <1>5, <1>6, NoAnswerIs, OperationIs
<1> QED BY <1>5, <1>6, <1>7

LEMMA HookGoOnOK ==
  ASSUME NEW f, FrameOK(f, FALSE, {}, TRUE), NEW continues \in BOOLEAN,
         NEW g, g = HookGoOn(f, continues)
  PROVE  FrameOK(g, FALSE, {}, FALSE)
<1> DEFINE needs == {i \in f.hook.at .. Len(Script) : Script[i] # "reg" \/ f.hook.dirty}
           first == CHOOSE k \in needs : \A l \in needs : k <= l
<1>1. CASE needs = {} \/ ~f.dbg.stopped
  <2>1. g = HookEnd(f, continues)
    BY <1>1 DEF HookGoOn
  <2> QED BY <2>1, HookEndOK
<1>2. CASE needs # {} /\ f.dbg.stopped
  <2> DEFINE h == [f.hook EXCEPT !.at = first + 1]
             b == [f EXCEPT !.hook = h]
             w == NewWait("hook", "none", [verb |-> "hook", todo |-> <<Script[first]>>])
  <2>1. f \in FrameType /\ f.hook \in HookType
    BY FrameIs DEF FrameOK
  <2>2. Len(Script) \in Nat
    BY RequestsAssumption
  <2>3. f.hook.at \in 1 .. (Len(Script) + 1)
    BY <2>1, HookParts
  <2>4. needs \subseteq 1 .. Len(Script) /\ needs \subseteq Nat
    BY <2>2, <2>3
  <2>5. g = Wait(b, w)
    <3>1. b = [f EXCEPT !.hook.at = first + 1]
      BY <2>1, FrameIs
    <3> QED BY <1>2, <3>1 DEF HookGoOn
  <2> HIDE DEF needs
  <2>6. \E k \in needs : \A l \in needs : k <= l
    BY <1>2, <2>4, LeastNatural
  <2>7. first \in 1 .. Len(Script)
    BY <2>4, <2>6
  <2> HIDE DEF first
  <2>8. first + 1 \in 1 .. (Len(Script) + 1)
    BY <2>2, <2>7
  <2>9. h \in HookType /\ h.running = f.hook.running /\ h.lost = f.hook.lost
    BY <2>1, <2>8, HookParts DEF HookType
  <2> HIDE DEF h
  <2>10. FrameOK(b, FALSE, {}, TRUE)
    BY <2>9, HookOK
  <2>11. w \in Waits /\ w.kind = "hook" /\ w.key \notin Texts
    BY <2>7, ScriptWaitIs
  <2> HIDE DEF b, w
  <2> QED BY <2>5, <2>10, <2>11, WaitHookOK
<1> QED BY <1>1, <1>2

LEMMA HookReturnsOK ==
  ASSUME NEW f, FrameOK(f, FALSE, {}, TRUE), NEW w, NEW caught \in BOOLEAN,
         NEW continues \in BOOLEAN, NEW g, g = HookReturns(f, w, caught, continues)
  PROVE  FrameOK(g, FALSE, {}, FALSE)
<1> DEFINE ok == w.got # NoAnswer
           a == CASE ok /\ w.key = "write" -> [f EXCEPT !.hook.dirty = TRUE, !.hook.wrote = TRUE]
                  [] ok /\ w.key = "reg"   -> [f EXCEPT !.hook.dirty = FALSE]
                  [] OTHER                 -> f
           h1 == [f.hook EXCEPT !.dirty = TRUE, !.wrote = TRUE]
           h2 == [f.hook EXCEPT !.dirty = FALSE]
<1>1. g = IF ok \/ caught THEN HookGoOn(a, continues) ELSE HookEnd(a, continues)
  BY DEF HookReturns
<1>2. f \in FrameType /\ f.hook \in HookType
  BY FrameIs DEF FrameOK
<1>3. h1 \in HookType /\ h1.running = f.hook.running /\ h1.lost = f.hook.lost
  BY <1>2, HookParts DEF HookType
<1>4. h2 \in HookType /\ h2.running = f.hook.running /\ h2.lost = f.hook.lost
  BY <1>2, HookParts DEF HookType
<1>5. FrameOK(a, FALSE, {}, TRUE)
  <2>1. CASE ok /\ w.key = "write"
    <3>1. a = [f EXCEPT !.hook = h1]
      BY <1>2, <2>1, FrameIs
    <3> HIDE DEF a, h1
    <3> QED BY <1>3, <3>1, HookOK
  <2>2. CASE ok /\ w.key = "reg"
    <3>1. a = [f EXCEPT !.hook = h2]
      BY <1>2, <2>2, FrameIs
    <3> HIDE DEF a, h2
    <3> QED BY <1>4, <3>1, HookOK
  <2>3. CASE ~(ok /\ w.key = "write") /\ ~(ok /\ w.key = "reg")
    <3>1. a = f
      BY <2>3
    <3> QED BY <3>1
  <2> QED BY <2>1, <2>2, <2>3
<1> HIDE DEF a, ok
<1> QED BY <1>1, <1>5, HookGoOnOK, HookEndOK

LEMMA RunQueuedOK ==
  ASSUME NEW f, FrameOK(f, FALSE, {}, FALSE), NEW continues \in BOOLEAN,
         NEW g, g = RunQueued(f, continues)
  PROVE  FrameOK(g, FALSE, {}, FALSE)
<1> DEFINE q == [f.hook EXCEPT !.queued = FALSE]
           a == [f EXCEPT !.hook = q]
           r == [q EXCEPT !.running = TRUE, !.at = 1, !.wrote = FALSE]
           b == [a EXCEPT !.hook = r]
           l == [r EXCEPT !.lost = TRUE]
           c == [b EXCEPT !.hook = l]
<1>1. f \in FrameType /\ f.hook \in HookType /\ ScriptIsAccounted(f.hook, f.loops, FALSE)
  BY FrameIs DEF FrameOK
<1>2. q \in HookType /\ q.running = f.hook.running /\ q.lost = f.hook.lost
  BY <1>1, HookParts DEF HookType
<1>3. 1 \in 1 .. (Len(Script) + 1)
  BY RequestsAssumption
<1>4. r \in HookType /\ r.running /\ r.lost = f.hook.lost
  <2> HIDE DEF q
  <2>1. q.lost \in BOOLEAN
    BY <1>2, HookParts
  <2> QED BY <1>2, <1>3, HookParts DEF HookType
<1>5. l \in HookType /\ l.running /\ l.lost
  <2> HIDE DEF r
  <2> QED BY <1>4, HookParts DEF HookType
<1>6. FrameOK(a, FALSE, {}, FALSE)
  <2> HIDE DEF q
  <2> QED BY <1>2, HookOK
<1>7. /\ g = IF a.hook.running \/ ~a.dbg.stopped THEN a
             ELSE IF ~a.hook.set THEN [[a EXCEPT !.hook.running = TRUE, !.hook.at = 1, !.hook.wrote = FALSE] EXCEPT !.hook.lost = TRUE]
             ELSE HookGoOn([a EXCEPT !.hook.running = TRUE, !.hook.at = 1, !.hook.wrote = FALSE], continues)
  <2>1. a = [f EXCEPT !.hook.queued = FALSE]
    BY <1>1, FrameIs
  <2> HIDE DEF a
  <2>2. CASE a.hook.running \/ ~a.dbg.stopped
    BY <2>1, <2>2 DEF RunQueued
  <2>3. CASE ~a.hook.running /\ a.dbg.stopped /\ ~a.hook.set
    BY <2>1, <2>3 DEF RunQueued
  <2>4. CASE ~a.hook.running /\ a.dbg.stopped /\ a.hook.set
    BY <2>1, <2>4 DEF RunQueued
  <2> QED BY <2>2, <2>3, <2>4
<1>8. /\ a \in FrameType /\ a.hook = q /\ a.conns = f.conns /\ a.ide = f.ide
      /\ a.dbg = f.dbg /\ a.loops = f.loops /\ a.loose = f.loose
  <2> HIDE DEF q
  <2> QED BY <1>1, <1>2, HookedIs
<1>9. b = [a EXCEPT !.hook.running = TRUE, !.hook.at = 1, !.hook.wrote = FALSE]
  <2> HIDE DEF a
  <2> QED BY <1>8, FrameIs
<1>10. /\ b \in FrameType /\ b.hook = r /\ b.conns = a.conns /\ b.ide = a.ide
       /\ b.dbg = a.dbg /\ b.loops = a.loops /\ b.loose = a.loose
  <2> HIDE DEF a, r
  <2> QED BY <1>4, <1>8, HookedIs
<1>11. c = [b EXCEPT !.hook.lost = TRUE]
  <2> HIDE DEF b, r
  <2> QED BY <1>10, FrameIs
<1>12. /\ c \in FrameType /\ c.hook = l /\ c.conns = b.conns /\ c.ide = b.ide
       /\ c.dbg = b.dbg /\ c.loops = b.loops /\ c.loose = b.loose
  <2> HIDE DEF b, l
  <2> QED BY <1>5, <1>10, HookedIs
<1>13. g = a \/ (~f.hook.running /\ g = c) \/ (~f.hook.running /\ g = HookGoOn(b, continues))
  <2> HIDE DEF a, b, c, q
  <2> QED BY <1>2, <1>7, <1>8, <1>9, <1>11
<1> HIDE DEF a, b, c, q, r, l
<1>14. ~f.hook.running => ~f.hook.lost /\ ~Has(f.loops, "hook")
  BY <1>1 DEF ScriptIsAccounted
<1>15. ~f.hook.running => FrameOK(b, FALSE, {}, TRUE)
  <2>1. ~f.hook.running => ScriptIsAccounted(b.hook, b.loops, TRUE)
    BY <1>1, <1>4, <1>8, <1>10, <1>14 DEF ScriptIsAccounted
  <2> QED BY <1>6, <1>8, <1>10, <2>1 DEF FrameOK
<1>16. ~f.hook.running => FrameOK(c, FALSE, {}, FALSE)
  <2>1. ~f.hook.running => ScriptIsAccounted(c.hook, c.loops, FALSE)
    BY <1>1, <1>5, <1>8, <1>10, <1>12, <1>14 DEF ScriptIsAccounted
  <2> QED BY <1>6, <1>8, <1>10, <1>12, <2>1 DEF FrameOK
<1> QED BY <1>6, <1>13, <1>15, <1>16, HookGoOnOK

-----------------------------------------------------------------------------
(* An answer, heard by whom it satisfies.                                   *)

LEMMA WaitParts ==
  ASSUME NEW w \in Waits
  PROVE  /\ w = [kind |-> w.kind, conn |-> w.conn, verb |-> w.verb, key |-> w.key,
                 todo |-> w.todo, mine |-> w.mine, got |-> w.got, done |-> w.done,
                 stops |-> w.stops]
         /\ w.kind \in {"user", "remote", "hook"} /\ w.key \in Keys /\ w.got \in Answers
         /\ w.mine \in Nat
  BY DEF Waits

LEMMA HeardIs ==
  ASSUME NEW w \in Waits, NEW e \in Entries, NEW f \in FrameType, NEW v, v = Heard(w, e, f)
  PROVE  /\ v \in Waits /\ v.kind = w.kind /\ v.conn = w.conn /\ v.key = w.key
         /\ v.mine = w.mine
         /\ \/ v.got = w.got
            \/ /\ Hears(w, e, f.ide.pending)
               /\ v.got.id = e.id /\ v.got.by = e.by /\ v.got.key = e.key
               /\ v.got.late <=> e.id \in f.loose
<1>1. LET a == AnswerTo(e, f)
      IN  a \in Answers /\ a.id = e.id /\ a.by = e.by /\ a.key = e.key /\ (a.late <=> e.id \in f.loose)
  <2> DEFINE late == e.id \in f.loose
  <2>1. late \in BOOLEAN /\ f.dbg.stop \in Nat
    BY FrameIs
  <2>2. AnswerTo(e, f) = [id |-> e.id, by |-> e.by, stop |-> f.dbg.stop, key |-> e.key, late |-> late]
    BY DEF AnswerTo
  <2> HIDE DEF late
  <2>3. /\ e.id \in Nat /\ e.key \in Keys
        /\ e.by \in {"none", "ide", "console", "user", "remote", "hook"}
    BY DEF Entries
  <2>4. AnswerTo(e, f) \in Answers
    BY <2>1, <2>2, <2>3 DEF Answers
  <2>5. AnswerTo(e, f).late = late
    BY <2>2
  <2>6. late <=> e.id \in f.loose
    BY DEF late
  <2>7. AnswerTo(e, f).late <=> e.id \in f.loose
    BY <2>5, <2>6
  <2>8. /\ AnswerTo(e, f).id = e.id /\ AnswerTo(e, f).by = e.by
        /\ AnswerTo(e, f).key = e.key
    BY <2>2
  <2> QED BY <2>4, <2>7, <2>8
<1>2. CASE Hears(w, e, f.ide.pending)
  <2> DEFINE a == AnswerTo(e, f)
  <2>1. v = [w EXCEPT !.got = a, !.done = TRUE]
    BY <1>2 DEF Heard
  <2>2. a \in Answers /\ a.id = e.id /\ a.by = e.by /\ a.key = e.key /\ (a.late <=> e.id \in f.loose)
    BY <1>1
  <2> HIDE DEF a
  <2>3. /\ v \in Waits /\ v.kind = w.kind /\ v.conn = w.conn /\ v.key = w.key
        /\ v.mine = w.mine /\ v.got = a
    BY <2>1, <2>2 DEF Waits
  <2> QED BY <1>2, <2>2, <2>3
<1>3. CASE ~Hears(w, e, f.ide.pending) /\ w.kind = "hook" /\ w.key = "read"
  <2>1. v = [w EXCEPT !.done = TRUE]
    BY <1>3 DEF Heard
  <2>2. v \in Waits
    BY <2>1 DEF Waits
  <2> QED BY <2>1, <2>2, WaitParts
<1>4. CASE ~Hears(w, e, f.ide.pending) /\ ~(w.kind = "hook" /\ w.key = "read")
  <2>1. v = w
    BY <1>4 DEF Heard
  <2> QED BY <2>1
<1> QED BY <1>2, <1>3, <1>4

LEMMA HeardIsOwn ==
  ASSUME NEW w \in Waits, NEW e \in Entries, NEW pending, NEW given, NEW v \in Waits,
         Hears(w, e, pending),
         e.tag = "state" => e.key \in {"state", "reg"},
         e.by = w.kind => w.kind = "user" \/ e.id \in given \/ w.mine = e.id,
         v.kind = w.kind, v.key = w.key, v.mine = w.mine, v.got.id = e.id,
         v.got.by = e.by, v.got.key = e.key, v.got.late <=> e.id \in given
  PROVE  OwnOrRepeated(v)
<1>1. CASE w.kind = "hook" /\ w.key = "reg"
  BY <1>1 DEF Hears, OwnOrRepeated
<1>2. CASE w.kind = "hook" /\ w.key # "reg"
  BY <1>2 DEF Hears, OwnOrRepeated
<1>3. CASE w.kind # "hook"
  BY <1>3 DEF Hears, OwnOrRepeated
<1> QED BY <1>1, <1>2, <1>3

LEMMA ClaimedHead ==
  ASSUME NEW lane \in Seq(Entries), lane # <<>>, NEW waits, NEW given,
         LaneIsClaimed(lane, waits, given), NEW i \in DOMAIN waits,
         waits[i].kind = "user" \/ AtMostOne(waits, waits[i].kind),
         waits[i].kind \in {"user", "remote", "hook"}, 
         Head(lane).by = waits[i].kind
  PROVE  waits[i].kind = "user" \/ Head(lane).id \in given \/ waits[i].mine = Head(lane).id
<1>1. 1 \in DOMAIN lane /\ Head(lane) = lane[1]
  BY TailIs
<1> SUFFICES ASSUME waits[i].kind \in {"remote", "hook"}, Head(lane).id \notin given
             PROVE  waits[i].mine = Head(lane).id
  OBVIOUS
<1>2. PICK j \in DOMAIN waits : waits[j].mine = lane[1].id /\ waits[j].kind = lane[1].by
  BY <1>1 DEF LaneIsClaimed
<1>3. i = j
  BY <1>1, <1>2 DEF AtMostOne
<1> QED BY <1>1, <1>2, <1>3

(* Waits that are what they were, but for their answers.                    *)
Alike(waits, waits2) ==
  /\ DOMAIN waits2 = DOMAIN waits
  /\ \A i \in DOMAIN waits : /\ waits2[i].kind = waits[i].kind
                            /\ waits2[i].conn = waits[i].conn
                            /\ waits2[i].mine = waits[i].mine

LEMMA SameWaits ==
  ASSUME NEW waits, NEW waits2, Alike(waits, waits2)
  PROVE  /\ \A kind : AtMostOne(waits, kind) => AtMostOne(waits2, kind)
         /\ \A kind : Has(waits2, kind) <=> Has(waits, kind)
         /\ \A c : WaitsFor(waits2, c) <=> WaitsFor(waits, c)
         /\ \A j \in DOMAIN waits : \E k \in DOMAIN waits2 :
              waits2[k].mine = waits[j].mine /\ waits2[k].kind = waits[j].kind
<1>1. \A kind : AtMostOne(waits, kind) => AtMostOne(waits2, kind)
  BY DEF Alike, AtMostOne
<1>2. \A kind : Has(waits2, kind) <=> Has(waits, kind)
  BY DEF Alike, Has
<1>3. \A c : WaitsFor(waits2, c) <=> WaitsFor(waits, c)
  BY DEF Alike, WaitsFor
<1>4. \A j \in DOMAIN waits : \E k \in DOMAIN waits2 :
        waits2[k].mine = waits[j].mine /\ waits2[k].kind = waits[j].kind
  BY DEF Alike
<1> QED BY <1>1, <1>2, <1>3, <1>4

LEMMA SameAccounts ==
  ASSUME NEW waits, NEW waits2, Alike(waits, waits2),
         NEW busy, NEW connections, NEW h, VerbsAreAccounted(busy, connections, waits, FALSE, {}),
         ScriptIsAccounted(h, waits, FALSE)
  PROVE  /\ VerbsAreAccounted(busy, connections, waits2, FALSE, {})
         /\ ScriptIsAccounted(h, waits2, FALSE)
<1>1. /\ AtMostOne(waits, "remote") => AtMostOne(waits2, "remote")
      /\ AtMostOne(waits, "hook") => AtMostOne(waits2, "hook")
      /\ Has(waits2, "remote") <=> Has(waits, "remote")
      /\ Has(waits2, "hook") <=> Has(waits, "hook")
      /\ \A c : WaitsFor(waits2, c) <=> WaitsFor(waits, c)
  BY SameWaits
<1>2. VerbsAreAccounted(busy, connections, waits2, FALSE, {})
  BY <1>1 DEF VerbsAreAccounted
<1>3. ScriptIsAccounted(h, waits2, FALSE)
  BY <1>1 DEF ScriptIsAccounted
<1> QED BY <1>2, <1>3

(* The waits after an answer.                                               *)
LEMMA HeardByAll ==
  ASSUME NEW f, FrameOK(f, FALSE, {}, FALSE), f.dbg.lane # <<>>,
         NEW l, l = [k \in DOMAIN f.loops |-> Heard(f.loops[k], Head(f.dbg.lane), f)]
  PROVE  l \in Seq(Waits) /\ Alike(f.loops, l) /\ AnswersAreOwn(l)
<1> DEFINE e == Head(f.dbg.lane)
<1>1. /\ f \in FrameType /\ LaneIsClaimed(f.dbg.lane, f.loops, f.loose)
      /\ AnswersAreOwn(f.loops)
      /\ VerbsAreAccounted(f.ide.busy, f.conns, f.loops, FALSE, {})
      /\ ScriptIsAccounted(f.hook, f.loops, FALSE)
  BY DEF FrameOK
<1>2. f.dbg.lane \in Seq(Entries) /\ f.loops \in Seq(Waits)
  BY <1>1, FrameIs
<1>3. e \in Entries /\ 1 \in DOMAIN f.dbg.lane /\ e = f.dbg.lane[1]
  BY <1>2, TailIs
<1>4. e.tag = "state" => e.key \in {"state", "reg"}
  BY <1>1, <1>3 DEF LaneIsClaimed
<1>5. DOMAIN l = DOMAIN f.loops
  OBVIOUS
<1>6. ASSUME NEW k \in DOMAIN f.loops
      PROVE  /\ l[k] \in Waits /\ l[k].kind = f.loops[k].kind /\ l[k].conn = f.loops[k].conn
             /\ l[k].mine = f.loops[k].mine
             /\ l[k].got # NoAnswer => OwnOrRepeated(l[k])
  <2> DEFINE w == f.loops[k]
             v == l[k]
  <2>1. w \in Waits /\ w.kind \in {"user", "remote", "hook"}
    <3>1. w \in Waits
      BY <1>2
    <3> QED BY <3>1, WaitParts
  <2>2. v = Heard(w, e, f)
    OBVIOUS
  <2>3. w.got # NoAnswer => OwnOrRepeated(w)
    BY <1>1 DEF AnswersAreOwn
  <2>4. e.by = w.kind => w.kind = "user" \/ e.id \in f.loose \/ w.mine = e.id
    <3>1. w.kind = "user" \/ AtMostOne(f.loops, w.kind)
      BY <1>1, <2>1 DEF VerbsAreAccounted, ScriptIsAccounted
    <3> QED BY <1>1, <1>2, <2>1, <3>1, ClaimedHead
  <2> HIDE DEF v, w, e
  <2>5. /\ v \in Waits /\ v.kind = w.kind /\ v.conn = w.conn /\ v.key = w.key
        /\ v.mine = w.mine
        /\ \/ v.got = w.got
           \/ /\ Hears(w, e, f.ide.pending)
              /\ v.got.id = e.id /\ v.got.by = e.by /\ v.got.key = e.key
              /\ v.got.late <=> e.id \in f.loose
    BY <1>1, <1>3, <2>1, <2>2, HeardIs
  <2>6. v.got # NoAnswer => OwnOrRepeated(v)
    <3>1. CASE v.got = w.got
      BY <2>3, <2>5, <3>1 DEF OwnOrRepeated
    <3>2. CASE /\ Hears(w, e, f.ide.pending)
               /\ v.got.id = e.id /\ v.got.by = e.by /\ v.got.key = e.key
               /\ v.got.late <=> e.id \in f.loose
      BY <1>3, <1>4, <2>1, <2>4, <2>5, <3>2, HeardIsOwn
    <3> QED BY <2>5, <3>1, <3>2
  <2> QED BY <2>5, <2>6 DEF v, w
<1>7. l \in Seq(Waits)
  <2>1. /\ DOMAIN f.loops = 1 .. Len(f.loops) /\ Len(f.loops) \in Nat
    BY <1>2
  <2>2. l = [k \in 1 .. Len(f.loops) |-> l[k]]
    BY <2>1
  <2>3. l \in [1 .. Len(f.loops) -> Waits]
    BY <1>6, <2>1, <2>2
  <2> QED BY <2>1, <2>3
<1>8. AnswersAreOwn(l)
  BY <1>5, <1>6 DEF AnswersAreOwn
<1>9. Alike(f.loops, l)
  BY <1>5, <1>6 DEF Alike
<1> QED BY <1>7, <1>8, <1>9

LEMMA ServedOK ==
  ASSUME NEW f, FrameOK(f, FALSE, {}, FALSE), f.dbg.stopped, f.dbg.lane # <<>>,
         NEW i \in IdeType, i.busy = f.ide.busy, i.seen <= f.dbg.stop,
         NEW d \in DbgType, d.live = f.dbg.live, d.stop = f.dbg.stop,
         d.lane = Tail(f.dbg.lane), d.going => f.dbg.going /\ d.stopped /\ d.lane # <<>>,
         NEW l \in Seq(Waits), AnswersAreOwn(l), Alike(f.loops, l),
         NEW g, g = [conns |-> f.conns, ide |-> i, dbg |-> d, loops |-> l, hook |-> f.hook,
                     loose |-> f.loose \ {Head(f.dbg.lane).id}]
  PROVE  FrameOK(g, FALSE, {}, FALSE)
<1>1. /\ f \in FrameType /\ LaneIsClaimed(f.dbg.lane, f.loops, f.loose)
      /\ VerbsAreAccounted(f.ide.busy, f.conns, f.loops, FALSE, {})
      /\ ScriptIsAccounted(f.hook, f.loops, FALSE)
      /\ SessionIsWhole(f.ide, f.dbg)
  BY DEF FrameOK
<1>2. /\ f.dbg.lane \in Seq(Entries) /\ f.loops \in Seq(Waits) /\ f.loose \subseteq Nat
      /\ f.conns \in [Clients -> Connections] /\ f.hook \in HookType
  BY <1>1, FrameIs
<1>3. Head(f.dbg.lane) = f.dbg.lane[1]
  BY <1>2, TailIs
<1> DEFINE given == f.loose \ {f.dbg.lane[1].id}
<1>4. g.conns = f.conns /\ g.ide = i /\ g.dbg = d /\ g.loops = l /\ g.hook = f.hook
      /\ g.loose = given
  BY <1>3
<1>5. g \in FrameType
  <2>1. given \in SUBSET Nat
    BY <1>2
  <2> HIDE DEF given
  <2>2. g = [conns |-> f.conns, ide |-> i, dbg |-> d, loops |-> l, hook |-> f.hook,
             loose |-> given]
    BY <1>3 DEF given
  <2> QED BY <1>2, <2>1, <2>2 DEF FrameType
<1>6. LaneIsClaimed(Tail(f.dbg.lane), l, given)
  <2>1. \A j \in DOMAIN f.loops : \E k \in DOMAIN l :
          l[k].mine = f.loops[j].mine /\ l[k].kind = f.loops[j].kind
    BY SameWaits
  <2> QED BY <1>1, <1>2, <2>1, RestOfLane
<1>7. /\ VerbsAreAccounted(f.ide.busy, f.conns, l, FALSE, {})
      /\ ScriptIsAccounted(f.hook, l, FALSE)
  BY <1>1, SameAccounts
<1>8. SessionIsWhole(i, d)
  <2>1. f.dbg.live
    BY <1>1 DEF SessionIsWhole
  <2> QED BY <2>1 DEF SessionIsWhole
<1> HIDE DEF given
<1> QED BY <1>4, <1>5, <1>6, <1>7, <1>8 DEF FrameOK

(* A handler's frame is the next state.                                     *)
LEMMA CommittedIs ==
  ASSUME NEW g, Commit(g), FrameOK(g, FALSE, {}, FALSE),
         used' \in [lines : 0 .. MaxLines, events : 0 .. MaxEvents, timeouts : 0 .. MaxTimeouts]
  PROVE  IInv'
<1>1. g \in FrameType
  BY DEF FrameOK
<1>2. Frame' = g
  BY <1>1, FrameIs DEF Commit, Frame
<1>3. FrameOK(Frame, FALSE, {}, FALSE)'
  BY <1>2
<1>4. TypeOK'
  BY <1>1, FrameIs DEF Commit, TypeOK
<1> QED BY <1>3, <1>4 DEF IInv

LEMMA UsedIs ==
  ASSUME TypeOK,
         \/ Use("lines", MaxLines) \/ Use("events", MaxEvents) \/ Use("timeouts", MaxTimeouts)
         \/ UNCHANGED used
  PROVE  used' \in [lines : 0 .. MaxLines, events : 0 .. MaxEvents, timeouts : 0 .. MaxTimeouts]
<1>1. MaxLines \in Nat /\ MaxEvents \in Nat /\ MaxTimeouts \in Nat
  BY RequestsAssumption
<1>2. used \in [lines : 0 .. MaxLines, events : 0 .. MaxEvents, timeouts : 0 .. MaxTimeouts]
  BY DEF TypeOK
<1>3. CASE Use("lines", MaxLines)
  BY <1>1, <1>2, <1>3 DEF Use
<1>4. CASE Use("events", MaxEvents)
  BY <1>1, <1>2, <1>4 DEF Use
<1>5. CASE Use("timeouts", MaxTimeouts)
  BY <1>1, <1>2, <1>5 DEF Use
<1> QED BY <1>2, <1>3, <1>4, <1>5

LEMMA ConnectionOK ==
  ASSUME NEW f, FrameOK(f, FALSE, {}, FALSE), NEW c \in Clients, NEW k \in Connections,
         NEW owing, owing = {} \/ owing = {c},
         k.owed = f.conns[c].owed + Len(k.posted) - Len(f.conns[c].posted)
                    + (IF owing = {} THEN 0 ELSE 1),
         NEW g, g = [f EXCEPT !.conns = [f.conns EXCEPT ![c] = k]]
  PROVE  FrameOK(g, FALSE, owing, FALSE)
<1> DEFINE n == [f.conns EXCEPT ![c] = k]
<1>1. /\ f \in FrameType /\ f.conns \in [Clients -> Connections]
      /\ VerbsAreAccounted(f.ide.busy, f.conns, f.loops, FALSE, {})
  BY FrameIs DEF FrameOK
<1>2. /\ n \in [Clients -> Connections] /\ n[c] = k
      /\ \A b \in Clients : b # c => n[b] = f.conns[b]
  BY <1>1
<1>3. g = [conns |-> n, ide |-> f.ide, dbg |-> f.dbg, loops |-> f.loops, hook |-> f.hook,
           loose |-> f.loose]
  BY <1>1, FrameIs
<1> HIDE DEF n
<1>4. g \in FrameType
  BY <1>1, <1>2, <1>3, FrameIs DEF FrameType
<1>5. ASSUME NEW b \in Clients
      PROVE  n[b].owed = Len(n[b].posted) + (IF WaitsFor(f.loops, b) THEN 1 ELSE 0)
                           + (IF b \in owing THEN 1 ELSE 0)
  <2>1. f.conns[b].owed = Len(f.conns[b].posted) + (IF WaitsFor(f.loops, b) THEN 1 ELSE 0)
                            + (IF b \in {} THEN 1 ELSE 0)
    BY <1>1 DEF VerbsAreAccounted
  <2>2. /\ Len(f.conns[b].posted) \in Nat /\ f.conns[b].owed \in Nat
        /\ Len(n[b].posted) \in Nat /\ n[b].owed \in Nat
    <3>1. f.conns[b] \in Connections /\ n[b] \in Connections
      BY <1>1, <1>2
    <3>2. /\ f.conns[b].posted \in Seq(Requests) /\ f.conns[b].owed \in Nat
          /\ n[b].posted \in Seq(Requests) /\ n[b].owed \in Nat
      BY <3>1 DEF Connections
    <3> QED BY <3>2
  <2>3. PICK m \in Nat : m = IF WaitsFor(f.loops, b) THEN 1 ELSE 0
    OBVIOUS
  <2>4. f.conns[b].owed = Len(f.conns[b].posted) + m
    BY <2>1, <2>2, <2>3
  <2>5. PICK q \in Nat : q = IF b \in owing THEN 1 ELSE 0
    OBVIOUS
  <2>6. n[b].owed = Len(n[b].posted) + m + q
    <3>1. CASE b # c
      <4>1. q = 0 /\ n[b] = f.conns[b]
        BY <1>2, <2>5, <3>1
      <4> QED BY <2>2, <2>4, <4>1
    <3>2. CASE b = c
      <4>1. q = IF owing = {} THEN 0 ELSE 1
        BY <2>5, <3>2
      <4>2. k.owed = f.conns[b].owed + Len(k.posted) - Len(f.conns[b].posted) + q
        BY <3>2, <4>1
      <4>3. n[b] = k
        BY <1>2, <3>2
      <4>4. n[b].owed = f.conns[b].owed + Len(n[b].posted) - Len(f.conns[b].posted) + q
        BY <4>2, <4>3
      <4> DEFINE was == Len(f.conns[b].posted)
                 now == Len(n[b].posted)
                 owed == f.conns[b].owed
                 owes == n[b].owed
      <4>5. was \in Nat /\ now \in Nat /\ owed \in Nat /\ owes \in Nat
        BY <2>2
      <4>6. owed = was + m /\ owes = owed + now - was + q
        BY <2>4, <4>4
      <4> HIDE DEF was, now, owed, owes
      <4>7. owes = now + m + q
        BY <4>5, <4>6
      <4> QED BY <4>7 DEF now, owes
    <3> QED BY <3>1, <3>2
  <2> QED BY <2>3, <2>5, <2>6
<1>6. VerbsAreAccounted(f.ide.busy, n, f.loops, FALSE, owing)
  BY <1>1, <1>5 DEF VerbsAreAccounted
<1>7. /\ g.conns = n /\ g.ide = f.ide /\ g.dbg = f.dbg /\ g.loops = f.loops
      /\ g.hook = f.hook /\ g.loose = f.loose
  BY <1>3
<1> QED BY <1>4, <1>6, <1>7 DEF FrameOK

(* A time-out: a wait is done without an answer of its own.                 *)
LEMMA TimedOutIs ==
  ASSUME NEW waits \in Seq(Waits), NEW i \in DOMAIN waits, AnswersAreOwn(waits),
         NEW l, l = [waits EXCEPT ![i].done = TRUE]
  PROVE  l \in Seq(Waits) /\ AnswersAreOwn(l) /\ Alike(waits, l)
<1> DEFINE v == [waits[i] EXCEPT !.done = TRUE]
<1>1. v \in Waits
  <2>1. waits[i] \in Waits
    OBVIOUS
  <2> QED BY <2>1 DEF Waits
<1>2. /\ v.kind = waits[i].kind /\ v.conn = waits[i].conn
      /\ v.mine = waits[i].mine /\ v.got = waits[i].got /\ v.key = waits[i].key
  <2>1. waits[i] \in Waits
    OBVIOUS
  <2> QED BY <2>1 DEF Waits
<1>3. l = [waits EXCEPT ![i] = v]
  OBVIOUS
<1> HIDE DEF v
<1>4. /\ DOMAIN l = DOMAIN waits /\ l[i] = v
      /\ \A k \in DOMAIN waits : k # i => l[k] = waits[k]
  BY <1>3
<1>5. l \in Seq(Waits)
  <2>1. i \in 1 .. Len(waits)
    OBVIOUS
  <2>2. [waits EXCEPT ![i] = v] \in Seq(Waits)
    BY <1>1, <2>1, ExceptSeq
  <2> QED BY <1>3, <2>2
<1>6. \A k \in DOMAIN waits : /\ l[k].kind = waits[k].kind /\ l[k].conn = waits[k].conn
                              /\ l[k].mine = waits[k].mine
                              /\ l[k].got = waits[k].got /\ l[k].key = waits[k].key
  BY <1>2, <1>4
<1>7. AnswersAreOwn(l)
  BY <1>4, <1>6 DEF AnswersAreOwn, OwnOrRepeated
<1>8. Alike(waits, l)
  BY <1>4, <1>6 DEF Alike
<1> QED BY <1>5, <1>7, <1>8

LEMMA TimedOutOK ==
  ASSUME NEW f, FrameOK(f, FALSE, {}, FALSE),
         NEW l \in Seq(Waits), AnswersAreOwn(l), Alike(f.loops, l),
         NEW given, f.loose \subseteq given, given \subseteq f.loose \union InLane(f),
         NEW g, g = [conns |-> f.conns, ide |-> f.ide, dbg |-> f.dbg, loops |-> l,
                     hook |-> f.hook, loose |-> given]
  PROVE  FrameOK(g, FALSE, {}, FALSE)
<1>1. /\ f \in FrameType /\ LaneIsClaimed(f.dbg.lane, f.loops, f.loose)
      /\ VerbsAreAccounted(f.ide.busy, f.conns, f.loops, FALSE, {})
      /\ ScriptIsAccounted(f.hook, f.loops, FALSE)
      /\ SessionIsWhole(f.ide, f.dbg)
  BY DEF FrameOK
<1>2. given \in SUBSET Nat
  <2>1. f.dbg.lane \in Seq(Entries) /\ f.loose \subseteq Nat
    BY <1>1, FrameIs
  <2>2. \A n \in DOMAIN f.dbg.lane : f.dbg.lane[n].id \in Nat
    <3>1. \A n \in DOMAIN f.dbg.lane : f.dbg.lane[n] \in Entries
      BY <2>1
    <3> QED BY <3>1 DEF Entries
  <2> QED BY <2>1, <2>2 DEF InLane
<1>3. LaneIsClaimed(f.dbg.lane, l, given)
  <2>1. \A x \in given : x \in f.loose \/ \E n \in DOMAIN f.dbg.lane : f.dbg.lane[n].id = x
    BY DEF InLane
  <2>2. \A j \in DOMAIN f.loops :
          \/ \E k \in DOMAIN l : l[k].mine = f.loops[j].mine /\ l[k].kind = f.loops[j].kind
          \/ \A n \in DOMAIN f.dbg.lane : f.dbg.lane[n].id = f.loops[j].mine
                                            => f.dbg.lane[n].id \in given
    BY SameWaits
  <2> QED BY <1>1, <2>1, <2>2, GivenUpInLane
<1>4. /\ VerbsAreAccounted(f.ide.busy, f.conns, l, FALSE, {})
      /\ ScriptIsAccounted(f.hook, l, FALSE)
  BY <1>1, SameAccounts
<1>5. g \in FrameType
  BY <1>1, <1>2, FrameIs DEF FrameType
<1>6. /\ g.conns = f.conns /\ g.ide = f.ide /\ g.dbg = f.dbg /\ g.loops = l
      /\ g.hook = f.hook /\ g.loose = given
  OBVIOUS
<1> QED BY <1>1, <1>3, <1>4, <1>5, <1>6 DEF FrameOK

(* The innermost wait is taken off the stack.                               *)
LEMMA FewerWaits ==
  ASSUME NEW waits \in Seq(Waits), waits # <<>>, NEW rest, rest = Front(waits), NEW w, w = Last(waits)
  PROVE  /\ rest \in Seq(Waits) /\ w \in Waits
         /\ Len(waits) \in DOMAIN waits /\ waits[Len(waits)] = w
         /\ \A i \in DOMAIN rest : i \in DOMAIN waits /\ rest[i] = waits[i] /\ i # Len(waits)
         /\ \A i \in DOMAIN waits : i \in DOMAIN rest \/ i = Len(waits)
<1>1. /\ Front(waits) \in Seq(Waits) /\ Len(Front(waits)) = Len(waits) - 1
      /\ \A i \in 1..Len(waits) - 1 : Front(waits)[i] = waits[i]
      /\ Last(waits) = waits[Len(waits)] /\ Last(waits) \in Waits
      /\ Len(waits) \in Nat \ {0} /\ DOMAIN waits = 1 .. Len(waits)
      /\ DOMAIN Front(waits) = 1 .. Len(waits) - 1
  BY FrontIs
<1> QED BY <1>1

LEMMA FewerIs ==
  ASSUME NEW waits \in Seq(Waits), waits # <<>>, NEW rest, rest = Front(waits), NEW w, w = Last(waits)
  PROVE  /\ AnswersAreOwn(waits) => AnswersAreOwn(rest)
         /\ \A kind : AtMostOne(waits, kind) => AtMostOne(rest, kind)
         /\ \A kind : AtMostOne(waits, kind) =>
              (Has(waits, kind) <=> (Has(rest, kind) \/ w.kind = kind))
         /\ \A kind : AtMostOne(waits, kind) => (w.kind = kind => ~Has(rest, kind))
         /\ \A c : WaitsFor(waits, c) <=> (WaitsFor(rest, c) \/ (w.kind = "remote" /\ w.conn = c))
<1>1. /\ rest \in Seq(Waits) /\ w \in Waits
      /\ Len(waits) \in DOMAIN waits /\ waits[Len(waits)] = w
      /\ \A i \in DOMAIN rest : i \in DOMAIN waits /\ rest[i] = waits[i] /\ i # Len(waits)
      /\ \A i \in DOMAIN waits : i \in DOMAIN rest \/ i = Len(waits)
  BY FewerWaits
<1>2. AnswersAreOwn(waits) => AnswersAreOwn(rest)
  BY <1>1 DEF AnswersAreOwn
<1>3. \A kind : AtMostOne(waits, kind) => AtMostOne(rest, kind)
  BY <1>1 DEF AtMostOne
<1>4. \A kind : Has(waits, kind) <=> (Has(rest, kind) \/ w.kind = kind)
  BY <1>1 DEF Has
<1>5. \A kind : AtMostOne(waits, kind) => (w.kind = kind => ~Has(rest, kind))
  BY <1>1 DEF Has, AtMostOne
<1>6. \A c : WaitsFor(waits, c) <=> (WaitsFor(rest, c) \/ (w.kind = "remote" /\ w.conn = c))
  BY <1>1 DEF WaitsFor
<1> QED BY <1>2, <1>3, <1>4, <1>5, <1>6

(* What is left when the innermost wait returns is in its caller's hand.    *)
LEMMA ReturnedOK ==
  ASSUME NEW f, FrameOK(f, FALSE, {}, FALSE), f.loops # <<>>, NEW w, w = Last(f.loops),
         NEW given, given = f.loose \union ({w.mine} \intersect InLane(f)),
         NEW g, g = [conns |-> f.conns, ide |-> f.ide, dbg |-> f.dbg, loops |-> Front(f.loops),
                     hook |-> f.hook, loose |-> given]
  PROVE  /\ w \in Waits
         /\ w.kind = "user" => FrameOK(g, FALSE, {}, FALSE)
         /\ w.kind = "remote" => w.conn \in Clients /\ FrameOK(g, TRUE, {w.conn}, FALSE)
         /\ w.kind = "hook" => FrameOK(g, FALSE, {}, TRUE)
<1> DEFINE rest == Front(f.loops)
<1>1. /\ f \in FrameType /\ LaneIsClaimed(f.dbg.lane, f.loops, f.loose)
      /\ AnswersAreOwn(f.loops)
      /\ VerbsAreAccounted(f.ide.busy, f.conns, f.loops, FALSE, {})
      /\ ScriptIsAccounted(f.hook, f.loops, FALSE)
      /\ SessionIsWhole(f.ide, f.dbg)
  BY DEF FrameOK
<1>2. f.loops \in Seq(Waits) /\ f.loose \subseteq Nat
  BY <1>1, FrameIs
<1>3. /\ rest \in Seq(Waits) /\ w \in Waits
      /\ Len(f.loops) \in DOMAIN f.loops /\ f.loops[Len(f.loops)] = w
      /\ \A i \in DOMAIN rest : i \in DOMAIN f.loops /\ rest[i] = f.loops[i]
                                 /\ i # Len(f.loops)
      /\ \A i \in DOMAIN f.loops : i \in DOMAIN rest \/ i = Len(f.loops)
  BY <1>2, FewerWaits
<1>4. w.mine \in Nat /\ (w.kind = "remote" => w.conn \in Clients)
  BY <1>3 DEF Waits
<1>5. given \in SUBSET Nat
  BY <1>2, <1>4
<1>6. LaneIsClaimed(f.dbg.lane, rest, given)
  <2>1. \A x \in given : x \in f.loose \/ \E n \in DOMAIN f.dbg.lane : f.dbg.lane[n].id = x
    BY DEF InLane
  <2>2. f.loose \subseteq given
    OBVIOUS
  <2>3. \A j \in DOMAIN f.loops :
          \/ \E k \in DOMAIN rest : rest[k].mine = f.loops[j].mine
                                     /\ rest[k].kind = f.loops[j].kind
          \/ \A n \in DOMAIN f.dbg.lane : f.dbg.lane[n].id = f.loops[j].mine
                                            => f.dbg.lane[n].id \in given
    <3>1. ASSUME NEW j \in DOMAIN f.loops, j \in DOMAIN rest
          PROVE  \E k \in DOMAIN rest : rest[k].mine = f.loops[j].mine
                                         /\ rest[k].kind = f.loops[j].kind
      BY <1>3, <3>1
    <3>2. \A n \in DOMAIN f.dbg.lane : f.dbg.lane[n].id = w.mine => f.dbg.lane[n].id \in given
      BY DEF InLane
    <3> HIDE DEF rest
    <3> QED BY <1>3, <3>1, <3>2
  <2> HIDE DEF rest
  <2> QED BY <1>1, <2>1, <2>2, <2>3, GivenUpInLane
<1>7. /\ AnswersAreOwn(rest)
      /\ AtMostOne(f.loops, "remote") => AtMostOne(rest, "remote")
      /\ AtMostOne(f.loops, "hook") => AtMostOne(rest, "hook")
      /\ AtMostOne(f.loops, "remote") =>
           /\ Has(f.loops, "remote") <=> (Has(rest, "remote") \/ w.kind = "remote")
           /\ w.kind = "remote" => ~Has(rest, "remote")
      /\ AtMostOne(f.loops, "hook") =>
           /\ Has(f.loops, "hook") <=> (Has(rest, "hook") \/ w.kind = "hook")
           /\ w.kind = "hook" => ~Has(rest, "hook")
      /\ \A c : WaitsFor(f.loops, c) <=> (WaitsFor(rest, c) \/ (w.kind = "remote" /\ w.conn = c))
  BY <1>1, <1>2, FewerIs
<1>8. AtMostOne(f.loops, "remote") /\ AtMostOne(f.loops, "hook")
  BY <1>1 DEF VerbsAreAccounted, ScriptIsAccounted
<1> HIDE DEF rest
<1>9. \A c : ~Has(rest, "remote") => ~WaitsFor(rest, c)
  BY DEF Has, WaitsFor
<1>10. w.kind = "remote" => VerbsAreAccounted(f.ide.busy, f.conns, rest, TRUE, {w.conn})
  <2> SUFFICES ASSUME w.kind = "remote"
               PROVE  VerbsAreAccounted(f.ide.busy, f.conns, rest, TRUE, {w.conn})
    OBVIOUS
  <2>1. ASSUME NEW c \in Clients
        PROVE  f.conns[c].owed = Len(f.conns[c].posted) + (IF WaitsFor(rest, c) THEN 1 ELSE 0)
                                   + (IF c \in {w.conn} THEN 1 ELSE 0)
    <3>1. f.conns[c].owed = Len(f.conns[c].posted)
                              + (IF WaitsFor(f.loops, c) THEN 1 ELSE 0) + 0
      BY <1>1 DEF VerbsAreAccounted
    <3>2. ~WaitsFor(rest, c)
      BY <1>7, <1>8, <1>9
    <3>3. Len(f.conns[c].posted) \in Nat
      <4>1. f.conns[c] \in Connections
        BY <1>1, FrameIs
      <4>2. f.conns[c].posted \in Seq(Requests)
        BY <4>1 DEF Connections
      <4> QED BY <4>2
    <3>4. CASE c = w.conn
      <4>1. WaitsFor(f.loops, c)
        BY <1>7, <3>4
      <4> QED BY <3>1, <3>2, <3>3, <3>4, <4>1
    <3>5. CASE c # w.conn
      <4>1. ~WaitsFor(f.loops, c)
        BY <1>7, <3>2, <3>5
      <4> QED BY <3>1, <3>2, <3>3, <3>5, <4>1
    <3> QED BY <3>4, <3>5
  <2>2. AtMostOne(rest, "remote") /\ ~Has(rest, "remote") /\ f.ide.busy
    BY <1>1, <1>7, <1>8 DEF VerbsAreAccounted
  <2> QED BY <2>1, <2>2 DEF VerbsAreAccounted
<1>11. w.kind # "remote" => VerbsAreAccounted(f.ide.busy, f.conns, rest, FALSE, {})
  <2>1. w.kind # "remote" => /\ AtMostOne(rest, "remote")
                             /\ Has(f.loops, "remote") <=> Has(rest, "remote")
                             /\ \A c : WaitsFor(f.loops, c) <=> WaitsFor(rest, c)
    BY <1>7, <1>8
  <2> QED BY <1>1, <2>1 DEF VerbsAreAccounted
<1>12. ScriptIsAccounted(f.hook, rest, w.kind = "hook")
  BY <1>1, <1>7, <1>8 DEF ScriptIsAccounted
<1>13. g = [conns |-> f.conns, ide |-> f.ide, dbg |-> f.dbg, loops |-> rest,
            hook |-> f.hook, loose |-> given]
  BY DEF rest
<1>14. g \in FrameType
  BY <1>1, <1>3, <1>5, <1>13, FrameIs DEF FrameType
<1>15. /\ g.conns = f.conns /\ g.ide = f.ide /\ g.dbg = f.dbg /\ g.loops = rest
       /\ g.hook = f.hook /\ g.loose = given
  BY <1>13
<1>16. CASE w.kind = "user"
  <2>1. ScriptIsAccounted(f.hook, rest, FALSE)
    BY <1>12, <1>16
  <2>2. FrameOK(g, FALSE, {}, FALSE)
    BY <1>1, <1>6, <1>7, <1>11, <1>14, <1>15, <1>16, <2>1 DEF FrameOK
  <2> QED BY <1>3, <1>16, <2>2
<1>17. CASE w.kind = "remote"
  <2>1. ScriptIsAccounted(f.hook, rest, FALSE)
    BY <1>12, <1>17
  <2>2. FrameOK(g, TRUE, {w.conn}, FALSE)
    BY <1>1, <1>6, <1>7, <1>10, <1>14, <1>15, <1>17, <2>1 DEF FrameOK
  <2> QED BY <1>3, <1>4, <1>17, <2>2
<1>18. CASE w.kind = "hook"
  <2>1. ScriptIsAccounted(f.hook, rest, TRUE)
    BY <1>12, <1>18
  <2>2. FrameOK(g, FALSE, {}, TRUE)
    BY <1>1, <1>6, <1>7, <1>11, <1>14, <1>15, <1>18, <2>1 DEF FrameOK
  <2> QED BY <1>3, <1>18, <2>2
<1> QED BY <1>3, <1>16, <1>17, <1>18, WaitParts

-----------------------------------------------------------------------------
(* The steps.                                                               *)
LEMMA HereIs ==
  ASSUME TypeOK
  PROVE  /\ Frame \in FrameType /\ Frame.conns = conns /\ Frame.ide = ide /\ Frame.dbg = dbg
         /\ Frame.loops = loops /\ Frame.hook = hook /\ Frame.loose = loose
<1>1. /\ conns \in [Clients -> Connections] /\ ide \in IdeType /\ dbg \in DbgType
      /\ loops \in Seq(Waits) /\ hook \in HookType /\ loose \in SUBSET Nat
  BY DEF TypeOK
<1> QED BY <1>1 DEF Frame, FrameType

LEMMA SendOK ==
  ASSUME IInv, NEW c \in Clients, Send(c)
  PROVE  IInv'
<1>1. TypeOK /\ FrameOK(Frame, FALSE, {}, FALSE)
  BY DEF IInv
<1>2. PICK r \in Requests :
        conns' = [conns EXCEPT ![c].posted = Append(@, r), ![c].owed = @ + 1]
  BY DEF Send
<1> DEFINE k == [conns[c] EXCEPT !.posted = Append(@, r), !.owed = @ + 1]
<1>3. conns[c] \in Connections /\ conns \in [Clients -> Connections]
  BY <1>1 DEF TypeOK
<1>4. conns[c].posted \in Seq(Requests) /\ conns[c].owed \in Nat
  BY <1>3 DEF Connections
<1>5. Append(conns[c].posted, r) \in Seq(Requests)
      /\ Len(Append(conns[c].posted, r)) = Len(conns[c].posted) + 1
      /\ Len(conns[c].posted) \in Nat
  BY <1>4, AppendIs
<1>6. k \in Connections /\ k.owed = conns[c].owed + 1 /\ k.posted = Append(conns[c].posted, r)
  <2> DEFINE p == Append(conns[c].posted, r)
             o == conns[c].owed + 1
  <2>1. p \in Seq(Requests) /\ o \in Nat
    BY <1>4, <1>5
  <2>2. k = [conns[c] EXCEPT !.posted = p, !.owed = o]
    BY <1>3 DEF Connections
  <2> HIDE DEF p, o
  <2>3. k \in Connections /\ k.owed = o /\ k.posted = p
    BY <1>3, <2>1, <2>2 DEF Connections
  <2> QED BY <2>3 DEF p, o
<1>7. conns' = [conns EXCEPT ![c] = k]
  BY <1>2, <1>3
<1> HIDE DEF k
<1> DEFINE n == [conns EXCEPT ![c] = k]
           g == [Frame EXCEPT !.conns = n]
<1>8. FrameOK(g, FALSE, {}, FALSE)
  <2>1. Frame.conns = conns
    BY <1>1, HereIs
  <2>2. k.owed = Frame.conns[c].owed + Len(k.posted) - Len(Frame.conns[c].posted)
                   + (IF {} = {} THEN 0 ELSE 1)
    BY <1>4, <1>5, <1>6, <2>1
  <2>3. g = [Frame EXCEPT !.conns = [Frame.conns EXCEPT ![c] = k]]
    BY <2>1
  <2> HIDE DEF g
  <2> QED BY <1>1, <1>6, <2>2, <2>3, ConnectionOK
<1>9. Commit(g)
  <2>1. /\ g.conns = n /\ g.ide = ide /\ g.dbg = dbg /\ g.loops = loops
        /\ g.hook = hook /\ g.loose = loose
    BY DEF Frame
  <2> QED BY <1>7, <2>1 DEF Send, Commit
<1>10. used' \in [lines : 0 .. MaxLines, events : 0 .. MaxEvents, timeouts : 0 .. MaxTimeouts]
  BY <1>1, UsedIs DEF Send
<1> HIDE DEF g
<1> QED BY <1>8, <1>9, <1>10, CommittedIs

LEMMA HangupOK ==
  ASSUME IInv, NEW c \in Clients, Hangup(c)
  PROVE  IInv'
<1>1. TypeOK /\ FrameOK(Frame, FALSE, {}, FALSE)
  BY DEF IInv
<1> DEFINE k == [conns[c] EXCEPT !.up = FALSE]
           n == [conns EXCEPT ![c] = k]
           g == [Frame EXCEPT !.conns = n]
<1>2. conns[c] \in Connections /\ conns \in [Clients -> Connections]
  BY <1>1 DEF TypeOK
<1>3. /\ conns[c].posted \in Seq(Requests) /\ conns[c].owed \in Nat
      /\ Len(conns[c].posted) \in Nat
  BY <1>2 DEF Connections
<1>4. k \in Connections /\ k.owed = conns[c].owed /\ k.posted = conns[c].posted
  BY <1>2 DEF Connections
<1>5. conns' = n
  BY <1>2 DEF Hangup
<1> HIDE DEF k
<1>6. FrameOK(g, FALSE, {}, FALSE)
  <2>1. Frame.conns = conns
    BY <1>1, HereIs
  <2>2. k.owed = Frame.conns[c].owed + Len(k.posted) - Len(Frame.conns[c].posted)
                   + (IF {} = {} THEN 0 ELSE 1)
    BY <1>3, <1>4, <2>1
  <2>3. g = [Frame EXCEPT !.conns = [Frame.conns EXCEPT ![c] = k]]
    BY <2>1
  <2> HIDE DEF g
  <2> QED BY <1>1, <1>4, <2>2, <2>3, ConnectionOK
<1>7. Commit(g)
  <2>1. /\ g.conns = n /\ g.ide = ide /\ g.dbg = dbg /\ g.loops = loops
        /\ g.hook = hook /\ g.loose = loose
    BY DEF Frame
  <2> HIDE DEF g, n
  <2> QED BY <1>5, <2>1 DEF Hangup, Commit
<1>8. used' \in [lines : 0 .. MaxLines, events : 0 .. MaxEvents, timeouts : 0 .. MaxTimeouts]
  BY <1>1, UsedIs DEF Hangup
<1> HIDE DEF g
<1> QED BY <1>6, <1>7, <1>8, CommittedIs

(* A line is taken, and its reply is in hand.                               *)
LEMMA ExecuteNextOK ==
  ASSUME IInv, NEW c \in Clients, ExecuteNext(c)
  PROVE  IInv'
<1>1. TypeOK /\ FrameOK(Frame, FALSE, {}, FALSE)
  BY DEF IInv
<1> DEFINE k == [conns[c] EXCEPT !.posted = Tail(@)]
           f == [Frame EXCEPT !.conns = [Frame.conns EXCEPT ![c] = k]]
           r == Head(conns[c].posted)
           g == IF conns[c].up THEN Execute(f, c, r) ELSE Reply(f, c)
<1>2. conns[c] \in Connections /\ conns \in [Clients -> Connections]
  BY <1>1 DEF TypeOK
<1>3. /\ conns[c].posted \in Seq(Requests) /\ conns[c].owed \in Nat
      /\ conns[c].posted # <<>>
  BY <1>2 DEF Connections, ExecuteNext
<1>4. /\ Tail(conns[c].posted) \in Seq(Requests) /\ r \in Requests
      /\ Len(Tail(conns[c].posted)) = Len(conns[c].posted) - 1
      /\ Len(conns[c].posted) \in Nat
  BY <1>3, TailIs
<1>5. k \in Connections /\ k.owed = conns[c].owed /\ k.posted = Tail(conns[c].posted)
  BY <1>2, <1>4 DEF Connections
<1>6. Frame.conns = conns
  BY <1>1, HereIs
<1>7. Commit(g)
  <2>1. f = [Frame EXCEPT !.conns[c].posted = Tail(@)]
    BY <1>2, <1>6, HereIs, <1>1, FrameIs
  <2> HIDE DEF f
  <2> QED BY <2>1 DEF ExecuteNext
<1> HIDE DEF k, r
<1>8. FrameOK(f, FALSE, {c}, FALSE)
  <2>1. k.owed = Frame.conns[c].owed + Len(k.posted) - Len(Frame.conns[c].posted)
                   + (IF {c} = {} THEN 0 ELSE 1)
    BY <1>3, <1>4, <1>5, <1>6
  <2> HIDE DEF f
  <2> QED BY <1>1, <1>5, <2>1, ConnectionOK DEF f
<1> HIDE DEF f
<1>9. FrameOK(g, FALSE, {}, FALSE)
  <2>1. CASE conns[c].up
    BY <1>4, <1>8, <2>1, ExecuteOK
  <2>2. CASE ~conns[c].up
    BY <1>8, <2>2, ReplyOK
  <2> QED BY <2>1, <2>2
<1>10. used' \in [lines : 0 .. MaxLines, events : 0 .. MaxEvents, timeouts : 0 .. MaxTimeouts]
  BY <1>1, UsedIs DEF ExecuteNext
<1> HIDE DEF g
<1> QED BY <1>7, <1>9, <1>10, CommittedIs

LEMMA UserCapturesOK ==
  ASSUME IInv, UserCaptures
  PROVE  IInv'
<1>1. TypeOK /\ FrameOK(Frame, FALSE, {}, FALSE)
  BY DEF IInv
<1>2. PICK r \in Requests :
        r.verb = "capture" /\ Commit(Wait(Frame, NewWait("user", "none", r)))
  BY DEF UserCaptures
<1> DEFINE w == NewWait("user", "none", r)
           g == Wait(Frame, w)
<1>3. w \in Waits /\ w.kind = "user"
  BY <1>2, NewWaitIs
<1>4. Commit(g)
  BY <1>2
<1> HIDE DEF w
<1>5. FrameOK(g, FALSE, {}, FALSE)
  BY <1>1, <1>3, WaitUserOK
<1>6. used' \in [lines : 0 .. MaxLines, events : 0 .. MaxEvents, timeouts : 0 .. MaxTimeouts]
  BY <1>1, UsedIs DEF UserCaptures
<1> HIDE DEF g
<1> QED BY <1>4, <1>5, <1>6, CommittedIs

LEMMA UserTypesOK ==
  ASSUME IInv, UserTypes
  PROVE  IInv'
<1>1. TypeOK /\ FrameOK(Frame, FALSE, {}, FALSE)
  BY DEF IInv
<1>2. PICK text \in Texts : Commit(Enqueue(Frame, text, "cmd", "console"))
  BY DEF UserTypes
<1> DEFINE g == Enqueue(Frame, text, "cmd", "console")
<1>3. FrameOK(g, FALSE, {}, FALSE)
  BY <1>1, EnqueueOK DEF Texts, Keys, Tags
<1>4. used' \in [lines : 0 .. MaxLines, events : 0 .. MaxEvents, timeouts : 0 .. MaxTimeouts]
  BY <1>1, UsedIs DEF UserTypes
<1> HIDE DEF g
<1> QED BY <1>2, <1>3, <1>4, CommittedIs DEF g

LEMMA UserContinuesOK ==
  ASSUME IInv, UserContinues
  PROVE  IInv'
<1>1. TypeOK /\ FrameOK(Frame, FALSE, {}, FALSE)
  BY DEF IInv
<1> DEFINE g == Resume(Frame)
<1>2. Commit(g)
  BY DEF UserContinues
<1>3. FrameOK(g, FALSE, {}, FALSE)
  BY <1>1, ResumeOK
<1>4. used' \in [lines : 0 .. MaxLines, events : 0 .. MaxEvents, timeouts : 0 .. MaxTimeouts]
  BY <1>1, UsedIs DEF UserContinues
<1> HIDE DEF g
<1> QED BY <1>2, <1>3, <1>4, CommittedIs

LEMMA HookRunsOK ==
  ASSUME IInv, HookRuns
  PROVE  IInv'
<1>1. TypeOK /\ FrameOK(Frame, FALSE, {}, FALSE)
  BY DEF IInv
<1>2. PICK continues \in BOOLEAN : Commit(RunQueued(Frame, continues))
  BY DEF HookRuns
<1> DEFINE g == RunQueued(Frame, continues)
<1>3. FrameOK(g, FALSE, {}, FALSE)
  BY <1>1, RunQueuedOK
<1>4. used' \in [lines : 0 .. MaxLines, events : 0 .. MaxEvents, timeouts : 0 .. MaxTimeouts]
  BY <1>1, UsedIs DEF HookRuns
<1>5. Commit(g)
  BY <1>2
<1> HIDE DEF g
<1> QED BY <1>3, <1>4, <1>5, CommittedIs

LEMMA SettingChangesOK ==
  ASSUME IInv, SettingChanges
  PROVE  IInv'
<1>1. TypeOK /\ FrameOK(Frame, FALSE, {}, FALSE)
  BY DEF IInv
<1> DEFINE h == [hook EXCEPT !.set = ~@]
           g == [Frame EXCEPT !.hook = h]
<1>2. hook \in HookType
  BY <1>1 DEF TypeOK
<1>3. h \in HookType /\ h.running = hook.running /\ h.lost = hook.lost
  BY <1>2, HookParts DEF HookType
<1>4. hook' = h
  BY DEF SettingChanges
<1> HIDE DEF h
<1>5. FrameOK(g, FALSE, {}, FALSE)
  <2>1. Frame.hook = hook
    BY <1>1, HereIs
  <2> HIDE DEF g
  <2> QED BY <1>1, <1>3, <2>1, HookOK DEF g
<1>6. Commit(g)
  <2>1. /\ g.conns = conns /\ g.ide = ide /\ g.dbg = dbg /\ g.loops = loops
        /\ g.hook = h /\ g.loose = loose
    BY DEF Frame
  <2> HIDE DEF g
  <2> QED BY <1>4, <2>1 DEF SettingChanges, Commit
<1>7. used' \in [lines : 0 .. MaxLines, events : 0 .. MaxEvents, timeouts : 0 .. MaxTimeouts]
  BY <1>1, UsedIs DEF SettingChanges
<1> HIDE DEF g
<1> QED BY <1>5, <1>6, <1>7, CommittedIs

LEMMA MachineStopsOK ==
  ASSUME IInv, MachineStops
  PROVE  IInv'
<1>1. TypeOK /\ FrameOK(Frame, FALSE, {}, FALSE)
  BY DEF IInv
<1> DEFINE d == [dbg EXCEPT !.stopped = TRUE, !.stop = @ + 1]
           f == [Frame EXCEPT !.dbg = d]
           g == Enqueue(f, "state", "state", "ide")
<1>2. /\ Frame \in FrameType /\ Frame.conns = conns /\ Frame.ide = ide /\ Frame.dbg = dbg
      /\ Frame.loops = loops /\ Frame.hook = hook /\ Frame.loose = loose
  BY <1>1, HereIs
<1>3. dbg \in DbgType /\ ide \in IdeType /\ dbg.live /\ ~dbg.stopped
  BY <1>1 DEF TypeOK, MachineStops
<1>4. /\ d \in DbgType /\ d.live = dbg.live /\ d.stopped /\ d.going = dbg.going
      /\ d.stop = dbg.stop + 1 /\ d.lane = dbg.lane
  <2> DEFINE n == dbg.stop + 1
  <2>1. n \in Nat
    BY <1>3, DbgIs
  <2>2. d = [dbg EXCEPT !.stopped = TRUE, !.stop = n]
    BY <1>3, DbgIs
  <2> HIDE DEF n
  <2>3. /\ d \in DbgType /\ d.live = dbg.live /\ d.stopped /\ d.going = dbg.going
        /\ d.stop = n /\ d.lane = dbg.lane
    BY <1>3, <2>1, <2>2, DbgIs DEF DbgType
  <2> QED BY <2>3 DEF n
<1>5. Commit(g)
  <2>1. f = [Frame EXCEPT !.dbg.stopped = TRUE, !.dbg.stop = @ + 1]
    BY <1>2, <1>3, FrameIs, DbgIs
  <2> HIDE DEF f
  <2> QED BY <2>1 DEF MachineStops
<1> HIDE DEF d
<1>6. f = [conns |-> conns, ide |-> ide, dbg |-> d, loops |-> loops, hook |-> hook,
           loose |-> loose]
  BY DEF Frame
<1> HIDE DEF f
<1>7. f \in FrameType
  BY <1>2, <1>4, <1>6, FrameIs DEF FrameType
<1>8. /\ f.conns = conns /\ f.ide = ide /\ f.dbg = d /\ f.loops = loops
      /\ f.hook = hook /\ f.loose = loose
  BY <1>6
<1>9. SessionIsWhole(ide, dbg)
  BY <1>1, <1>2 DEF FrameOK
<1>10. SessionIsWhole(ide, d)
  <2>1. ide.seen \in Nat /\ dbg.stop \in Nat
    BY <1>3, DbgIs DEF IdeType
  <2> QED BY <1>3, <1>4, <1>9, <2>1 DEF SessionIsWhole
<1>11. FrameOK(f, FALSE, {}, FALSE)
  BY <1>1, <1>2, <1>4, <1>7, <1>8, <1>10 DEF FrameOK
<1>12. FrameOK(g, FALSE, {}, FALSE)
  BY <1>11, EnqueueOK DEF Keys, Tags
<1>13. used' \in [lines : 0 .. MaxLines, events : 0 .. MaxEvents, timeouts : 0 .. MaxTimeouts]
  BY <1>1, UsedIs DEF MachineStops
<1> HIDE DEF g
<1> QED BY <1>5, <1>12, <1>13, CommittedIs

LEMMA TimeOutOK ==
  ASSUME IInv, TimeOut
  PROVE  IInv'
<1>1. TypeOK /\ FrameOK(Frame, FALSE, {}, FALSE)
  BY DEF IInv
<1>2. PICK i \in DOMAIN loops :
        /\ Use("timeouts", MaxTimeouts) \/ UNCHANGED used
        /\ loops' = [loops EXCEPT ![i].done = TRUE]
        /\ loose' = loose \union ({loops[i].mine} \intersect InLane(Frame))
        /\ UNCHANGED <<conns, ide, dbg, hook>>
  BY DEF TimeOut
<1>3. /\ Frame \in FrameType /\ Frame.conns = conns /\ Frame.ide = ide /\ Frame.dbg = dbg
      /\ Frame.loops = loops /\ Frame.hook = hook /\ Frame.loose = loose
  BY <1>1, HereIs
<1>4. loops \in Seq(Waits) /\ AnswersAreOwn(loops)
  BY <1>1, <1>3 DEF FrameOK, TypeOK
<1>5. loops' \in Seq(Waits) /\ AnswersAreOwn(loops') /\ Alike(loops, loops')
  BY <1>2, <1>4, TimedOutIs
<1> DEFINE g == [conns |-> conns, ide |-> ide, dbg |-> dbg, loops |-> loops',
                 hook |-> hook, loose |-> loose']
<1>6. loose \subseteq loose' /\ loose' \subseteq loose \union InLane(Frame)
  BY <1>2
<1>7. Commit(g)
  BY <1>2 DEF Commit
<1>8. FrameOK(g, FALSE, {}, FALSE)
  <2> DEFINE l == loops'
             given == loose'
  <2>1. l \in Seq(Waits) /\ AnswersAreOwn(l) /\ Alike(Frame.loops, l)
    BY <1>3, <1>5
  <2>2. Frame.loose \subseteq given /\ given \subseteq Frame.loose \union InLane(Frame)
    BY <1>3, <1>6
  <2>3. g = [conns |-> Frame.conns, ide |-> Frame.ide, dbg |-> Frame.dbg, loops |-> l,
             hook |-> Frame.hook, loose |-> given]
    BY <1>3
  <2> HIDE DEF l, given, g
  <2> QED BY <1>1, <2>1, <2>2, <2>3, TimedOutOK
<1>9. used' \in [lines : 0 .. MaxLines, events : 0 .. MaxEvents, timeouts : 0 .. MaxTimeouts]
  BY <1>1, <1>2, UsedIs
<1> HIDE DEF g
<1> QED BY <1>7, <1>8, <1>9, CommittedIs

LEMMA ServeOK ==
  ASSUME IInv, Serve
  PROVE  IInv'
<1>1. TypeOK /\ FrameOK(Frame, FALSE, {}, FALSE)
  BY DEF IInv
<1>2. /\ Frame \in FrameType /\ Frame.conns = conns /\ Frame.ide = ide /\ Frame.dbg = dbg
      /\ Frame.loops = loops /\ Frame.hook = hook /\ Frame.loose = loose
  BY <1>1, HereIs
<1>3. /\ dbg \in DbgType /\ ide \in IdeType /\ dbg.stopped /\ dbg.lane # <<>>
      /\ dbg.lane \in Seq(Entries) /\ loops \in Seq(Waits) /\ dbg.stop \in Nat
  BY <1>1, DbgIs DEF TypeOK, Serve
<1> DEFINE e == Head(dbg.lane)
           d == [dbg EXCEPT !.lane = Tail(@), !.going = @ /\ Len(dbg.lane) > 1,
                            !.stopped = ~(dbg.going /\ Len(dbg.lane) = 1)]
           i == [ide EXCEPT !.pending = IF e.tag = "cmd" /\ @ = e.key THEN "none" ELSE @,
                            !.seen = IF e.tag = "state" THEN dbg.stop ELSE @]
           l == [k \in DOMAIN loops |-> Heard(loops[k], e, Frame)]
           f == [conns |-> conns, ide |-> i, dbg |-> d, loops |-> l, hook |-> hook,
                 loose |-> loose \ {e.id}]
           p == [f EXCEPT !.ide.published = dbg.stop]
           q == [i EXCEPT !.published = dbg.stop]
<1>4. /\ Len(dbg.lane) \in Nat \ {0} /\ Tail(dbg.lane) \in Seq(Entries)
      /\ Len(Tail(dbg.lane)) = Len(dbg.lane) - 1
  BY <1>3, TailIs
<1>5. /\ d \in DbgType /\ d.live = dbg.live /\ d.stop = dbg.stop /\ d.lane = Tail(dbg.lane)
      /\ d.going => dbg.going /\ d.stopped /\ d.lane # <<>>
  <2> DEFINE going == dbg.going /\ Len(dbg.lane) > 1
             stopped == ~(dbg.going /\ Len(dbg.lane) = 1)
  <2>1. going \in BOOLEAN /\ stopped \in BOOLEAN
    OBVIOUS
  <2>2. d = [dbg EXCEPT !.lane = Tail(dbg.lane), !.going = going, !.stopped = stopped]
    OBVIOUS
  <2>3. going => dbg.going /\ stopped /\ Tail(dbg.lane) # <<>>
    <3>1. Len(dbg.lane) > 1 => Len(Tail(dbg.lane)) # 0 /\ Len(dbg.lane) # 1
      <4> DEFINE n == Len(dbg.lane)
                 m == Len(Tail(dbg.lane))
      <4>1. n \in Nat \ {0} /\ m = n - 1
        BY <1>4
      <4> HIDE DEF n, m
      <4>2. n > 1 => m # 0 /\ n # 1
        BY <4>1
      <4> QED BY <4>2 DEF n, m
    <3>2. Len(<<>>) = 0
      OBVIOUS
    <3>3. Len(Tail(dbg.lane)) # 0 => Tail(dbg.lane) # <<>>
      BY <3>2
    <3> QED BY <3>1, <3>3
  <2> HIDE DEF going, stopped, d
  <2> DEFINE rest == Tail(dbg.lane)
  <2>4. d = [dbg EXCEPT !.lane = rest, !.going = going, !.stopped = stopped]
    BY <2>2
  <2>5. rest \in Seq(Entries)
    BY <1>4
  <2> HIDE DEF rest
  <2>6. /\ d \in DbgType /\ d.live = dbg.live /\ d.stop = dbg.stop /\ d.lane = rest
        /\ d.going = going /\ d.stopped = stopped
    BY <1>3, <2>1, <2>4, <2>5 DEF DbgType
  <2>7. /\ d \in DbgType /\ d.live = dbg.live /\ d.stop = dbg.stop
        /\ d.lane = Tail(dbg.lane) /\ d.going = going /\ d.stopped = stopped
    BY <2>6 DEF rest
  <2> QED BY <2>3, <2>7
<1>6. i \in IdeType /\ i.busy = ide.busy /\ i.seen <= dbg.stop
  <2>1. ide.seen <= dbg.stop /\ ide.seen \in Nat
    <3>1. SessionIsWhole(ide, dbg)
      BY <1>1, <1>2 DEF FrameOK
    <3> QED BY <1>3, <3>1 DEF SessionIsWhole, IdeType
  <2> DEFINE pending == IF e.tag = "cmd" /\ ide.pending = e.key THEN "none" ELSE ide.pending
             seen == IF e.tag = "state" THEN dbg.stop ELSE ide.seen
  <2>2. pending \in Texts \union {"none"} /\ seen \in Nat /\ seen <= dbg.stop
    BY <1>3, <2>1 DEF IdeType
  <2>3. i = [ide EXCEPT !.pending = pending, !.seen = seen]
    BY <1>3 DEF IdeType
  <2> HIDE DEF pending, seen, i
  <2> QED BY <1>3, <2>2, <2>3 DEF IdeType
<1>7. l \in Seq(Waits) /\ AnswersAreOwn(l) /\ Alike(loops, l)
  <2>1. l = [k \in DOMAIN Frame.loops |-> Heard(Frame.loops[k], Head(Frame.dbg.lane), Frame)]
    BY <1>2
  <2>2. Frame.dbg.lane # <<>>
    BY <1>2, <1>3
  <2> HIDE DEF l
  <2>3. l \in Seq(Waits) /\ AnswersAreOwn(l) /\ Alike(Frame.loops, l)
    BY <1>1, <2>1, <2>2, HeardByAll
  <2> QED BY <1>2, <2>3
<1>8. Commit(f) \/ Commit(OnStopPublished(p))
  <2> DEFINE x == [Frame EXCEPT
                 !.dbg.lane = Tail(@), !.dbg.going = @ /\ Len(dbg.lane) > 1,
                 !.dbg.stopped = ~(dbg.going /\ Len(dbg.lane) = 1),
                 !.loose = @ \ {e.id},
                 !.loops = [k \in DOMAIN @ |-> Heard(@[k], e, Frame)],
                 !.ide.pending = IF e.tag = "cmd" /\ @ = e.key THEN "none" ELSE @,
                 !.ide.seen = IF e.tag = "state" THEN dbg.stop ELSE @]
  <2>1. x = [conns |-> conns, ide |-> x.ide, dbg |-> x.dbg, loops |-> x.loops, hook |-> hook,
             loose |-> loose \ {e.id}]
    <3> SUFFICES ASSUME NEW y, y = x
                 PROVE  y = [conns |-> conns, ide |-> y.ide, dbg |-> y.dbg, loops |-> y.loops,
                             hook |-> hook, loose |-> loose \ {e.id}]
      OBVIOUS
    <3> QED BY DEF Frame
  <2>2. x.loops = l
    BY DEF Frame
  <2>3. x.dbg = d
    BY DEF Frame
  <2>4. x.ide = i
    BY DEF Frame
  <2>5. Commit(x) \/ Commit(OnStopPublished([x EXCEPT !.ide.published = dbg.stop]))
    BY DEF Serve
  <2> HIDE DEF x, d, i, l
  <2>6. x = f
    BY <2>1, <2>2, <2>3, <2>4
  <2> HIDE DEF f
  <2> QED BY <2>5, <2>6
<1> HIDE DEF d, i, l
<1>9. FrameOK(f, FALSE, {}, FALSE)
  <2>1. f = [conns |-> Frame.conns, ide |-> i, dbg |-> d, loops |-> l, hook |-> Frame.hook,
             loose |-> Frame.loose \ {Head(Frame.dbg.lane).id}]
    BY <1>2
  <2>2. /\ Frame.dbg.stopped /\ Frame.dbg.lane # <<>>
        /\ i.busy = Frame.ide.busy /\ i.seen <= Frame.dbg.stop
        /\ d.live = Frame.dbg.live /\ d.stop = Frame.dbg.stop
        /\ d.lane = Tail(Frame.dbg.lane)
        /\ d.going => Frame.dbg.going /\ d.stopped /\ d.lane # <<>>
    BY <1>2, <1>3, <1>5, <1>6
  <2>3. Alike(Frame.loops, l)
    BY <1>2, <1>7
  <2> HIDE DEF f
  <2> QED BY <1>1, <1>5, <1>6, <1>7, <2>1, <2>2, <2>3, ServedOK
<1>10. f.ide = i /\ f.dbg = d
  OBVIOUS
<1>11. p = [f EXCEPT !.ide = q]
  OBVIOUS
<1> HIDE DEF f, p
<1>12. q \in IdeType /\ q.busy = i.busy /\ q.seen = i.seen
  BY <1>3, <1>6 DEF IdeType
<1> HIDE DEF q
<1>13. FrameOK(p, FALSE, {}, FALSE)
  BY <1>5, <1>6, <1>9, <1>10, <1>11, <1>12, IdeOK
<1>14. FrameOK(OnStopPublished(p), FALSE, {}, FALSE)
  BY <1>13, OnStopPublishedOK
<1>15. used' \in [lines : 0 .. MaxLines, events : 0 .. MaxEvents, timeouts : 0 .. MaxTimeouts]
  BY <1>1, UsedIs DEF Serve
<1> QED BY <1>8, <1>9, <1>14, <1>15, CommittedIs

LEMMA PoppedIs ==
  ASSUME NEW f \in FrameType, NEW more,
         NEW g, g = [f EXCEPT !.loops = Front(@), !.loose = @ \union more]
  PROVE  g = [conns |-> f.conns, ide |-> f.ide, dbg |-> f.dbg, loops |-> Front(f.loops),
              hook |-> f.hook, loose |-> f.loose \union more]
<1> DEFINE front == Front(f.loops)
           loose2 == f.loose \union more
<1>1. f = [conns |-> f.conns, ide |-> f.ide, dbg |-> f.dbg, loops |-> f.loops,
           hook |-> f.hook, loose |-> f.loose]
  BY FrameIs
<1>2. g = [f EXCEPT !.loops = front, !.loose = loose2]
  BY <1>1
<1> HIDE DEF front, loose2
<1>3. g = [conns |-> f.conns, ide |-> f.ide, dbg |-> f.dbg, loops |-> front,
           hook |-> f.hook, loose |-> loose2]
  BY <1>1, <1>2
<1> QED BY <1>3 DEF front, loose2

LEMMA ReturnOK ==
  ASSUME IInv, Return
  PROVE  IInv'
<1>1. TypeOK /\ FrameOK(Frame, FALSE, {}, FALSE)
  BY DEF IInv
<1>2. /\ Frame \in FrameType /\ Frame.conns = conns /\ Frame.ide = ide /\ Frame.dbg = dbg
      /\ Frame.loops = loops /\ Frame.hook = hook /\ Frame.loose = loose
  BY <1>1, HereIs
<1> DEFINE w == Last(loops)
           given == loose \union ({w.mine} \intersect InLane(Frame))
           f == [conns |-> conns, ide |-> ide, dbg |-> dbg, loops |-> Front(loops),
                 hook |-> hook, loose |-> given]
<1>3. f = [Frame EXCEPT !.loops = Front(@),
                        !.loose = @ \union ({w.mine} \intersect InLane(Frame))]
  <2> DEFINE more == {w.mine} \intersect InLane(Frame)
  <2> HIDE DEF more
  <2>1. [Frame EXCEPT !.loops = Front(@), !.loose = @ \union more]
          = [conns |-> conns, ide |-> ide, dbg |-> dbg, loops |-> Front(loops),
             hook |-> hook, loose |-> loose \union more]
    BY <1>2, PoppedIs
  <2> QED BY <2>1 DEF more
<1>4. PICK caught \in BOOLEAN, continues \in BOOLEAN :
        Commit(IF w.kind = "hook" THEN HookReturns(f, w, caught, continues) ELSE WaitReturns(f, w))
  BY <1>3 DEF Return
<1> DEFINE g == IF w.kind = "hook" THEN HookReturns(f, w, caught, continues) ELSE WaitReturns(f, w)
<1>5. Commit(g)
  BY <1>4
<1>6. /\ w \in Waits
      /\ w.kind = "user" => FrameOK(f, FALSE, {}, FALSE)
      /\ w.kind = "remote" => w.conn \in Clients /\ FrameOK(f, TRUE, {w.conn}, FALSE)
      /\ w.kind = "hook" => FrameOK(f, FALSE, {}, TRUE)
  <2>1. Frame.loops # <<>> /\ w = Last(Frame.loops)
    BY <1>2 DEF Return
  <2>2. given = Frame.loose \union ({w.mine} \intersect InLane(Frame))
    BY <1>2
  <2>3. f = [conns |-> Frame.conns, ide |-> Frame.ide, dbg |-> Frame.dbg,
             loops |-> Front(Frame.loops), hook |-> Frame.hook, loose |-> given]
    BY <1>2
  <2> HIDE DEF w, given, f
  <2> QED BY <1>1, <2>1, <2>2, <2>3, ReturnedOK
<1> HIDE DEF w, f
<1>7. w.kind \in {"user", "remote", "hook"}
  BY <1>6, WaitParts
<1>8. FrameOK(g, FALSE, {}, FALSE)
  <2>1. CASE w.kind = "hook"
    BY <1>6, <2>1, HookReturnsOK
  <2>2. CASE w.kind \in {"user", "remote"}
    BY <1>6, <2>2, WaitReturnsOK
  <2> QED BY <1>7, <2>1, <2>2
<1>9. used' \in [lines : 0 .. MaxLines, events : 0 .. MaxEvents, timeouts : 0 .. MaxTimeouts]
  BY <1>1, UsedIs DEF Return
<1> HIDE DEF g
<1> QED BY <1>5, <1>8, <1>9, CommittedIs

LEMMA InitOK ==
  ASSUME Init
  PROVE  IInv
<1>1. MaxLines \in Nat /\ MaxEvents \in Nat /\ MaxTimeouts \in Nat /\ Len(Script) \in Nat
  BY RequestsAssumption
<1> DEFINE k == [up |-> TRUE, posted |-> <<>>, owed |-> 0]
           e == [key |-> "state", tag |-> "state", by |-> "ide", id |-> 1]
<1>2. k \in Connections /\ k.owed = 0 /\ k.posted = <<>>
  <2>1. <<>> \in Seq(Requests)
    OBVIOUS
  <2> QED BY <2>1 DEF Connections
<1>3. e \in Entries /\ e.id = 1 /\ e.key = "state" /\ e.by = "ide"
  BY DEF Entries, Keys
<1> HIDE DEF k, e
<1>4. conns \in [Clients -> Connections] /\ \A c \in Clients : conns[c] = k
  <2>1. conns = [c \in Clients |-> k]
    BY DEF Init, k
  <2> QED BY <1>2, <2>1
<1>5. dbg = [live |-> TRUE, stopped |-> TRUE, going |-> FALSE, stop |-> 1, lane |-> <<e>>]
  BY DEF Init, e
<1>6. <<e>> \in Seq(Entries) /\ <<e>> # <<>> /\ DOMAIN <<e>> = {1} /\ <<e>>[1] = e
  BY <1>3
<1>7. dbg \in DbgType /\ dbg.live /\ dbg.stopped /\ ~dbg.going /\ dbg.stop = 1 /\ dbg.lane = <<e>>
  BY <1>5, <1>6 DEF DbgType
<1>8. ide \in IdeType /\ ide.busy = FALSE /\ ide.seen = 0
  BY DEF Init, IdeType
<1>9. loops \in Seq(Waits) /\ loops = <<>> /\ DOMAIN loops = {}
  BY DEF Init
<1>10. hook \in HookType /\ ~hook.running /\ ~hook.lost
  BY <1>1 DEF Init, HookType
<1>11. loose = {}
  BY DEF Init
<1>12. used \in [lines : 0 .. MaxLines, events : 0 .. MaxEvents, timeouts : 0 .. MaxTimeouts]
  BY <1>1 DEF Init
<1>13. TypeOK
  BY <1>4, <1>7, <1>8, <1>9, <1>10, <1>11, <1>12 DEF TypeOK
<1>14. /\ Frame \in FrameType /\ Frame.conns = conns /\ Frame.ide = ide /\ Frame.dbg = dbg
       /\ Frame.loops = loops /\ Frame.hook = hook /\ Frame.loose = loose
  BY <1>13, HereIs
<1>15. LaneIsClaimed(dbg.lane, loops, loose)
  BY <1>3, <1>6, <1>7, <1>11 DEF LaneIsClaimed
<1>16. AnswersAreOwn(loops) /\ ~Has(loops, "remote") /\ ~Has(loops, "hook")
  BY <1>9 DEF AnswersAreOwn, Has
<1>17. \A c : ~WaitsFor(loops, c)
  BY <1>9 DEF WaitsFor
<1>18. AtMostOne(loops, "remote") /\ AtMostOne(loops, "hook")
  BY <1>9 DEF AtMostOne
<1>19. \A c \in Clients : conns[c].owed = Len(conns[c].posted)
         + (IF WaitsFor(loops, c) THEN 1 ELSE 0) + (IF c \in {} THEN 1 ELSE 0)
  <2> SUFFICES ASSUME NEW c \in Clients
               PROVE  conns[c].owed = Len(conns[c].posted)
                        + (IF WaitsFor(loops, c) THEN 1 ELSE 0) + (IF c \in {} THEN 1 ELSE 0)
    OBVIOUS
  <2>1. conns[c].owed = 0 /\ conns[c].posted = <<>> /\ ~WaitsFor(loops, c)
    BY <1>2, <1>4, <1>17
  <2>2. Len(conns[c].posted) = 0
    BY <2>1
  <2> QED BY <2>1, <2>2
<1>20. VerbsAreAccounted(ide.busy, conns, loops, FALSE, {})
  BY <1>8, <1>16, <1>18, <1>19 DEF VerbsAreAccounted
<1>21. ScriptIsAccounted(hook, loops, FALSE)
  BY <1>10, <1>16, <1>18 DEF ScriptIsAccounted
<1>22. SessionIsWhole(ide, dbg)
  BY <1>7, <1>8 DEF SessionIsWhole
<1>23. FrameOK(Frame, FALSE, {}, FALSE)
  BY <1>14, <1>15, <1>16, <1>20, <1>21, <1>22 DEF FrameOK
<1> QED BY <1>13, <1>23 DEF IInv

LEMMA StepOK ==
  ASSUME IInv, [Next]_vars
  PROVE  IInv'
<1>1. ASSUME NEW c \in Clients, Send(c)
      PROVE  IInv'
  BY <1>1, SendOK
<1>2. ASSUME NEW c \in Clients, ExecuteNext(c)
      PROVE  IInv'
  BY <1>2, ExecuteNextOK
<1>3. ASSUME NEW c \in Clients, Hangup(c)
      PROVE  IInv'
  BY <1>3, HangupOK
<1>4. CASE UserCaptures
  BY <1>4, UserCapturesOK
<1>5. CASE UserTypes
  BY <1>5, UserTypesOK
<1>6. CASE UserContinues
  BY <1>6, UserContinuesOK
<1>7. CASE Serve
  BY <1>7, ServeOK
<1>8. CASE MachineStops
  BY <1>8, MachineStopsOK
<1>9. CASE SettingChanges
  BY <1>9, SettingChangesOK
<1>10. CASE HookRuns
  BY <1>10, HookRunsOK
<1>11. CASE TimeOut
  BY <1>11, TimeOutOK
<1>12. CASE Return
  BY <1>12, ReturnOK
<1>13. CASE UNCHANGED vars
  <2>1. /\ conns' = conns /\ ide' = ide /\ dbg' = dbg /\ loops' = loops /\ hook' = hook
        /\ loose' = loose /\ used' = used
    BY <1>13 DEF vars
  <2>2. TypeOK' /\ Frame' = Frame
    BY <2>1 DEF IInv, TypeOK, Frame
  <2>3. FrameOK(Frame, FALSE, {}, FALSE)'
    BY <2>2 DEF IInv
  <2> QED BY <2>2, <2>3 DEF IInv
<1> QED BY <1>1, <1>2, <1>3, <1>4, <1>5, <1>6, <1>7, <1>8, <1>9, <1>10, <1>11, <1>12, <1>13
        DEF Next

(* The inductive invariant holds, whatever waits inside whatever.           *)
THEOREM Invariance ==
  Spec => []IInv
<1>1. Init => IInv
  BY InitOK
<1>2. IInv /\ [Next]_vars => IInv'
  BY StepOK
<1> QED BY <1>1, <1>2, PTL DEF Spec

(* The server's, the session's and the runner's state keep their types.     *)
THEOREM TypeCorrect ==
  Spec => []TypeOK
<1>1. IInv => TypeOK
  BY DEF IInv
<1> QED BY <1>1, Invariance, PTL


LEMMA Accounted ==
  ASSUME IInv
  PROVE  WaitsAreAccounted
<1>1. TypeOK /\ FrameOK(Frame, FALSE, {}, FALSE)
  BY DEF IInv
<1>2. /\ Frame.conns = conns /\ Frame.ide = ide /\ Frame.loops = loops /\ Frame.hook = hook
  BY <1>1, HereIs
<1>3. /\ VerbsAreAccounted(ide.busy, conns, loops, FALSE, {})
      /\ ScriptIsAccounted(hook, loops, FALSE)
  BY <1>1, <1>2 DEF FrameOK
<1>4. ide.busy \in BOOLEAN
  BY <1>1 DEF TypeOK, IdeType
<1>5. BusyIsOneWait
  <2>1. CASE Has(loops, "remote")
    <3>1. PICK i \in DOMAIN loops : loops[i].kind = "remote"
      BY <2>1 DEF Has
    <3>2. Waiting("remote") = {i}
      BY <1>3, <3>1 DEF VerbsAreAccounted, AtMostOne, Waiting
    <3>3. Cardinality(Waiting("remote")) = 1
      BY <3>2, FS_Singleton
    <3> QED BY <1>3, <2>1, <3>3 DEF BusyIsOneWait, VerbsAreAccounted
  <2>2. CASE ~Has(loops, "remote")
    <3>1. Waiting("remote") = {}
      BY <2>2 DEF Has, Waiting
    <3>2. Cardinality(Waiting("remote")) = 0
      BY <3>1, FS_EmptySet
    <3> QED BY <1>3, <2>2, <3>2 DEF BusyIsOneWait, VerbsAreAccounted
  <2> QED BY <2>1, <2>2
<1>6. HookWaits
  BY <1>3 DEF HookWaits, ScriptIsAccounted, Has, Waiting
<1>7. ASSUME NEW c \in Clients
      PROVE  conns[c].owed = Len(conns[c].posted)
               + Cardinality({i \in Waiting("remote") : loops[i].conn = c})
  <2>1. conns[c].owed = Len(conns[c].posted) + (IF WaitsFor(loops, c) THEN 1 ELSE 0) + 0
    BY <1>3 DEF VerbsAreAccounted
  <2>2. Len(conns[c].posted) \in Nat
    <3>1. conns[c] \in Connections
      BY <1>1 DEF TypeOK
    <3>2. conns[c].posted \in Seq(Requests)
      BY <3>1 DEF Connections
    <3> QED BY <3>2
  <2> DEFINE S == {i \in Waiting("remote") : loops[i].conn = c}
  <2>3. CASE WaitsFor(loops, c)
    <3>1. PICK i \in DOMAIN loops : loops[i].kind = "remote" /\ loops[i].conn = c
      BY <2>3 DEF WaitsFor
    <3>2. S = {i}
      BY <1>3, <3>1 DEF VerbsAreAccounted, AtMostOne, Waiting
    <3>3. Cardinality(S) = 1
      BY <3>2, FS_Singleton
    <3> HIDE DEF S
    <3>4. conns[c].owed = Len(conns[c].posted) + 1
      BY <2>1, <2>2, <2>3
    <3> QED BY <3>3, <3>4 DEF S
  <2>4. CASE ~WaitsFor(loops, c)
    <3>1. S = {}
      BY <2>4 DEF WaitsFor, Waiting
    <3>2. Cardinality(S) = 0
      BY <3>1, FS_EmptySet
    <3> HIDE DEF S
    <3>3. conns[c].owed = Len(conns[c].posted) + 0
      BY <2>1, <2>2, <2>4
    <3> QED BY <3>2, <3>3 DEF S
  <2> QED BY <2>3, <2>4
<1> QED BY <1>5, <1>6, <1>7 DEF WaitsAreAccounted, RepliesAreToCome

(* m_busy is one wait, a running script waits, and every reply that is owed *)
(* has its line or its wait: at any depth of nested event loops.            *)
THEOREM EveryWaitIsAccounted ==
  Spec => []WaitsAreAccounted
<1>1. IInv => WaitsAreAccounted
  BY Accounted
<1> QED BY <1>1, Invariance, PTL

(* An answer is one's own, or to the same question of somebody else's or of *)
(* one that gave up: however many operations, captures and scripts wait in  *)
(* one another, and whenever they time out.                                 *)
THEOREM AnswersAreOwnUnlessRepeated ==
  Spec => AnswerIsOwnUnlessRepeated
<1>1. IInv => (Answered => OwnOrRepeated(Last(loops)))
  <2> SUFFICES ASSUME IInv, Answered
               PROVE  OwnOrRepeated(Last(loops))
    OBVIOUS
  <2>1. loops \in Seq(Waits) /\ AnswersAreOwn(loops)
    <3>1. TypeOK /\ FrameOK(Frame, FALSE, {}, FALSE)
      BY DEF IInv
    <3> QED BY <3>1, HereIs DEF FrameOK, TypeOK
  <2>2. loops # <<>> /\ Last(loops).got # NoAnswer
    BY DEF Answered
  <2>3. Len(loops) \in DOMAIN loops /\ Last(loops) = loops[Len(loops)]
    <3>1. /\ Last(loops) = loops[Len(loops)] /\ Len(loops) \in Nat \ {0}
          /\ DOMAIN loops = 1 .. Len(loops)
      BY <2>1, <2>2, FrontIs
    <3>2. Len(loops) \in 1 .. Len(loops)
      BY <3>1
    <3> QED BY <3>1, <3>2
  <2> QED BY <2>1, <2>2, <2>3 DEF AnswersAreOwn
<1>2. IInv => (Return /\ Answered => OwnOrRepeated(Last(loops)))
  BY <1>1
<1>3. IInv => [Return /\ Answered => OwnOrRepeated(Last(loops))]_vars
  BY <1>2
<1> QED BY <1>3, Invariance, PTL DEF AnswerIsOwnUnlessRepeated
=============================================================================

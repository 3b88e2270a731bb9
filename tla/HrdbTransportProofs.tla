------------------------- MODULE HrdbTransportProofs -------------------------
(***************************************************************************)
(* Proofs about HrdbTransport, for every number of requests, sessions and  *)
(* resets, and whether or not the watchdog expires, another program holds  *)
(* the port, or listeners answer a failed command with a request.          *)
(***************************************************************************)
EXTENDS HrdbTransportInv, SequenceLemmas, FunctionTheorems, FiniteSetTheorems, TLAPS

-----------------------------------------------------------------------------
(* Sequences.                                                               *)

(* What a resume keeps of a queue: requests that are kept, every one of     *)
(* them.                                                                    *)
LEMMA KeptIs ==
  ASSUME NEW q \in Seq(Requests)
  PROVE  /\ Kept(q) \in Seq({r \in Requests : Keeps(r)})
         /\ \A k \in DOMAIN Kept(q) : \E i \in DOMAIN q : Kept(q)[k] = q[i]
         /\ \A i \in DOMAIN q : Keeps(q[i]) => \E k \in DOMAIN Kept(q) : Kept(q)[k] = q[i]
<1> DEFINE n == Len(q)
           K == {i \in 1 .. n : Keeps(q[i])}
           U(i) == {j \in 1 .. i : Keeps(q[j])}
           m == KeptUpTo(q, n)
           f == [i \in K |-> KeptUpTo(q, i)]
<1>1. n \in Nat /\ DOMAIN q = 1 .. n /\ \A i \in 1 .. n : q[i] \in Requests
  OBVIOUS
<1>2. /\ \A i \in 0 .. n : U(i) \subseteq 1 .. i /\ KeptUpTo(q, i) = Cardinality(U(i))
      /\ \A i, j : j \in U(i) <=> j \in 1 .. i /\ Keeps(q[j])
      /\ \A i : i \in K <=> i \in 1 .. n /\ Keeps(q[i])
      /\ U(n) = K /\ K \subseteq 1 .. n
      /\ m = KeptUpTo(q, n)
  BY DEF KeptUpTo
<1> HIDE DEF U, K, m
<1>14. ASSUME NEW i \in 0 .. n
      PROVE  IsFiniteSet(U(i)) /\ Cardinality(U(i)) \in Nat /\ KeptUpTo(q, i) = Cardinality(U(i))
  <2>1. IsFiniteSet(1 .. i)
    BY <1>1, FS_Interval
  <2>2. IsFiniteSet(U(i))
    BY <1>2, <2>1, FS_Subset
  <2> QED BY <1>2, <2>2, FS_CardinalityType
<1>3. IsFiniteSet(K) /\ m = Cardinality(K) /\ m \in Nat
  <2>1. n \in 0 .. n
    BY <1>1
  <2> QED BY <1>2, <1>14, <2>1
<1>4. ASSUME NEW i \in K
      PROVE  KeptUpTo(q, i) \in 1 .. m
  <2>1. i \in 1 .. n /\ i \in U(i) /\ i \in 0 .. n
    BY <1>1, <1>2
  <2>2. U(i) \subseteq K
    BY <1>1, <1>2, <2>1
  <2>3. Cardinality(U(i)) <= m
    BY <1>3, <2>2, FS_Subset
  <2>4. Cardinality(U(i)) # 0
    BY <1>14, <2>1, FS_EmptySet
  <2>5. Cardinality(U(i)) \in Nat /\ KeptUpTo(q, i) = Cardinality(U(i))
    BY <1>14, <2>1
  <2> QED BY <1>3, <2>3, <2>4, <2>5
<1>5. ASSUME NEW i \in K, NEW j \in K, i < j
      PROVE  KeptUpTo(q, i) # KeptUpTo(q, j)
  <2>1. i \in 1 .. n /\ j \in 1 .. n /\ i \in 0 .. n /\ j \in 0 .. n
    BY <1>1, <1>2
  <2>2. U(i) \subseteq U(j) /\ U(i) # U(j)
    <3>1. j \in U(j) /\ j \notin U(i)
      BY <1>2, <1>5, <2>1
    <3>2. ASSUME NEW k \in U(i) PROVE k \in U(j)
      BY <1>2, <1>5, <2>1
    <3> QED BY <3>1, <3>2
  <2>3. Cardinality(U(i)) < Cardinality(U(j))
    BY <1>14, <2>1, <2>2, FS_Subset
  <2>4. /\ Cardinality(U(i)) \in Nat /\ KeptUpTo(q, i) = Cardinality(U(i))
        /\ Cardinality(U(j)) \in Nat /\ KeptUpTo(q, j) = Cardinality(U(j))
    BY <1>14, <2>1
  <2> QED BY <2>3, <2>4
<1>6. f \in Injection(K, 1 .. m)
  <2>1. f \in [K -> 1 .. m]
    BY <1>4
  <2>2. ASSUME NEW i \in K, NEW j \in K, f[i] = f[j]
        PROVE  i = j
    <3>1. i \in Int /\ j \in Int
      BY <1>1, <1>2
    <3>2. KeptUpTo(q, i) = KeptUpTo(q, j)
      BY <2>2
    <3> QED BY <1>5, <3>1, <3>2
  <2> HIDE DEF f
  <2> QED BY <2>1, <2>2, Fun_IsInj
<1>7. IsFiniteSet(1 .. m) /\ Cardinality(1 .. m) = m
  BY <1>3, FS_Interval
<1>8. f \in Surjection(K, 1 .. m)
  <2> HIDE DEF f
  <2> QED BY <1>3, <1>6, <1>7, FS_Injection
<1>9. ASSUME NEW k \in 1 .. m
      PROVE  \E i \in K : KeptUpTo(q, i) = k
  <2>1. \A i \in K : f[i] = KeptUpTo(q, i)
    OBVIOUS
  <2> HIDE DEF f
  <2>2. \A t \in 1 .. m : \E e \in K : f[e] = t
    BY <1>8, Fun_SurjectionProperties
  <2> QED BY <2>1, <2>2
<1>10. ASSUME NEW k \in 1 .. m
       PROVE  \E i \in K : Kept(q)[k] = q[i] /\ KeptUpTo(q, i) = k
  <2> DEFINE c == CHOOSE i \in DOMAIN q : Keeps(q[i]) /\ KeptUpTo(q, i) = k
  <2>1. c \in DOMAIN q /\ Keeps(q[c]) /\ KeptUpTo(q, c) = k
    BY <1>1, <1>2, <1>9
  <2>2. Kept(q)[k] = q[c]
    BY <1>2 DEF Kept
  <2> HIDE DEF c
  <2> QED BY <1>1, <1>2, <2>1, <2>2
<1>11. DOMAIN Kept(q) = 1 .. m
  BY <1>2 DEF Kept
<1>12. Kept(q) \in Seq({r \in Requests : Keeps(r)})
  <2>1. \A k \in 1 .. m : Kept(q)[k] \in {r \in Requests : Keeps(r)}
    BY <1>1, <1>2, <1>10
  <2>2. Kept(q) \in [1 .. m -> {r \in Requests : Keeps(r)}]
    BY <1>2, <2>1 DEF Kept
  <2> QED BY <1>3, <2>2, SeqDef
<1>13. ASSUME NEW i \in DOMAIN q, Keeps(q[i])
       PROVE  \E k \in DOMAIN Kept(q) : Kept(q)[k] = q[i]
  <2>1. i \in K /\ KeptUpTo(q, i) \in 1 .. m
    BY <1>1, <1>2, <1>4, <1>13
  <2>2. PICK j \in K : Kept(q)[KeptUpTo(q, i)] = q[j] /\ KeptUpTo(q, j) = KeptUpTo(q, i)
    BY <1>10, <2>1
  <2>3. i = j
    <3>1. i \in Int /\ j \in Int
      BY <1>1, <1>2
    <3> QED BY <1>5, <2>1, <2>2, <3>1
  <2> QED BY <1>11, <2>1, <2>2, <2>3
<1> QED
  <2>1. \A k \in DOMAIN Kept(q) : \E i \in DOMAIN q : Kept(q)[k] = q[i]
    BY <1>1, <1>2, <1>10, <1>11
  <2> QED BY <1>12, <1>13, <2>1

-----------------------------------------------------------------------------
(* Types.                                                                   *)

LEMMA RequestsAre ==
  /\ \A id \in Nat, kind \in Kinds \union {"break"} : Request(id, kind) \in Requests
  /\ \A id \in Nat, set \in SUBSET Nat : RunRequest(id, set) \in Requests
  /\ \A r \in Requests : r.id \in Nat /\ r.after \in SUBSET Nat
BY DEF Request, RunRequest, Requests, Kinds

LEMMA MessagesAre ==
  /\ \A b \in BOOLEAN : Hello(b) \in Messages /\ Status(b) \in Messages
  /\ \A id \in Nat, ok \in BOOLEAN : Reply(id, ok) \in Messages
  /\ \A m \in Messages : m.id \in Nat /\ m.flag \in BOOLEAN
BY DEF Hello, Status, Reply, Messages

(* No request is the one that stands for none.                              *)
LEMMA NoCmdIsNone ==
  /\ NoCmd \notin Requests
  /\ NoCmd.id = 0 /\ ~Captures(NoCmd) /\ ~Keeps(NoCmd)
BY DEF NoCmd, Requests, Kinds, Captures, Keeps

(* The ids a run is queued behind are numbers.                              *)
LEMMA KeptIdsAre ==
  ASSUME TypeOK
  PROVE  KeptIds(InHand(queue)) \in SUBSET Nat
<1>1. \A r \in Range(queue) : r \in Requests
  BY DEF TypeOK, Range
<1>2. \A r \in InHand(queue) : r.id \in Nat
  BY <1>1, RequestsAre, NoCmdIsNone DEF InHand, TypeOK
<1> QED BY <1>2 DEF KeptIds

(* What has been emptied has its type.                                      *)
LEMMA EmptyAre ==
  <<>> \in Seq(Requests) /\ <<>> \in Seq(Messages)
BY EmptySeq

LEMMA AcceptTypes ==
  ASSUME TypeOK, NEW reqs \in Seq(Requests), Accept(reqs), queue' \in Seq(Requests)
  PROVE  TypeOK'
<1>1. nextId' \in Nat
  BY DEF Accept, TypeOK
<1>2. pc' \in DOMAIN Sending
  BY DEF Accept, TypeOK, Sending
<1> QED BY <1>1, <1>2 DEF TypeOK, Accept, forkVars

LEMMA EndSessionTypes ==
  ASSUME TypeOK, EndSession, toHost' \in Seq(Messages), pc' \in DOMAIN Sending,
         UNCHANGED <<boundVars, answer>>
  PROVE  TypeOK'
BY EmptyAre DEF TypeOK, EndSession, boundVars

LEMMA TypeStep ==
  ASSUME TypeOK, [Next]_vars
  PROVE  TypeOK'
<1>1. CASE Start
  <2>1. queue' \in Seq(Requests) /\ toFork' \in Seq(Requests) /\ toHost' \in Seq(Messages)
    BY <1>1, EmptyAre DEF Start
  <2>2. sessions' \in Nat
    BY <1>1 DEF TypeOK, Start
  <2> QED BY <1>1, <2>1, <2>2 DEF TypeOK, Start
<1>2. CASE Stop
  BY <1>2, EndSessionTypes DEF TypeOK, Stop
<1>3. CASE User
  <2>1. ASSUME NEW kind \in Kinds, Enqueue(kind)
        PROVE  TypeOK'
    <3> DEFINE reqs == <<Request(nextId, kind)>>
    <3>1. reqs \in Seq(Requests)
      BY RequestsAre DEF TypeOK
    <3>2. Accept(reqs) /\ queue' = queue \o reqs
      BY <2>1 DEF Enqueue
    <3> QED BY <3>1, <3>2, AcceptTypes, ConcatIs DEF TypeOK
  <2>2. CASE Refresh
    <3> DEFINE reqs == <<Request(nextId, "query"), Request(nextId + 1, "read")>>
    <3>1. reqs \in Seq(Requests)
      BY RequestsAre DEF TypeOK, Kinds
    <3>2. Accept(reqs) /\ queue' = queue \o reqs
      BY <2>2 DEF Refresh
    <3> QED BY <3>1, <3>2, AcceptTypes, ConcatIs DEF TypeOK
  <2>3. CASE Resume
    <3> DEFINE reqs == <<RunRequest(nextId, KeptIds(InHand(queue)))>>
    <3>1. reqs \in Seq(Requests)
      BY RequestsAre, KeptIdsAre DEF TypeOK
    <3>2. Accept(reqs) /\ queue' = Kept(queue) \o reqs
      BY <2>3 DEF Resume
    <3>3. Kept(queue) \in Seq(Requests)
      <4>1. Kept(queue) \in Seq({r \in Requests : Keeps(r)})
        BY KeptIs DEF TypeOK
      <4> QED BY <4>1, SeqMonotonic
    <3> QED BY <3>1, <3>2, <3>3, AcceptTypes, ConcatIs
  <2>4. CASE StepOver
    <3> DEFINE reqs == <<Request(nextId, "poke"),
                         RunRequest(nextId + 1, KeptIds(InHand(queue)) \union {nextId})>>
    <3>1. reqs \in Seq(Requests)
      <4> DEFINE set == KeptIds(InHand(queue)) \union {nextId}
      <4>1. nextId \in Nat /\ nextId + 1 \in Nat /\ set \in SUBSET Nat /\ "poke" \in Kinds
        BY KeptIdsAre DEF TypeOK, Kinds
      <4> HIDE DEF set
      <4>2. Request(nextId, "poke") \in Requests /\ RunRequest(nextId + 1, set) \in Requests
        BY <4>1, RequestsAre
      <4> QED BY <4>2 DEF set
    <3>2. Accept(reqs) /\ queue' = queue \o reqs
      BY <2>4 DEF StepOver
    <3> QED BY <3>1, <3>2, AcceptTypes, ConcatIs DEF TypeOK
  <2>5. CASE Pause
    <3> DEFINE reqs == <<Request(nextId, "break")>>
    <3>1. reqs \in Seq(Requests)
      BY RequestsAre DEF TypeOK
    <3>2. Accept(reqs) /\ queue' = queue \o reqs
      BY <2>5 DEF Pause
    <3> QED BY <3>1, <3>2, AcceptTypes, ConcatIs DEF TypeOK
  <2> QED BY OfferedAssumption, <1>3, <2>1, <2>2, <2>3, <2>4, <2>5 DEF User
<1>4. CASE Host
  <2>1. CASE Connect
    <3>1. toHost' \in Seq(Messages)
      <4>1. PICK ok \in BOOLEAN : toHost' = <<Hello(ok), Status(machine = "stopped")>>
        BY <2>1 DEF Connect
      <4>2. Hello(ok) \in Messages /\ Status(machine = "stopped") \in Messages
        BY MessagesAre
      <4> QED BY <4>1, <4>2
    <3> QED BY <2>1, <3>1, EmptyAre DEF TypeOK, Connect, hostVars, boundVars
  <2>2. CASE HandshakeTimeout
    BY <2>2, EndSessionTypes DEF TypeOK, HandshakeTimeout
  <2>3. CASE ProcessFinished
    <3>1. answer' \in [id : Nat, reply : Nat, lines : SUBSET Nat]
      BY <2>3, RequestsAre, NoCmdIsNone DEF TypeOK, ProcessFinished, FailInFlight, Answer
    <3> QED BY <2>3, <3>1, EmptyAre DEF TypeOK, ProcessFinished, forkVars, boundVars
  <2>4. CASE Disconnected
    <3>1. answer' \in [id : Nat, reply : Nat, lines : SUBSET Nat]
      BY <2>4, RequestsAre, NoCmdIsNone DEF TypeOK, Disconnected, FailInFlight, Answer
    <3> QED BY <2>4, <3>1 DEF TypeOK, Disconnected, forkVars, boundVars, Sending
  <2>5. CASE AfterDisconnect
    <3>1. pc' \in DOMAIN Sending
      BY <2>5 DEF AfterDisconnect, Sending
    <3>2. CASE EndSession /\ UNCHANGED toHost
      BY <2>5, <3>1, <3>2, EndSessionTypes DEF TypeOK, AfterDisconnect
    <3>3. CASE ~(EndSession /\ UNCHANGED toHost)
      BY <2>5, <3>1, <3>3 DEF TypeOK, AfterDisconnect, boundVars
    <3> QED BY <3>2, <3>3
  <2>6. CASE RecordOwed
    BY <2>6 DEF TypeOK, RecordOwed, Sending, forkVars, boundVars
  <2>7. CASE DispatchNext
    <3>1. PICK i \in DOMAIN queue : current' = queue[i] /\ queue' = RemoveAt(queue, i)
      BY <2>7 DEF DispatchNext, Sendable
    <3>2. queue' \in Seq(Requests) /\ current' \in Requests
      BY <3>1, RemoveAtIs DEF TypeOK
    <3>3. toFork' \in Seq(Requests)
      BY <2>7, <3>2, AppendIs DEF TypeOK, DispatchNext
    <3>4. pc' \in DOMAIN Sending
      BY <2>7 DEF TypeOK, DispatchNext, Sending, Returning
    <3>5. tail' \subseteq Nat /\ spilled' \subseteq Nat
      BY <2>7 DEF TypeOK, DispatchNext
    <3> QED BY <2>7, <3>2, <3>3, <3>4, <3>5 DEF TypeOK, DispatchNext, boundVars
  <2>8. CASE DispatchNothing
    <3>1. pc' \in DOMAIN Sending
      BY <2>8 DEF TypeOK, DispatchNothing, Sending, Returning
    <3> QED BY <2>8, <3>1 DEF TypeOK, DispatchNothing, hostVars, forkVars, boundVars
  <2>9. CASE ReadHello
    BY <2>9, TailIs DEF TypeOK, ReadHello, TakeMessage, Sending, boundVars
  <2>10. CASE RefuseHello
    <3>1. toHost' \in Seq(Messages)
      <4>1. Tail(toHost) \in Seq(Messages)
        BY <2>10, TailIs DEF TypeOK, RefuseHello, TakeMessage
      <4> QED BY <2>10, <4>1, EmptyAre DEF RefuseHello
    <3>2. pc' \in DOMAIN Sending /\ UNCHANGED <<boundVars, answer>> /\ EndSession
      BY <2>10 DEF TypeOK, RefuseHello, TakeMessage
    <3> QED BY <3>1, <3>2, EndSessionTypes
  <2>11. CASE ReadStatus
    <3>1. toHost' \in Seq(Messages) /\ stopped' \in BOOLEAN
      BY <2>11, TailIs, MessagesAre DEF TypeOK, ReadStatus, TakeMessage
    <3>2. pc' \in DOMAIN Sending
      BY <2>11 DEF ReadStatus, Sending
    <3> QED BY <2>11, <3>1, <3>2 DEF TypeOK, ReadStatus, TakeMessage, boundVars
  <2>12. CASE SwallowReply
    <3>1. toHost' \in Seq(Messages)
      BY <2>12, TailIs DEF TypeOK, SwallowReply, TakeMessage
    <3>2. pc' \in DOMAIN Sending
      BY <2>12 DEF SwallowReply, Sending
    <3> QED BY <2>12, <3>1, <3>2 DEF TypeOK, SwallowReply, TakeMessage, boundVars
  <2>13. CASE CompleteCurrent
    <3>1. toHost' \in Seq(Messages) /\ Head(toHost).id \in Nat
      BY <2>13, TailIs, MessagesAre DEF TypeOK, CompleteCurrent, TakeMessage
    <3>2. CASE Have
      <4>1. current.id \in Nat /\ tail \union pipe \subseteq Nat
        BY RequestsAre, NoCmdIsNone DEF TypeOK
      <4>2. \E lines \in SUBSET Nat :
              answer' = [id |-> current.id, reply |-> Head(toHost).id, lines |-> lines]
        BY <2>13, <3>2, <4>1 DEF CompleteCurrent, Answer
      <4>3. answer' \in [id : Nat, reply : Nat, lines : SUBSET Nat]
        BY <3>1, <4>1, <4>2
      <4>4. tail' \subseteq Nat /\ pipe' \subseteq Nat /\ spilled' \subseteq Nat
        BY <2>13, <3>2, <4>1 DEF TypeOK, CompleteCurrent, Unread
      <4> QED BY <2>13, <3>1, <3>2, <4>3, <4>4
          DEF TypeOK, CompleteCurrent, TakeMessage, Sending, boundVars
    <3>3. CASE ~Have
      BY <2>13, <3>1, <3>3 DEF TypeOK, CompleteCurrent, TakeMessage, boundVars
    <3> QED BY <3>2, <3>3
  <2>14. CASE ReadStderr
    BY <2>14 DEF TypeOK, ReadStderr, boundVars
  <2>15. CASE CommandTimeout
    <3>1. answer' \in [id : Nat, reply : Nat, lines : SUBSET Nat]
      BY <2>15, RequestsAre, NoCmdIsNone DEF TypeOK, CommandTimeout, Answer
    <3>2. spilled' \subseteq Nat
      <4>1. current.id \in Nat /\ spilled \subseteq Nat
        BY RequestsAre, NoCmdIsNone DEF TypeOK
      <4> QED BY <2>15, <4>1 DEF CommandTimeout, Unread
    <3> QED BY <2>15, <3>1, <3>2 DEF TypeOK, CommandTimeout, Sending, forkVars, boundVars
  <2> QED BY <1>4, <2>1, <2>2, <2>3, <2>4, <2>5, <2>6, <2>7, <2>8, <2>9, <2>10, <2>11,
             <2>12, <2>13, <2>14, <2>15 DEF Host
<1>5. CASE Fork
  <2>1. CASE ForkServes
    <3>1. Head(toFork) \in Requests /\ toFork' \in Seq(Requests)
      BY <2>1, TailIs DEF TypeOK, ForkServes
    <3>2. Head(toFork).id \in Nat
      BY <3>1, RequestsAre
    <3>3. toHost' \in Seq(Messages)
      <4>1. PICK ok \in BOOLEAN : toHost' = Append(toHost, Reply(Head(toFork).id, ok))
        BY <2>1 DEF ForkServes
      <4>2. Reply(Head(toFork).id, ok) \in Messages
        BY <3>2, MessagesAre
      <4> QED BY <4>1, <4>2, AppendIs DEF TypeOK
    <3>4. executed' \subseteq Nat /\ pipe' \subseteq Nat /\ machine' \in {"run", "stopped", "leaving"}
      BY <2>1, <3>2 DEF TypeOK, ForkServes
    <3> QED BY <2>1, <3>1, <3>3, <3>4 DEF TypeOK, ForkServes, hostVars, boundVars
  <2>2. CASE ForkRuns
    <3>1. toHost' \in Seq(Messages)
      BY <2>2, MessagesAre, AppendIs DEF TypeOK, ForkRuns, Notify
    <3> QED BY <2>2, <3>1 DEF TypeOK, ForkRuns, hostVars, boundVars
  <2>3. CASE ForkStops
    <3>1. toHost' \in Seq(Messages)
      BY <2>3, MessagesAre, AppendIs DEF TypeOK, ForkStops, Notify
    <3> QED BY <2>3, <3>1 DEF TypeOK, ForkStops, hostVars, boundVars
  <2>4. CASE DropLink
    <3>1. toHost' \in Seq(Messages) /\ toFork' \in Seq(Requests)
      BY <2>4, EmptyAre DEF TypeOK, DropLink
    <3>2. drops' \in Nat /\ link' \in {"closed", "open", "lost"}
      BY <2>4 DEF TypeOK, DropLink
    <3> QED BY <2>4, <3>1, <3>2 DEF TypeOK, DropLink, hostVars
  <2>5. CASE EmuExits
    BY <2>5, EmptyAre DEF TypeOK, EmuExits, hostVars, boundVars
  <2> QED BY <1>5, <2>1, <2>2, <2>3, <2>4, <2>5 DEF Fork
<1>6. CASE UNCHANGED vars
  BY <1>6 DEF TypeOK, vars, hostVars, forkVars, boundVars
<1> QED BY <1>1, <1>2, <1>3, <1>4, <1>5, <1>6 DEF Next

LEMMA TypeAtInit ==
  ASSUME Init
  PROVE  TypeOK
<1>1. queue \in Seq(Requests) /\ toFork \in Seq(Requests) /\ toHost \in Seq(Messages)
  BY EmptyAre DEF Init
<1>2. answer \in [id : Nat, reply : Nat, lines : SUBSET Nat]
  BY DEF Init
<1>3. /\ current \in Requests \union {NoCmd} /\ tail \subseteq Nat /\ pipe \subseteq Nat
      /\ executed \subseteq Nat /\ reentrant \in BOOLEAN /\ pc \in DOMAIN Sending
  BY SettingAssumption DEF Init, Sending
<1> QED BY <1>1, <1>2, <1>3 DEF Init, TypeOK

(* The types of the host's and the fork's state hold in every state.        *)
THEOREM TypeCorrect == Spec => []TypeOK
<1>1. Init => TypeOK
  BY TypeAtInit
<1>2. TypeOK /\ [Next]_vars => TypeOK'
  BY TypeStep
<1> QED BY <1>1, <1>2, PTL DEF Spec

-----------------------------------------------------------------------------
(* The session.                                                             *)

LEMMA PhasesAre ==
  ASSUME pc \in DOMAIN Sending, pc' = Sending[pc]
  PROVE  (Closing' <=> Closing) /\ (Expired' <=> Expired)
BY DEF Sending, Closing, Expired

LEMMA ReturnsAre ==
  ASSUME pc \in DOMAIN Returning, pc' = Returning[pc]
  PROVE  (Closing' <=> Closing) /\ (Expired' <=> Expired) /\ pc' \in {"loop", "expired", "closing"}
BY DEF Returning, Closing, Expired

LEMMA EndSessionSession ==
  ASSUME EndSession, pc' \in {"loop", "dispatch"}
  PROVE  Session'
<1>1. proc' = "none" /\ queue' = <<>> /\ current' = NoCmd
  BY DEF EndSession
<1> QED BY <1>1 DEF Session, Ended, Greeted, Ungreeted, OneGreeting, LinkShape, Running, Have,
                    Closing, Expired

LEMMA AcceptSession ==
  ASSUME TypeOK, Session, NEW reqs, Accept(reqs),
         ~ready => \A i \in DOMAIN queue' : queue'[i].kind # "run"
  PROVE  Session'
<1>1. (Closing' <=> Closing) /\ (Expired' <=> Expired)
  BY PhasesAre DEF Accept, TypeOK
<1>2. /\ proc = "running" /\ proc' = proc
      /\ UNCHANGED <<ready, stopped, current, owed, machine, link, toFork, toHost>>
  BY DEF Accept, forkVars
<1>3. Ended'
  BY <1>2 DEF Ended, Running
<1>4. Greeted'
  BY <1>1, <1>2 DEF Session, Greeted, Running, Have
<1>5. Ungreeted'
  BY <1>2 DEF Session, Ungreeted, Running
<1>6. OneGreeting'
  BY <1>2 DEF Session, OneGreeting, Running, Is
<1>7. LinkShape'
  BY <1>1, <1>2 DEF Session, LinkShape, Running
<1> QED BY <1>3, <1>4, <1>5, <1>6, <1>7 DEF Session

(* No request for a run is made before the greeting.                        *)
LEMMA NoEarlyRun ==
  ASSUME TypeOK, Session, NEW q \in Seq(Requests), Range(q) \subseteq Range(queue),
         NEW reqs \in Seq(Requests), proc = "running",
         ready \/ \A i \in DOMAIN reqs : reqs[i].kind # "run"
  PROVE  ~ready => \A i \in DOMAIN (q \o reqs) : (q \o reqs)[i].kind # "run"
<1> SUFFICES ASSUME ~ready, NEW i \in DOMAIN (q \o reqs)
             PROVE  (q \o reqs)[i].kind # "run"
  OBVIOUS
<1>1. \A j \in DOMAIN queue : queue[j].kind # "run"
  BY DEF Session, Ungreeted, Running
<1>2. CASE i \in 1 .. Len(q)
  <2>1. (q \o reqs)[i] = q[i] /\ i \in DOMAIN q
    BY <1>2, ConcatIs
  <2>2. q[i] \in Range(queue)
    BY <2>1 DEF Range
  <2> QED BY <1>1, <2>1, <2>2 DEF Range
<1>3. CASE i \notin 1 .. Len(q)
  <2>1. i - Len(q) \in DOMAIN reqs /\ i = Len(q) + (i - Len(q))
    BY <1>3, ConcatIs
  <2>2. (q \o reqs)[i] = reqs[i - Len(q)]
    BY <2>1, ConcatIs
  <2> QED BY <2>1, <2>2
<1> QED BY <1>2, <1>3

LEMMA UserSession ==
  ASSUME TypeOK, Session, User
  PROVE  Session'
<1>0. proc = "running"
  BY DEF User, Enqueue, Refresh, Resume, StepOver, Pause, Accept
<1>1. ASSUME NEW kind \in Kinds, Enqueue(kind)
      PROVE  Session'
  <2> DEFINE reqs == <<Request(nextId, kind)>>
  <2>1. reqs \in Seq(Requests) /\ \A i \in DOMAIN reqs : reqs[i].kind # "run"
    <3>1. reqs \in Seq(Requests)
      BY RequestsAre DEF TypeOK, Kinds
    <3>2. \A i \in DOMAIN reqs : reqs[i].kind # "run"
      BY DEF Request, Kinds
    <3> QED BY <3>1, <3>2
  <2>2. Accept(reqs) /\ queue' = queue \o reqs
    BY <1>1 DEF Enqueue
  <2> HIDE DEF reqs
  <2> QED BY <1>0, <2>1, <2>2, NoEarlyRun, AcceptSession DEF TypeOK
<1>2. CASE Refresh
  <2> DEFINE reqs == <<Request(nextId, "query"), Request(nextId + 1, "read")>>
  <2>1. reqs \in Seq(Requests) /\ \A i \in DOMAIN reqs : reqs[i].kind # "run"
    <3>1. reqs \in Seq(Requests)
      <4>1. nextId \in Nat /\ nextId + 1 \in Nat /\ {"query", "read"} \subseteq Kinds
        BY DEF TypeOK, Kinds
      <4> QED BY <4>1, RequestsAre
    <3>2. \A i \in DOMAIN reqs : reqs[i].kind # "run"
      BY DEF Request, Kinds
    <3> QED BY <3>1, <3>2
  <2>2. Accept(reqs) /\ queue' = queue \o reqs
    BY <1>2 DEF Refresh
  <2> HIDE DEF reqs
  <2> QED BY <1>0, <2>1, <2>2, NoEarlyRun, AcceptSession DEF TypeOK
<1>3. CASE Resume \/ StepOver
  <2>1. ready
    BY <1>0, <1>3 DEF Session, Ungreeted, Running, Resume, StepOver
  <2>2. PICK reqs : Accept(reqs)
    BY <1>3 DEF Resume, StepOver
  <2> QED BY <2>1, <2>2, AcceptSession
<1>4. CASE Pause
  <2> DEFINE reqs == <<Request(nextId, "break")>>
  <2>1. reqs \in Seq(Requests) /\ \A i \in DOMAIN reqs : reqs[i].kind # "run"
    BY RequestsAre DEF TypeOK, Request
  <2>2. Accept(reqs) /\ queue' = queue \o reqs
    BY <1>4 DEF Pause
  <2> HIDE DEF reqs
  <2> QED BY <1>0, <2>1, <2>2, NoEarlyRun, AcceptSession DEF TypeOK
<1> QED BY OfferedAssumption, <1>1, <1>2, <1>3, <1>4 DEF User

LEMMA HostSession ==
  ASSUME TypeOK, Session, Host
  PROVE  Session'
<1> USE DEF Running, Have
<1>1. CASE Connect
  <2>1. /\ proc = "running" /\ link' = "open" /\ ~ready /\ pc = "loop" /\ current = NoCmd
        /\ UNCHANGED <<proc, pc, ready, stopped, queue, current, owed, machine>>
        /\ toFork' = <<>>
    BY <1>1 DEF Connect, hostVars, Session, Greeted
  <2>2. PICK ok \in BOOLEAN : toHost' = <<Hello(ok), Status(machine = "stopped")>>
    BY <1>1 DEF Connect
  <2>3. /\ toHost' # <<>>
        /\ \A i \in DOMAIN toHost' : toHost'[i].type = IF i = 1 THEN "hello" ELSE "status"
    BY <2>2 DEF Hello, Status
  <2> QED BY <2>1, <2>3 DEF Session, Ended, Greeted, Ungreeted, OneGreeting, LinkShape, Closing, Expired
<1>2. CASE HandshakeTimeout
  BY <1>2, EndSessionSession DEF HandshakeTimeout
<1>3. CASE ProcessFinished
  <2>1. pc' = "loop" /\ proc' = "exited" /\ queue' = <<>> /\ current' = NoCmd
    BY <1>3 DEF ProcessFinished
  <2> QED BY <2>1 DEF Session, Ended, Greeted, Ungreeted, OneGreeting, LinkShape, Closing, Expired
<1>4. CASE Disconnected
  <2>1. /\ pc' = "closing" /\ proc = "running" /\ current' = NoCmd /\ link = "lost"
        /\ toHost = <<>>
        /\ UNCHANGED <<proc, ready, stopped, queue, owed, link, toFork, toHost, machine>>
    BY <1>4 DEF Disconnected, forkVars
  <2> QED BY <2>1 DEF Session, Ended, Greeted, Ungreeted, OneGreeting, LinkShape, Closing,
                      Expired, Is
<1>5. CASE AfterDisconnect
  <2>1. CASE EndSession
    BY <1>5, <2>1, EndSessionSession DEF AfterDisconnect
  <2>2. CASE ~EndSession
    <3>1. /\ pc = "closing" /\ pc' = "loop" /\ ~ready /\ link' = "closed"
          /\ UNCHANGED <<proc, ready, stopped, queue, current, owed, toFork, toHost, machine>>
      BY <1>5, <2>2 DEF AfterDisconnect
    <3>2. proc = "running" /\ toHost = <<>>
      BY <3>1 DEF Session, LinkShape, Closing
    <3> QED BY <3>1, <3>2 DEF Session, Ended, Greeted, Ungreeted, OneGreeting, LinkShape,
                              Closing, Expired
  <2> QED BY <2>1, <2>2
<1>6. CASE RecordOwed
  <2>1. /\ pc = "expired" /\ pc' = "loop"
        /\ UNCHANGED <<proc, ready, stopped, queue, current, link, toFork, toHost, machine>>
    BY <1>6 DEF RecordOwed, forkVars
  <2>2. proc = "running" /\ ready
    BY <2>1 DEF Session, Greeted, Expired
  <2> QED BY <2>1, <2>2 DEF Session, Ended, Greeted, Ungreeted, OneGreeting, LinkShape,
                            Closing, Expired, Is
<1>7. CASE DispatchNext
  <2>1. /\ ready /\ proc # "none" /\ queue # <<>>
        /\ UNCHANGED <<proc, ready, stopped, link, toHost, machine>>
        /\ (Closing' <=> Closing)
    BY <1>7, ReturnsAre DEF DispatchNext, MayDispatch, Sendable
  <2>2. proc = "running"
    BY <2>1 DEF Session, Ended
  <2> QED BY <2>1, <2>2 DEF Session, Ended, Greeted, Ungreeted, OneGreeting, LinkShape, Is
<1>8. CASE DispatchNothing
  <2>1. /\ (Closing' <=> Closing) /\ (Expired' <=> Expired) /\ pc' \in {"loop", "expired", "closing"}
        /\ UNCHANGED <<proc, ready, stopped, queue, current, owed, link, toFork, toHost, machine>>
    BY <1>8, ReturnsAre DEF DispatchNothing, hostVars, forkVars
  <2>2. Ended'
    BY <2>1 DEF Session, Ended, Closing, Expired
  <2> QED BY <2>1, <2>2 DEF Session, Greeted, Ungreeted, OneGreeting, LinkShape, Is
<1>9. CASE ReadHello
  <2>1. /\ toHost # <<>> /\ toHost' = Tail(toHost) /\ ready' = TRUE /\ pc = "loop"
        /\ pc' = "dispatch"
        /\ UNCHANGED <<proc, stopped, queue, current, owed, link, toFork, machine>>
    BY <1>9 DEF ReadHello, TakeMessage
  <2>2. OneGreeting'
    <3> SUFFICES ASSUME proc = "running", NEW i \in DOMAIN toHost'
                 PROVE  toHost'[i].type # "hello"
      BY <2>1 DEF OneGreeting, Is
    <3>1. i \in Nat /\ i + 1 \in DOMAIN toHost /\ i + 1 # 1 /\ toHost'[i] = toHost[i + 1]
      BY <2>1, TailIs DEF TypeOK
    <3> QED BY <3>1 DEF Session, Ungreeted, OneGreeting, Is, TypeOK
  <2>3. LinkShape'
    BY <2>1 DEF Session, LinkShape, Closing
  <2> QED BY <2>1, <2>2, <2>3 DEF Session, Ended, Greeted, Ungreeted, Expired
<1>10. CASE RefuseHello
  BY <1>10, EndSessionSession DEF RefuseHello, TakeMessage
<1>11. CASE ReadStatus \/ SwallowReply \/ CompleteCurrent
  <2>1. /\ toHost # <<>> /\ toHost' = Tail(toHost) /\ pc = "loop" /\ pc' \in {"loop", "dispatch"}
        /\ Head(toHost).type # "hello"
        /\ current' \in {current, NoCmd}
        /\ UNCHANGED <<proc, ready, queue, link, toFork, machine>>
    BY <1>11 DEF ReadStatus, SwallowReply, CompleteCurrent, TakeMessage
  <2>2. proc = "running" => ready
    BY <2>1, TailIs DEF Session, Ungreeted, TypeOK
  <2>3. OneGreeting'
    <3> SUFFICES ASSUME proc = "running", NEW i \in DOMAIN toHost'
                 PROVE  toHost'[i].type # "hello"
      BY <2>1 DEF OneGreeting, Is
    <3>1. i + 1 \in DOMAIN toHost /\ toHost'[i] = toHost[i + 1]
      BY <2>1, TailIs DEF TypeOK
    <3> QED BY <2>2, <3>1 DEF Session, OneGreeting, Is
  <2>4. LinkShape'
    BY <2>1 DEF Session, LinkShape, Closing
  <2> QED BY <2>1, <2>2, <2>3, <2>4 DEF Session, Ended, Greeted, Ungreeted, Expired
<1>12. CASE ReadStderr
  <2>1. UNCHANGED <<proc, pc, ready, stopped, queue, current, owed, machine, link, toFork, toHost>>
    BY <1>12 DEF ReadStderr
  <2> QED BY <2>1 DEF Session, Ended, Greeted, Ungreeted, OneGreeting, LinkShape, Closing,
                      Expired, Is
<1>13. CASE CommandTimeout
  <2>1. /\ current # NoCmd /\ pc = "loop" /\ pc' = "expired" /\ current' = NoCmd
        /\ UNCHANGED <<proc, ready, stopped, queue, owed, link, toFork, toHost, machine>>
    BY <1>13 DEF CommandTimeout, forkVars
  <2>2. proc = "running" /\ ready
    BY <2>1 DEF Session, Greeted
  <2> QED BY <2>1, <2>2 DEF Session, Ended, Greeted, Ungreeted, OneGreeting, LinkShape,
                            Closing, Expired, Is
<1> QED BY <1>1, <1>2, <1>3, <1>4, <1>5, <1>6, <1>7, <1>8, <1>9, <1>10, <1>11, <1>12, <1>13
        DEF Host

LEMMA ForkSession ==
  ASSUME TypeOK, Session, Fork
  PROVE  Session'
<1> USE DEF Running, Have
<1>1. CASE ForkServes
  <2>1. /\ link = "open" /\ toFork # <<>>
        /\ UNCHANGED <<proc, pc, ready, stopped, queue, current, owed, link>>
    BY <1>1 DEF ForkServes, hostVars
  <2>4. PICK ok \in BOOLEAN : toHost' = Append(toHost, Reply(Head(toFork).id, ok))
    BY <1>1 DEF ForkServes
  <2>2. proc = "running" => ready
    BY <2>1 DEF Session, Ungreeted
  <2>3. OneGreeting'
    <3> SUFFICES ASSUME proc = "running", NEW i \in DOMAIN toHost'
                 PROVE  toHost'[i].type # "hello"
      BY <2>1 DEF OneGreeting, Is
    <3>1. Reply(Head(toFork).id, ok) \in Messages /\ Reply(Head(toFork).id, ok).type = "reply"
      BY <2>1, TailIs, RequestsAre, MessagesAre DEF TypeOK, Reply
    <3>2. (i \in DOMAIN toHost /\ toHost'[i] = toHost[i]) \/ toHost'[i] = Reply(Head(toFork).id, ok)
      BY <2>4, <3>1, AppendIs DEF TypeOK
    <3> QED BY <2>2, <3>1, <3>2 DEF Session, OneGreeting, Is
  <2> QED BY <2>1, <2>2, <2>3 DEF Session, Ended, Greeted, Ungreeted, LinkShape, Closing, Expired
<1>2. CASE ForkRuns \/ ForkStops
  <2>1. PICK b \in BOOLEAN : Notify(b)
    BY <1>2 DEF ForkRuns, ForkStops
  <2>2. /\ UNCHANGED <<proc, pc, ready, stopped, queue, current, owed, link, toFork>>
        /\ machine' # "leaving"
    BY <1>2 DEF ForkRuns, ForkStops, hostVars
  <2>3. CASE link = "open"
    <3>1. toHost' = Append(toHost, Status(b)) /\ Status(b) \in Messages /\ Status(b).type = "status"
      BY <2>1, <2>3, MessagesAre DEF Notify, Status
    <3>2. /\ toHost' # <<>>
          /\ \A i \in DOMAIN toHost' : IF i \in DOMAIN toHost THEN toHost'[i] = toHost[i]
                                       ELSE i = Len(toHost) + 1 /\ toHost'[i] = Status(b)
      BY <3>1, AppendIs, EmptySeq DEF TypeOK
    <3>3. Ungreeted'
      <4> SUFFICES ASSUME proc = "running", ~ready, NEW i \in DOMAIN toHost'
                   PROVE  toHost'[i].type = IF i = 1 THEN "hello" ELSE "status"
        BY <2>2, <3>2 DEF Session, Ungreeted
      <4>1. toHost # <<>> /\ Len(toHost) \in Nat \ {0}
        BY <2>3, EmptySeq DEF Session, Ungreeted, TypeOK
      <4>2. i \notin DOMAIN toHost => i # 1
        BY <3>2, <4>1
      <4> QED BY <3>1, <3>2, <4>2 DEF Session, Ungreeted
    <3>4. OneGreeting'
      BY <2>2, <3>1, <3>2 DEF Session, OneGreeting, Is
    <3> QED BY <2>2, <2>3, <3>3, <3>4 DEF Session, Ended, Greeted, LinkShape, Closing, Expired
  <2>4. CASE link # "open"
    <3>1. toHost' = toHost
      BY <2>1, <2>4 DEF Notify
    <3> QED BY <2>2, <3>1 DEF Session, Ended, Greeted, Ungreeted, OneGreeting, LinkShape,
                              Closing, Expired, Is
  <2> QED BY <2>3, <2>4
<1>3. CASE DropLink \/ EmuExits
  <2>1. /\ toHost' \in {toHost, <<>>} /\ toFork' = <<>>
        /\ link' \in {link, "lost"}
        /\ link' = "open" => FALSE
        /\ UNCHANGED <<proc, pc, ready, stopped, queue, current, owed, machine>>
    BY <1>3 DEF DropLink, EmuExits, hostVars
  <2>2. \A i \in DOMAIN toHost' : i \in DOMAIN toHost /\ toHost'[i] = toHost[i]
    BY <2>1
  <2> QED BY <2>1, <2>2 DEF Session, Ended, Greeted, Ungreeted, OneGreeting, LinkShape, Closing,
                            Expired, Is
<1> QED BY <1>1, <1>2, <1>3 DEF Fork

LEMMA SessionStep ==
  ASSUME TypeOK, Session, [Next]_vars
  PROVE  Session'
<1>1. CASE Start
  <2>1. /\ proc' = "running" /\ ready' = FALSE /\ stopped' = FALSE /\ queue' = <<>>
        /\ current' = NoCmd /\ owed' = FALSE /\ link' = "closed" /\ toFork' = <<>>
        /\ toHost' = <<>> /\ machine' = "run" /\ pc' = "loop"
    BY <1>1 DEF Start
  <2> QED BY <2>1 DEF Session, Ended, Greeted, Ungreeted, OneGreeting, LinkShape, Running, Have,
                      Closing, Expired
<1>2. CASE Stop
  BY <1>2, EndSessionSession DEF Stop
<1>3. CASE UNCHANGED vars
  BY <1>3 DEF vars, hostVars, forkVars, Session, Ended, Greeted, Ungreeted, OneGreeting,
              LinkShape, Running, Have, Closing, Expired, Is
<1> QED BY <1>1, <1>2, <1>3, UserSession, HostSession, ForkSession DEF Next

LEMMA AliveRunsStep ==
  ASSUME AliveRuns, [Next]_vars
  PROVE  AliveRuns'
<1> USE DEF AliveRuns, Running
<1>1. CASE Start \/ Stop
  BY <1>1 DEF Start, Stop, EndSession
<1>2. CASE User
  <2>1. UNCHANGED <<proc, alive>>
    BY <1>2 DEF User, Enqueue, Refresh, Resume, StepOver, Pause, Accept, forkVars
  <2> QED BY <2>1
<1>3. CASE Host
  <2>1. CASE HandshakeTimeout \/ RefuseHello
    BY <2>1 DEF HandshakeTimeout, RefuseHello, EndSession
  <2>2. CASE AfterDisconnect
    BY <2>2 DEF AfterDisconnect, EndSession
  <2>3. CASE ProcessFinished
    BY <2>3 DEF ProcessFinished, forkVars
  <2>4. CASE Connect \/ Disconnected \/ RecordOwed \/ DispatchNothing \/ CommandTimeout
    BY <2>4 DEF Connect, Disconnected, RecordOwed, DispatchNothing, CommandTimeout, forkVars
  <2>5. CASE DispatchNext \/ ReadHello \/ ReadStatus
    BY <2>5 DEF DispatchNext, ReadHello, ReadStatus
  <2>6. CASE SwallowReply \/ CompleteCurrent \/ ReadStderr
    BY <2>6 DEF SwallowReply, CompleteCurrent, ReadStderr
  <2> QED BY <1>3, <2>1, <2>2, <2>3, <2>4, <2>5, <2>6 DEF Host
<1>4. CASE Fork
  BY <1>4 DEF Fork, ForkServes, ForkRuns, ForkStops, DropLink, EmuExits
<1>5. CASE UNCHANGED vars
  BY <1>5 DEF vars, forkVars
<1> QED BY <1>1, <1>2, <1>3, <1>4, <1>5 DEF Next

LEMMA ReentryStep ==
  ASSUME TypeOK, Reentry, [Next]_vars
  PROVE  Reentry'
<1> USE DEF Reentry
<1>1. CASE Start \/ Stop
  BY <1>1 DEF Start, Stop
<1>2. CASE User
  <2>1. reentrant' = reentrant /\ pc' = Sending[pc] /\ (pc \in {"loop", "dispatch"} \/ reentrant)
    BY <1>2 DEF User, Enqueue, Refresh, Resume, StepOver, Pause, Accept
  <2> QED BY <2>1 DEF Sending
<1>3. CASE Host
  <2>1. CASE HandshakeTimeout \/ RefuseHello
    BY <2>1 DEF HandshakeTimeout, RefuseHello, TakeMessage
  <2>2. CASE Connect
    BY <2>2 DEF Connect
  <2>3. CASE DispatchNext \/ DispatchNothing
    <3>1. pc' \in {"loop", "expired", "closing"}
      BY <2>3, ReturnsAre DEF DispatchNext, DispatchNothing
    <3> QED BY <3>1
  <2>4. CASE AfterDisconnect \/ ProcessFinished \/ Disconnected \/ RecordOwed \/ CommandTimeout
    BY <2>4 DEF AfterDisconnect, ProcessFinished, Disconnected, RecordOwed, CommandTimeout
  <2>5. CASE ReadHello \/ ReadStatus \/ SwallowReply \/ CompleteCurrent \/ ReadStderr
    BY <2>5 DEF ReadHello, ReadStatus, SwallowReply, CompleteCurrent, ReadStderr, TakeMessage
  <2> QED BY <1>3, <2>1, <2>2, <2>3, <2>4, <2>5 DEF Host
<1>4. CASE Fork
  BY <1>4 DEF Fork, ForkServes, ForkRuns, ForkStops, DropLink, EmuExits, boundVars
<1>5. CASE UNCHANGED vars
  BY <1>5 DEF vars, boundVars
<1> QED BY <1>1, <1>2, <1>3, <1>4, <1>5 DEF Next

-----------------------------------------------------------------------------
(* The reply that is outstanding.                                           *)

(* Nothing that bears on the outstanding reply changes.                     *)
RepliesAlone ==
  /\ UNCHANGED <<proc, ready, current, owed, link, toFork, toHost, reentrant, late>>
  /\ (Closing' <=> Closing) /\ (Expired' <=> Expired)

LEMMA OutstandingAlone ==
  ASSUME Outstanding, RepliesAlone
  PROVE  Outstanding'
BY DEF Outstanding, RepliesAlone, Orderly, Running, Waiting, Have, Is

LEMMA OutstandingNone ==
  ASSUME Orderly' => /\ toFork' = <<>> /\ ~Waiting'
                     /\ \A i \in DOMAIN toHost' : toHost'[i].type # "reply"
  PROVE  Outstanding'
BY DEF Outstanding, Waiting, Is

(* Before the greeting nothing is outstanding.                              *)
LEMMA NothingBeforeGreeting ==
  ASSUME Session, Running, ~ready
  PROVE  ~Waiting /\ toFork = <<>> /\ \A i \in DOMAIN toHost : toHost[i].type # "reply"
BY DEF Session, Greeted, Ungreeted, Waiting

(* A message that is no reply arrives, or is read.                          *)
LEMMA OutstandingRead ==
  ASSUME TypeOK, Outstanding, toHost # <<>>, toHost' = Tail(toHost),
         Head(toHost).type # "reply", Orderly' => Orderly, Waiting' <=> Waiting,
         Expired' <=> Expired,
         UNCHANGED <<current, owed, link, toFork>>
  PROVE  Outstanding'
<1> SUFFICES ASSUME Orderly'
             PROVE  Outstanding'
  BY DEF Outstanding
<1>1. ASSUME NEW i \in DOMAIN toHost'
      PROVE  i \in Nat /\ i + 1 \in DOMAIN toHost /\ toHost'[i] = toHost[i + 1]
  BY TailIs DEF TypeOK
<1>2. ASSUME NEW i \in DOMAIN toHost, toHost[i].type = "reply"
      PROVE  i \in Nat /\ i - 1 \in DOMAIN toHost' /\ toHost'[i - 1] = toHost[i]
  <2>1. i # 1 /\ i \in 1 .. Len(toHost)
    BY <1>2, TailIs DEF TypeOK
  <2>2. i - 1 \in 1 .. Len(toHost) - 1 /\ (i - 1) + 1 = i
    BY <2>1, TailIs DEF TypeOK
  <2> QED BY <2>1, <2>2, TailIs DEF TypeOK
<1>3. \A i, j \in DOMAIN toHost' : Is(i, "reply")' /\ Is(j, "reply")' => i = j
  <2> SUFFICES ASSUME NEW i \in DOMAIN toHost', NEW j \in DOMAIN toHost',
                      toHost'[i].type = "reply", toHost'[j].type = "reply"
               PROVE  i = j
    BY DEF Is
  <2>1. i + 1 = j + 1
    BY <1>1 DEF Outstanding, Is
  <2> QED BY <1>1, <2>1
<1>4. \A i \in DOMAIN toHost' : Is(i, "reply")' => toFork' = <<>> /\ Waiting'
  BY <1>1 DEF Outstanding, Is
<1>5. Waiting' /\ link' = "open" => toFork' # <<>> \/ \E i \in DOMAIN toHost' : Is(i, "reply")'
  BY <1>2 DEF Outstanding, Is
<1>6. Have' => \A i \in DOMAIN toHost' : Is(i, "reply")' => toHost'[i].id = current'.id
  BY <1>1 DEF Outstanding, Is, Have
<1>7. /\ Len(toFork') <= 1 /\ (toFork' # <<>> => Waiting')
      /\ Have' => ~owed' /\ ~Expired' /\ \A i \in DOMAIN toFork' : toFork'[i] = current'
      /\ owed' => ~Expired'
  BY DEF Outstanding, Have
<1> QED BY <1>3, <1>4, <1>5, <1>6, <1>7 DEF Outstanding

LEMMA OutstandingArrives ==
  ASSUME TypeOK, Outstanding, NEW b \in BOOLEAN, toHost' = Append(toHost, Status(b)),
         Orderly' => Orderly, Waiting' <=> Waiting, Expired' <=> Expired,
         UNCHANGED <<current, owed, link, toFork>>
  PROVE  Outstanding'
<1> SUFFICES ASSUME Orderly'
             PROVE  Outstanding'
  BY DEF Outstanding
<1>0. Status(b) \in Messages /\ Status(b).type = "status"
  BY MessagesAre DEF Status
<1>1. ASSUME NEW i, i \in DOMAIN toHost' /\ toHost'[i].type = "reply"
      PROVE  i \in DOMAIN toHost /\ toHost'[i] = toHost[i]
  BY <1>0, <1>1, AppendIs DEF TypeOK
<1>2. ASSUME NEW i \in DOMAIN toHost
      PROVE  i \in DOMAIN toHost' /\ toHost'[i] = toHost[i]
  BY <1>0, AppendIs DEF TypeOK
<1>3. \A i, j \in DOMAIN toHost' : Is(i, "reply")' /\ Is(j, "reply")' => i = j
  BY <1>1 DEF Outstanding, Is
<1>4. \A i \in DOMAIN toHost' : Is(i, "reply")' => toFork' = <<>> /\ Waiting'
  BY <1>1 DEF Outstanding, Is
<1>5. Waiting' /\ link' = "open" => toFork' # <<>> \/ \E i \in DOMAIN toHost' : Is(i, "reply")'
  BY <1>2 DEF Outstanding, Is
<1>6. Have' => \A i \in DOMAIN toHost' : Is(i, "reply")' => toHost'[i].id = current'.id
  BY <1>1 DEF Outstanding, Is, Have
<1>7. /\ Len(toFork') <= 1 /\ (toFork' # <<>> => Waiting')
      /\ Have' => ~owed' /\ ~Expired' /\ \A i \in DOMAIN toFork' : toFork'[i] = current'
      /\ owed' => ~Expired'
  BY DEF Outstanding, Have
<1> QED BY <1>3, <1>4, <1>5, <1>6, <1>7 DEF Outstanding

(* The one reply is read: none is left.                                     *)
LEMMA ReplyIsTheOne ==
  ASSUME TypeOK, Outstanding, Orderly, toHost # <<>>, toHost' = Tail(toHost),
         Head(toHost).type = "reply"
  PROVE  /\ toFork = <<>> /\ Waiting
         /\ \A i \in DOMAIN toHost' : toHost'[i].type # "reply"
         /\ Have => Head(toHost).id = current.id
<1>1. Head(toHost) = toHost[1] /\ 1 \in DOMAIN toHost
  BY TailIs DEF TypeOK
<1>2. ASSUME NEW i \in DOMAIN toHost', toHost'[i].type = "reply"
      PROVE  FALSE
  <2>1. i \in 1 .. Len(toHost) - 1 /\ i + 1 \in DOMAIN toHost /\ toHost'[i] = toHost[i + 1]
    BY <1>2, TailIs DEF TypeOK
  <2>2. i + 1 = 1
    BY <1>1, <1>2, <2>1 DEF Outstanding, Is
  <2> QED BY <2>1, <2>2
<1> QED BY <1>1, <1>2 DEF Outstanding, Is

LEMMA UserReplies ==
  ASSUME TypeOK, User
  PROVE  RepliesAlone /\ UNCHANGED <<answer, tail, pipe, spilled>>
<1>1. PICK reqs : Accept(reqs)
  BY DEF User, Enqueue, Refresh, Resume, StepOver, Pause
<1>2. (Closing' <=> Closing) /\ (Expired' <=> Expired)
  BY <1>1, PhasesAre DEF Accept, TypeOK
<1> QED BY <1>1, <1>2 DEF RepliesAlone, Accept, forkVars

(* When a request goes out nothing was outstanding.                         *)
LEMMA DispatchClear ==
  ASSUME TypeOK, Session, Reentry, Outstanding, DispatchNext, Orderly'
  PROVE  /\ Orderly /\ ~Waiting /\ toFork = <<>> /\ ~Expired' /\ ~Expired
         /\ \A i \in DOMAIN toHost : toHost[i].type # "reply"
<1>1. /\ (Closing' <=> Closing) /\ (Expired' <=> Expired)
      /\ UNCHANGED <<proc, ready, reentrant, late>> /\ ready /\ ~Have /\ ~owed
  BY ReturnsAre DEF DispatchNext, MayDispatch, boundVars
<1>2. Orderly
  BY <1>1 DEF Orderly, Running
<1>3. ~Expired
  BY <1>2 DEF Reentry, Expired, Orderly, DispatchNext, Returning
<1>4. ~Waiting
  BY <1>1, <1>3 DEF Waiting
<1> QED BY <1>1, <1>2, <1>3, <1>4 DEF Outstanding, Is

LEMMA HostOutstanding ==
  ASSUME TypeOK, Session, Reentry, Outstanding, OwedIsLate, Host
  PROVE  Outstanding'
<1> USE DEF Running, Have
<1>1. CASE Connect
  <2>1. /\ proc = "running" /\ ~ready /\ pc = "loop" /\ UNCHANGED <<pc, current, owed>>
        /\ toFork' = <<>>
    BY <1>1 DEF Connect, hostVars
  <2>2. PICK ok \in BOOLEAN : toHost' = <<Hello(ok), Status(machine = "stopped")>>
    BY <1>1 DEF Connect
  <2>3. \A i \in DOMAIN toHost' : toHost'[i].type # "reply"
    BY <2>2 DEF Hello, Status
  <2>4. ~Waiting
    BY <2>1, NothingBeforeGreeting
  <2> QED BY <2>1, <2>3, <2>4, OutstandingNone DEF Waiting, Expired
<1>2. CASE HandshakeTimeout \/ RefuseHello
  <2>1. proc' = "none"
    BY <1>2 DEF HandshakeTimeout, RefuseHello, EndSession
  <2> QED BY <2>1 DEF Outstanding, Orderly
<1>3. CASE ProcessFinished
  BY <1>3 DEF ProcessFinished, Outstanding, Orderly
<1>4. CASE Disconnected
  <2> SUFFICES ASSUME Orderly'
               PROVE  toFork' = <<>> /\ ~Waiting'
                      /\ \A i \in DOMAIN toHost' : toHost'[i].type # "reply"
    BY OutstandingNone
  <2>1. /\ pc' = "closing" /\ proc = "running" /\ current' = NoCmd /\ pc = "loop"
        /\ UNCHANGED <<ready, owed, toFork, toHost>>
    BY <1>4 DEF Disconnected, forkVars
  <2>2. ~ready
    BY <2>1 DEF Orderly, Closing
  <2> QED BY <2>1, <2>2, NothingBeforeGreeting DEF Waiting, Expired
<1>5. CASE AfterDisconnect
  <2>1. CASE EndSession
    BY <2>1 DEF EndSession, Outstanding, Orderly
  <2>2. CASE ~EndSession
    <3>1. /\ pc = "closing" /\ pc' = "loop" /\ ~ready
          /\ UNCHANGED <<current, owed, toFork, toHost>>
      BY <1>5, <2>2 DEF AfterDisconnect
    <3>2. proc = "running"
      BY <3>1 DEF Session, LinkShape, Closing
    <3> QED BY <3>1, <3>2, NothingBeforeGreeting, OutstandingNone DEF Waiting, Expired
  <2> QED BY <2>1, <2>2
<1>6. CASE RecordOwed
  <2>1. /\ pc = "expired" /\ pc' = "loop" /\ owed' = TRUE /\ late' = TRUE
        /\ UNCHANGED <<proc, ready, current, link, toFork, toHost, reentrant>>
    BY <1>6 DEF RecordOwed, forkVars, boundVars
  <2>2. Orderly' => Orderly /\ ~reentrant
    BY <2>1 DEF Orderly, Closing
  <2>3. Waiting /\ Waiting' /\ Expired /\ ~Expired'
    BY <2>1 DEF Waiting, Expired
  <2> QED BY <2>1, <2>2, <2>3 DEF Outstanding, Is
<1>7. CASE DispatchNext
  <2> SUFFICES ASSUME Orderly'
               PROVE  Outstanding'
    BY DEF Outstanding
  <2>1. /\ ~Waiting /\ toFork = <<>> /\ ~Expired'
        /\ \A i \in DOMAIN toHost : toHost[i].type # "reply"
    BY <1>7, DispatchClear
  <2>2. PICK i \in DOMAIN queue : current' = queue[i]
    BY <1>7 DEF DispatchNext, Sendable
  <2>3. current' \in Requests /\ current' # NoCmd
    BY <2>2, NoCmdIsNone DEF TypeOK
  <2>4. toFork' = <<current'>>
    BY <1>7, <2>1 DEF DispatchNext
  <2>5. UNCHANGED <<owed, toHost>> /\ ~owed
    BY <1>7 DEF DispatchNext, MayDispatch
  <2> QED BY <2>1, <2>3, <2>4, <2>5 DEF Outstanding, Waiting, Is
<1>8. CASE DispatchNothing
  <2>1. (Closing' <=> Closing) /\ (Expired' <=> Expired)
    BY <1>8, ReturnsAre DEF DispatchNothing
  <2>2. RepliesAlone
    BY <1>8, <2>1 DEF DispatchNothing, RepliesAlone, hostVars, forkVars, boundVars
  <2> QED BY <2>2, OutstandingAlone
<1>9. CASE ReadHello
  <2>1. /\ toHost # <<>> /\ toHost' = Tail(toHost) /\ Head(toHost).type = "hello"
        /\ pc' = "dispatch" /\ pc = "loop"
        /\ UNCHANGED <<proc, current, owed, toFork>>
    BY <1>9 DEF ReadHello, TakeMessage
  <2> SUFFICES ASSUME Orderly'
               PROVE  toFork' = <<>> /\ ~Waiting'
                      /\ \A i \in DOMAIN toHost' : toHost'[i].type # "reply"
    BY OutstandingNone
  <2>2. proc = "running" /\ ~ready
    BY <2>1, TailIs DEF Orderly, Session, OneGreeting, Is, TypeOK
  <2>3. ~Waiting /\ toFork = <<>> /\ \A i \in DOMAIN toHost : toHost[i].type # "reply"
    BY <2>2, NothingBeforeGreeting
  <2>4. \A i \in DOMAIN toHost' : i + 1 \in DOMAIN toHost /\ toHost'[i] = toHost[i + 1]
    BY <2>1, TailIs DEF TypeOK
  <2> QED BY <2>1, <2>3, <2>4 DEF Waiting, Expired
<1>10. CASE ReadStatus
  <2>1. /\ toHost # <<>> /\ toHost' = Tail(toHost) /\ Head(toHost).type = "status"
        /\ pc = "loop" /\ pc' \in {"loop", "dispatch"}
        /\ UNCHANGED <<proc, ready, current, owed, link, toFork, reentrant, late>>
    BY <1>10 DEF ReadStatus, TakeMessage, boundVars
  <2>2. (Orderly' => Orderly) /\ (Waiting' <=> Waiting) /\ (Expired' <=> Expired)
    BY <2>1 DEF Orderly, Waiting, Expired, Closing
  <2> QED BY <2>1, <2>2, OutstandingRead
<1>11. CASE SwallowReply \/ CompleteCurrent
  <2>1. /\ toHost # <<>> /\ toHost' = Tail(toHost) /\ Head(toHost).type = "reply"
        /\ pc = "loop" /\ pc' \in {"loop", "dispatch"}
        /\ UNCHANGED <<proc, ready, toFork, reentrant, late>>
    BY <1>11 DEF SwallowReply, CompleteCurrent, TakeMessage, boundVars
  <2>2. CASE ~Orderly
    BY <2>1, <2>2 DEF Outstanding, Orderly, Closing, Expired
  <2>3. CASE Orderly
    <3>1. toFork = <<>> /\ Waiting /\ \A i \in DOMAIN toHost' : toHost'[i].type # "reply"
      BY <2>1, <2>3, ReplyIsTheOne
    <3>2. owed => current = NoCmd
      BY <2>3 DEF Outstanding
    <3>3. current' = NoCmd /\ ~owed'
      BY <1>11, <2>1, <3>1, <3>2 DEF SwallowReply, CompleteCurrent, Waiting, Expired
    <3> QED BY <2>1, <3>1, <3>3, OutstandingNone DEF Waiting, Expired
  <2> QED BY <2>2, <2>3
<1>12. CASE ReadStderr
  <2>1. RepliesAlone
    BY <1>12 DEF ReadStderr, RepliesAlone, boundVars, Closing, Expired
  <2> QED BY <2>1, OutstandingAlone
<1>13. CASE CommandTimeout
  <2>1. /\ current # NoCmd /\ pc = "loop" /\ pc' = "expired" /\ current' = NoCmd
        /\ UNCHANGED <<proc, ready, owed, link, toFork, toHost, reentrant, late>>
    BY <1>13 DEF CommandTimeout, forkVars, boundVars
  <2>2. Orderly' => Orderly
    BY <2>1 DEF Orderly, Closing, Expired
  <2>3. Waiting /\ Waiting' /\ Expired'
    BY <2>1 DEF Waiting, Expired
  <2> QED BY <2>1, <2>2, <2>3 DEF Outstanding, Is
<1> QED BY <1>1, <1>2, <1>3, <1>4, <1>5, <1>6, <1>7, <1>8, <1>9, <1>10, <1>11, <1>12, <1>13
        DEF Host

LEMMA ForkOutstanding ==
  ASSUME TypeOK, Outstanding, Fork
  PROVE  Outstanding'
<1> USE DEF Running, Have
<1>0. /\ UNCHANGED <<proc, pc, ready, current, owed, reentrant, late>>
      /\ (Orderly' <=> Orderly) /\ (Waiting' <=> Waiting) /\ (Expired' <=> Expired)
  <2>1. UNCHANGED <<proc, pc, ready, current, owed, reentrant, late>>
    BY DEF Fork, ForkServes, ForkRuns, ForkStops, DropLink, EmuExits, hostVars, boundVars
  <2> QED BY <2>1 DEF Orderly, Waiting, Expired, Closing
<1>1. CASE ForkServes
  <2> SUFFICES ASSUME Orderly
               PROVE  Outstanding'
    BY <1>0 DEF Outstanding
  <2>1. toFork # <<>> /\ toFork' = Tail(toFork)
    BY <1>1 DEF ForkServes
  <2>9. PICK ok \in BOOLEAN : toHost' = Append(toHost, Reply(Head(toFork).id, ok))
    BY <1>1 DEF ForkServes
  <2>2. /\ Head(toFork) = toFork[1] /\ 1 \in DOMAIN toFork /\ Head(toFork).id \in Nat
        /\ Tail(toFork) = <<>>
    <3>1. /\ Head(toFork) = toFork[1] /\ 1 \in DOMAIN toFork /\ Head(toFork) \in Requests
          /\ Len(Tail(toFork)) = Len(toFork) - 1 /\ Len(toFork) \in Nat \ {0}
          /\ Tail(toFork) \in Seq(Requests)
      BY <2>1, TailIs DEF TypeOK
    <3>2. Len(Tail(toFork)) = 0
      BY <3>1 DEF Outstanding
    <3> QED BY <3>1, <3>2, RequestsAre, EmptySeq
  <2>3. \A i \in DOMAIN toHost : toHost[i].type # "reply"
    BY <2>1 DEF Outstanding, Is
  <2>4. /\ \A i \in DOMAIN toHost' : toHost'[i].type = "reply" =>
             i = Len(toHost) + 1 /\ toHost'[i] = Reply(Head(toFork).id, ok)
        /\ Len(toHost) + 1 \in DOMAIN toHost'
        /\ toHost'[Len(toHost) + 1] = Reply(Head(toFork).id, ok)
    <3>1. Reply(Head(toFork).id, ok) \in Messages
      BY <2>2, MessagesAre
    <3> QED BY <2>9, <2>3, <3>1, AppendIs DEF TypeOK
  <2>5. Reply(Head(toFork).id, ok).type = "reply" /\ Reply(Head(toFork).id, ok).id = Head(toFork).id
    BY DEF Reply
  <2>6. Waiting /\ (current # NoCmd => Head(toFork) = current)
    BY <2>1, <2>2 DEF Outstanding
  <2>7. current # NoCmd => ~owed /\ ~Expired
    BY DEF Outstanding
  <2>8. owed => ~Expired
    BY DEF Outstanding
  <2> QED BY <1>0, <2>1, <2>2, <2>4, <2>5, <2>6, <2>7, <2>8 DEF Outstanding, Is
<1>2. CASE ForkRuns \/ ForkStops
  <2>1. PICK b \in BOOLEAN : Notify(b)
    BY <1>2 DEF ForkRuns, ForkStops
  <2>2. UNCHANGED <<link, toFork>>
    BY <1>2 DEF ForkRuns, ForkStops
  <2>3. CASE link = "open"
    BY <1>0, <2>1, <2>2, <2>3, OutstandingArrives DEF Notify
  <2>4. CASE link # "open"
    <3>1. toHost' = toHost
      BY <2>1, <2>4 DEF Notify
    <3> QED BY <1>0, <2>2, <3>1 DEF Outstanding, Is
  <2> QED BY <2>3, <2>4
<1>3. CASE DropLink \/ EmuExits
  <2>1. /\ toHost' \in {toHost, <<>>} /\ toFork' = <<>> /\ link' # "open"
    BY <1>3 DEF DropLink, EmuExits
  <2>2. \A i \in DOMAIN toHost' : i \in DOMAIN toHost /\ toHost'[i] = toHost[i]
    BY <2>1
  <2> QED BY <1>0, <2>1, <2>2 DEF Outstanding, Is
<1> QED BY <1>1, <1>2, <1>3 DEF Fork

LEMMA OutstandingStep ==
  ASSUME TypeOK, Session, Reentry, Outstanding, OwedIsLate, [Next]_vars
  PROVE  Outstanding'
<1>1. CASE Start
  <2>1. /\ current' = NoCmd /\ owed' = FALSE /\ toFork' = <<>> /\ toHost' = <<>> /\ pc' = "loop"
    BY <1>1 DEF Start
  <2> QED BY <2>1, OutstandingNone DEF Waiting, Have, Expired
<1>2. CASE Stop
  BY <1>2 DEF Stop, EndSession, Outstanding, Orderly, Running
<1>3. CASE User
  BY <1>3, UserReplies, OutstandingAlone
<1>4. CASE UNCHANGED vars
  <2>1. RepliesAlone
    BY <1>4 DEF RepliesAlone, vars, hostVars, forkVars, boundVars, Closing, Expired
  <2> QED BY <2>1, OutstandingAlone
<1> QED BY <1>1, <1>2, <1>3, <1>4, HostOutstanding, ForkOutstanding DEF Next

LEMMA OwedIsLateStep ==
  ASSUME OwedIsLate, [Next]_vars
  PROVE  OwedIsLate'
<1> USE DEF OwedIsLate
<1>1. CASE Start \/ Stop
  BY <1>1 DEF Start, Stop, EndSession
<1>2. CASE User
  <2>1. UNCHANGED <<owed, late>>
    BY <1>2 DEF User, Enqueue, Refresh, Resume, StepOver, Pause, Accept
  <2> QED BY <2>1
<1>3. CASE Host
  <2>1. CASE HandshakeTimeout \/ RefuseHello
    BY <2>1 DEF HandshakeTimeout, RefuseHello, EndSession
  <2>2. CASE AfterDisconnect
    BY <2>2 DEF AfterDisconnect, EndSession
  <2>3. CASE ProcessFinished \/ Disconnected
    BY <2>3 DEF ProcessFinished, Disconnected
  <2>4. CASE Connect \/ RecordOwed \/ DispatchNothing \/ CommandTimeout
    BY <2>4 DEF Connect, RecordOwed, DispatchNothing, CommandTimeout, hostVars
  <2>5. CASE DispatchNext \/ ReadHello \/ ReadStatus
    BY <2>5 DEF DispatchNext, ReadHello, ReadStatus
  <2>6. CASE SwallowReply \/ CompleteCurrent \/ ReadStderr
    BY <2>6 DEF SwallowReply, CompleteCurrent, ReadStderr
  <2> QED BY <1>3, <2>1, <2>2, <2>3, <2>4, <2>5, <2>6 DEF Host
<1>4. CASE Fork
  BY <1>4 DEF Fork, ForkServes, ForkRuns, ForkStops, DropLink, EmuExits, hostVars
<1>5. CASE UNCHANGED vars
  BY <1>5 DEF vars, hostVars
<1> QED BY <1>1, <1>2, <1>3, <1>4, <1>5 DEF Next

(* Stderr and the fork hold no more than they did.                          *)
LEMMA PrintedAlone ==
  ASSUME Printed, Orderly' => Orderly, UNCHANGED <<current, spilled>>,
         tail' \union pipe' \subseteq tail \union pipe, toFork' \in {toFork, <<>>}
  PROVE  Printed'
BY DEF Printed, Have

LEMMA PrintedNothing ==
  ASSUME tail' = {}, pipe' = {}, toFork' = <<>>
  PROVE  Printed'
BY DEF Printed

LEMMA HostPrinted ==
  ASSUME TypeOK, Session, Reentry, Outstanding, OwedIsLate, Printed, Host
  PROVE  Printed'
<1> USE DEF Running, Have
<1>1. CASE Connect \/ DispatchNothing
  <2>1. (Closing' <=> Closing) /\ (Expired' <=> Expired)
    <3>1. CASE Connect
      BY <3>1 DEF Connect, Closing, Expired
    <3>2. CASE DispatchNothing
      BY <3>2, ReturnsAre DEF DispatchNothing
    <3> QED BY <1>1, <3>1, <3>2
  <2>2. /\ UNCHANGED <<proc, ready, current, tail, pipe, reentrant, late, spilled>>
        /\ toFork' \in {toFork, <<>>}
    BY <1>1 DEF Connect, DispatchNothing, hostVars, forkVars, boundVars
  <2> QED BY <2>1, <2>2, PrintedAlone DEF Orderly
<1>2. CASE HandshakeTimeout \/ RefuseHello
  BY <1>2, PrintedNothing DEF HandshakeTimeout, RefuseHello, EndSession
<1>3. CASE ProcessFinished
  BY <1>3 DEF ProcessFinished, Printed, Orderly
<1>4. CASE Disconnected
  <2> SUFFICES ASSUME Orderly'
               PROVE  Printed'
    BY DEF Printed
  <2>1. /\ pc' = "closing" /\ proc = "running" /\ current' = NoCmd /\ pc = "loop"
        /\ UNCHANGED <<proc, ready, tail, pipe, toFork, reentrant, late, spilled>>
    BY <1>4 DEF Disconnected, forkVars, boundVars
  <2>2. ~ready
    BY <2>1 DEF Orderly, Closing
  <2>3. current = NoCmd
    BY <2>2 DEF Session, Greeted
  <2> QED BY <2>1, <2>2, <2>3, PrintedAlone DEF Orderly, Expired, Closing
<1>5. CASE AfterDisconnect
  <2>1. CASE EndSession
    BY <2>1, PrintedNothing DEF EndSession
  <2>2. CASE ~EndSession
    <3>1. /\ pc = "closing" /\ pc' = "loop" /\ ~ready
          /\ UNCHANGED <<proc, ready, current, tail, pipe, toFork, reentrant, late, spilled>>
      BY <1>5, <2>2 DEF AfterDisconnect, boundVars
    <3> QED BY <3>1, PrintedAlone DEF Orderly, Expired, Closing
  <2> QED BY <2>1, <2>2
<1>6. CASE RecordOwed
  <2>1. /\ pc = "expired" /\ pc' = "loop" /\ late' = TRUE
        /\ UNCHANGED <<proc, ready, current, tail, pipe, toFork, reentrant, spilled>>
    BY <1>6 DEF RecordOwed, forkVars, boundVars
  <2> QED BY <2>1, PrintedAlone DEF Orderly, Expired, Closing
<1>7. CASE DispatchNext
  <2> SUFFICES ASSUME Orderly'
               PROVE  Printed'
    BY DEF Printed
  <2>1. Orderly /\ ~Waiting
    BY <1>7, DispatchClear
  <2>2. tail \union pipe \subseteq spilled
    BY <2>1 DEF Printed, Waiting
  <2>3. tail' \union pipe' \subseteq spilled'
    BY <1>7, <2>2 DEF DispatchNext
  <2>4. current' # NoCmd
    <3>1. PICK i \in DOMAIN queue : current' = queue[i]
      BY <1>7 DEF DispatchNext, Sendable
    <3> QED BY <3>1, NoCmdIsNone DEF TypeOK
  <2> QED BY <2>3, <2>4 DEF Printed
<1>8. CASE ReadHello \/ ReadStatus \/ SwallowReply
  <2>1. /\ pc = "loop" /\ pc' \in {"loop", "dispatch"}
        /\ UNCHANGED <<proc, current, tail, pipe, toFork, reentrant, late, spilled>>
    BY <1>8 DEF ReadHello, ReadStatus, SwallowReply, TakeMessage, boundVars
  <2> QED BY <2>1, PrintedAlone DEF Orderly, Closing, Expired
<1>9. CASE CompleteCurrent
  <2> SUFFICES ASSUME Orderly'
               PROVE  Printed'
    BY DEF Printed
  <2>1. /\ pc = "loop" /\ pc' \in {"loop", "dispatch"}
        /\ toHost # <<>> /\ toHost' = Tail(toHost) /\ Head(toHost).type = "reply"
        /\ UNCHANGED <<proc, ready, toFork, reentrant, late>>
    BY <1>9 DEF CompleteCurrent, TakeMessage, boundVars
  <2>2. Orderly
    BY <2>1 DEF Orderly, Closing, Expired
  <2>3. toFork' = <<>>
    BY <2>1, <2>2, ReplyIsTheOne
  <2>4. CASE current # NoCmd /\ Captures(current) /\ Head(toHost).flag
    BY <1>9, <2>3, <2>4, PrintedNothing DEF CompleteCurrent
  <2>5. CASE current # NoCmd /\ ~(Captures(current) /\ Head(toHost).flag)
    <3>1. UNCHANGED <<tail, pipe>> /\ spilled' = spilled \union {current.id}
      BY <1>9, <2>5 DEF CompleteCurrent, Unread
    <3> QED BY <2>2, <2>3, <2>5, <3>1 DEF Printed
  <2>6. CASE current = NoCmd
    <3>1. UNCHANGED <<current, tail, pipe, spilled>>
      BY <1>9, <2>6 DEF CompleteCurrent
    <3> QED BY <2>2, <2>3, <3>1, PrintedAlone
  <2> QED BY <2>4, <2>5, <2>6
<1>10. CASE ReadStderr
  <2>1. /\ tail' \union pipe' = tail \union pipe
        /\ UNCHANGED <<proc, pc, ready, current, toFork, reentrant, late, spilled>>
    BY <1>10 DEF ReadStderr, boundVars
  <2> QED BY <2>1, PrintedAlone DEF Orderly, Closing, Expired
<1>11. CASE CommandTimeout
  <2> SUFFICES ASSUME Orderly'
               PROVE  Printed'
    BY DEF Printed
  <2>1. /\ current # NoCmd /\ pc = "loop" /\ pc' = "expired" /\ current' = NoCmd
        /\ spilled' = spilled \union {current.id}
        /\ UNCHANGED <<proc, ready, tail, pipe, toFork, reentrant, late>>
    BY <1>11 DEF CommandTimeout, Unread, forkVars, boundVars
  <2>2. Orderly
    BY <2>1 DEF Orderly, Closing, Expired
  <2>3. \A j \in DOMAIN toFork : toFork[j] = current
    BY <2>1, <2>2 DEF Outstanding
  <2> QED BY <2>1, <2>2, <2>3 DEF Printed
<1> QED BY <1>1, <1>2, <1>3, <1>4, <1>5, <1>6, <1>7, <1>8, <1>9, <1>10, <1>11 DEF Host

LEMMA PrintedStep ==
  ASSUME TypeOK, Session, Reentry, Outstanding, OwedIsLate, Printed, [Next]_vars
  PROVE  Printed'
<1>1. CASE Start \/ Stop
  BY <1>1, PrintedNothing DEF Start, Stop, EndSession
<1>2. CASE User
  <2>1. RepliesAlone /\ UNCHANGED <<tail, pipe, spilled>>
    BY <1>2, UserReplies
  <2> QED BY <2>1, PrintedAlone DEF RepliesAlone, Orderly, Running
<1>3. CASE Fork
  <2>1. UNCHANGED <<proc, pc, ready, current, tail, reentrant, late, spilled>>
    BY <1>3 DEF Fork, ForkServes, ForkRuns, ForkStops, DropLink, EmuExits, hostVars, boundVars
  <2>2. Orderly' <=> Orderly
    BY <2>1 DEF Orderly, Closing, Expired, Running
  <2>3. CASE ForkServes
    <3> SUFFICES ASSUME Orderly
                 PROVE  Printed'
      BY <2>2 DEF Printed
    <3>1. /\ toFork # <<>> /\ toFork' = Tail(toFork)
          /\ pipe' \subseteq pipe \union {Head(toFork).id}
      BY <2>3 DEF ForkServes
    <3>2. Head(toFork) = toFork[1] /\ 1 \in DOMAIN toFork
      BY <3>1, TailIs DEF TypeOK
    <3>3. \A j \in DOMAIN toFork' : j + 1 \in DOMAIN toFork /\ toFork'[j] = toFork[j + 1]
      BY <3>1, TailIs DEF TypeOK
    <3>4. CASE Have
      <4>1. Head(toFork) = current
        BY <3>2, <3>4 DEF Outstanding
      <4> QED BY <2>1, <3>1, <3>4, <4>1 DEF Printed, Have
    <3>5. CASE ~Have
      BY <2>1, <3>1, <3>2, <3>3, <3>5 DEF Printed, Have
    <3> QED BY <3>4, <3>5
  <2>4. CASE ~ForkServes
    <3>1. pipe' = pipe /\ toFork' \in {toFork, <<>>}
      BY <1>3, <2>4 DEF Fork, ForkRuns, ForkStops, DropLink, EmuExits
    <3> QED BY <2>1, <2>2, <3>1, PrintedAlone
  <2> QED BY <2>3, <2>4
<1>4. CASE UNCHANGED vars
  <2>1. UNCHANGED <<proc, pc, ready, current, tail, pipe, toFork, reentrant, late, spilled>>
    BY <1>4 DEF vars, hostVars, forkVars, boundVars
  <2> QED BY <2>1, PrintedAlone DEF Orderly, Closing, Expired, Running
<1> QED BY <1>1, <1>2, <1>3, <1>4, HostPrinted DEF Next

(* No reply arrives, and what is on stderr stays there.                     *)
LEMMA FlushedAlone ==
  ASSUME Flushed, Orderly' => Orderly, current' = current,
         tail \union pipe \subseteq tail' \union pipe',
         \A i \in DOMAIN toHost' : toHost'[i].type = "reply" =>
           \E j \in DOMAIN toHost : toHost[j] = toHost'[i]
  PROVE  Flushed'
BY DEF Flushed, Is, Captures

(* Nothing is in flight, or its reply has not come.                         *)
LEMMA FlushedNone ==
  ASSUME current' = NoCmd \/ \A i \in DOMAIN toHost' : toHost'[i].type # "reply"
  PROVE  Flushed'
BY NoCmdIsNone DEF Flushed, Is, Captures

LEMMA HostFlushed ==
  ASSUME TypeOK, Session, Reentry, Outstanding, Flushed, Host
  PROVE  Flushed'
<1> USE DEF Running, Have
<1>1. CASE Connect
  <2>1. PICK ok \in BOOLEAN : toHost' = <<Hello(ok), Status(machine = "stopped")>>
    BY <1>1 DEF Connect
  <2>2. \A i \in DOMAIN toHost' : toHost'[i].type # "reply"
    BY <2>1 DEF Hello, Status
  <2> QED BY <2>2, FlushedNone
<1>2. CASE HandshakeTimeout \/ RefuseHello \/ ProcessFinished \/ Disconnected \/ CommandTimeout
  BY <1>2, FlushedNone
  DEF HandshakeTimeout, RefuseHello, EndSession, ProcessFinished, Disconnected, CommandTimeout
<1>3. CASE AfterDisconnect
  <2>1. CASE EndSession
    BY <2>1, FlushedNone DEF EndSession
  <2>2. CASE ~EndSession
    <3>1. toHost' = toHost /\ toHost = <<>>
      BY <1>3, <2>2 DEF AfterDisconnect, Session, LinkShape, Closing
    <3> QED BY <3>1, FlushedNone
  <2> QED BY <2>1, <2>2
<1>4. CASE RecordOwed \/ DispatchNothing
  <2>1. UNCHANGED <<proc, ready, current, tail, pipe, toHost, reentrant>> /\ (late => late')
    BY <1>4 DEF RecordOwed, DispatchNothing, hostVars, forkVars, boundVars
  <2>2. Orderly' => Orderly
    <3>1. CASE RecordOwed
      BY <2>1, <3>1 DEF RecordOwed, Orderly, Closing, Expired
    <3>2. CASE DispatchNothing
      BY <2>1, <3>2, ReturnsAre DEF DispatchNothing, Orderly
    <3> QED BY <1>4, <3>1, <3>2
  <2> QED BY <2>1, <2>2, FlushedAlone
<1>5. CASE DispatchNext
  <2>1. toHost' = toHost
    BY <1>5 DEF DispatchNext
  <2>2. Orderly' => \A i \in DOMAIN toHost : toHost[i].type # "reply"
    BY <1>5, DispatchClear
  <2> QED BY <2>1, <2>2 DEF Flushed, Is
<1>6. CASE ReadHello \/ ReadStatus \/ SwallowReply
  <2>1. /\ pc = "loop" /\ pc' \in {"loop", "dispatch"}
        /\ toHost # <<>> /\ toHost' = Tail(toHost)
        /\ UNCHANGED <<proc, current, tail, pipe, reentrant, late>>
    BY <1>6 DEF ReadHello, ReadStatus, SwallowReply, TakeMessage, boundVars
  <2>2. \A i \in DOMAIN toHost' : i + 1 \in DOMAIN toHost /\ toHost'[i] = toHost[i + 1]
    BY <2>1, TailIs DEF TypeOK
  <2>3. Orderly' => Orderly
    BY <2>1 DEF Orderly, Closing, Expired
  <2> QED BY <2>1, <2>2, <2>3, FlushedAlone
<1>7. CASE CompleteCurrent
  <2>1. current' = NoCmd
    BY <1>7 DEF CompleteCurrent
  <2> QED BY <2>1, FlushedNone
<1>8. CASE ReadStderr
  <2>1. /\ tail' \union pipe' = tail \union pipe
        /\ UNCHANGED <<proc, pc, ready, current, toHost, reentrant, late>>
    BY <1>8 DEF ReadStderr, boundVars
  <2> QED BY <2>1, FlushedAlone DEF Orderly, Closing, Expired
<1> QED BY <1>1, <1>2, <1>3, <1>4, <1>5, <1>6, <1>7, <1>8 DEF Host

LEMMA FlushedStep ==
  ASSUME TypeOK, Session, Reentry, Outstanding, Flushed, [Next]_vars
  PROVE  Flushed'
<1>1. CASE Start \/ Stop
  BY <1>1, FlushedNone DEF Start, Stop, EndSession
<1>2. CASE User
  <2>1. RepliesAlone /\ UNCHANGED <<tail, pipe>>
    BY <1>2, UserReplies
  <2> QED BY <2>1, FlushedAlone DEF RepliesAlone, Orderly, Running
<1>3. CASE Fork
  <2>1. UNCHANGED <<proc, pc, ready, current, tail, reentrant, late>>
    BY <1>3 DEF Fork, ForkServes, ForkRuns, ForkStops, DropLink, EmuExits, hostVars, boundVars
  <2>2. Orderly' <=> Orderly
    BY <2>1 DEF Orderly, Closing, Expired, Running
  <2>3. CASE ForkServes
    <3> SUFFICES ASSUME Orderly, Captures(current)
                 PROVE  current.id \in pipe'
      BY <2>1, <2>2 DEF Flushed, Captures
    <3>1. toFork # <<>> /\ (Captures(Head(toFork)) => Head(toFork).id \in pipe')
      BY <2>3 DEF ForkServes
    <3>2. Have
      BY NoCmdIsNone DEF Have
    <3>3. Head(toFork) = current
      BY <3>1, <3>2, TailIs DEF Outstanding, TypeOK
    <3> QED BY <3>1, <3>3
  <2>4. CASE ForkRuns \/ ForkStops
    <3>1. PICK b \in BOOLEAN : Notify(b)
      BY <2>4 DEF ForkRuns, ForkStops
    <3>2. Status(b) \in Messages /\ Status(b).type = "status"
      BY MessagesAre DEF Status
    <3>3. \A i \in DOMAIN toHost' : toHost'[i].type = "reply" => toHost[i] = toHost'[i] /\ i \in DOMAIN toHost
      BY <3>1, <3>2, AppendIs DEF Notify, TypeOK
    <3>4. pipe' = pipe
      BY <2>4 DEF ForkRuns, ForkStops
    <3> QED BY <2>1, <2>2, <3>3, <3>4, FlushedAlone
  <2>5. CASE DropLink \/ EmuExits
    <3>1. toHost' \in {toHost, <<>>} /\ pipe' = pipe
      BY <2>5 DEF DropLink, EmuExits
    <3> QED BY <2>1, <2>2, <3>1, FlushedAlone
  <2> QED BY <1>3, <2>3, <2>4, <2>5 DEF Fork
<1>4. CASE UNCHANGED vars
  <2>1. UNCHANGED <<proc, pc, ready, current, tail, pipe, toHost, reentrant, late>>
    BY <1>4 DEF vars, hostVars, forkVars, boundVars
  <2> QED BY <2>1, FlushedAlone DEF Orderly, Closing, Expired, Running
<1> QED BY <1>1, <1>2, <1>3, <1>4, HostFlushed DEF Next

(* A command is completed by a reply of its own.                            *)
LEMMA AnswerIsOwnStep ==
  ASSUME TypeOK, Session, Outstanding, AnswerIsOwn, [Next]_vars
  PROVE  AnswerIsOwn'
<1> SUFFICES ASSUME ~reentrant'
             PROVE  answer'.reply = answer'.id
  BY DEF AnswerIsOwn
<1>1. CASE UNCHANGED <<reentrant, answer>>
  BY <1>1 DEF AnswerIsOwn
<1>2. CASE Start \/ Stop
  BY <1>2, <1>1 DEF Start, Stop, boundVars
<1>3. CASE User
  BY <1>3, <1>1, UserReplies DEF RepliesAlone
<1>4. CASE Fork
  BY <1>4, <1>1 DEF Fork, ForkServes, ForkRuns, ForkStops, DropLink, EmuExits, boundVars
<1>5. CASE Host
  <2>1. CASE ProcessFinished \/ Disconnected \/ CommandTimeout
    BY <1>1, <2>1 DEF ProcessFinished, Disconnected, CommandTimeout, FailInFlight, Answer, boundVars
  <2>2. CASE CompleteCurrent
    <3>1. /\ pc = "loop" /\ reentrant' = reentrant /\ toHost # <<>>
          /\ toHost' = Tail(toHost) /\ Head(toHost).type = "reply"
      BY <2>2 DEF CompleteCurrent, TakeMessage, boundVars
    <3>2. CASE Have
      <4>1. Orderly
        BY <3>1, <3>2 DEF Session, Greeted, Orderly, Closing
      <4>2. Head(toHost).id = current.id
        BY <3>1, <3>2, <4>1, ReplyIsTheOne
      <4> QED BY <2>2, <3>2, <4>2 DEF CompleteCurrent, Answer
    <3>3. CASE ~Have
      BY <1>1, <2>2, <3>1, <3>3 DEF CompleteCurrent
    <3> QED BY <3>2, <3>3
  <2>3. CASE ~(ProcessFinished \/ Disconnected \/ CommandTimeout \/ CompleteCurrent)
    <3>1. CASE Connect \/ HandshakeTimeout \/ AfterDisconnect \/ RecordOwed \/ DispatchNext
      BY <1>1, <3>1 DEF Connect, HandshakeTimeout, AfterDisconnect, RecordOwed, DispatchNext,
                        boundVars
    <3>2. CASE DispatchNothing \/ ReadHello \/ RefuseHello \/ ReadStatus
      BY <1>1, <3>2 DEF DispatchNothing, ReadHello, RefuseHello, ReadStatus, TakeMessage, boundVars
    <3>3. CASE SwallowReply \/ ReadStderr
      BY <1>1, <3>3 DEF SwallowReply, ReadStderr, TakeMessage, boundVars
    <3> QED BY <1>5, <2>3, <3>1, <3>2, <3>3 DEF Host
  <2> QED BY <2>1, <2>2, <2>3
<1>6. CASE UNCHANGED vars
  BY <1>6, <1>1 DEF vars, boundVars
<1> QED BY <1>2, <1>3, <1>4, <1>5, <1>6 DEF Next

-----------------------------------------------------------------------------
(* The stop view.                                                           *)

(* The last notification of a stream, and a stream with none.               *)
IsLast(q, i)   == /\ i \in DOMAIN q /\ q[i].type = "status"
                  /\ \A j \in DOMAIN q : j > i => q[j].type # "status"
NoStatus(q)    == \A i \in DOMAIN q : q[i].type # "status"

LEMMA ToldIs ==
  Told <=> (Running /\ link = "open" =>
              /\ \A i \in DOMAIN toHost : IsLast(toHost, i) => (toHost[i].flag <=> machine # "run")
              /\ NoStatus(toHost) => (stopped <=> machine # "run"))
BY DEF Told, IsLast, NoStatus, Is

LEMMA ToldOff ==
  ASSUME ~(Running' /\ link' = "open")
  PROVE  Told'
BY DEF Told

LEMMA ToldAlone ==
  ASSUME Told, (Running /\ link = "open")' => (Running /\ link = "open"),
         UNCHANGED <<stopped, toHost>>, (machine' = "run") <=> (machine = "run")
  PROVE  Told'
BY DEF Told, Is

(* The first message is read: the last notification, if it was not that     *)
(* one, stays the last.                                                     *)
LEMMA LastOfTail ==
  ASSUME NEW q \in Seq(Messages), q # <<>>
  PROVE  /\ \A i \in DOMAIN Tail(q) : IsLast(Tail(q), i) => IsLast(q, i + 1) /\ Tail(q)[i] = q[i + 1]
         /\ NoStatus(Tail(q)) /\ Head(q).type = "status" => IsLast(q, 1) /\ q[1] = Head(q)
         /\ NoStatus(Tail(q)) /\ Head(q).type # "status" => NoStatus(q)
<1>1. /\ DOMAIN q = 1 .. Len(q) /\ Len(q) \in Nat \ {0} /\ DOMAIN Tail(q) = 1 .. Len(q) - 1
      /\ \A i \in 1 .. Len(q) - 1 : Tail(q)[i] = q[i + 1]
      /\ Head(q) = q[1]
  BY TailIs
<1>2. ASSUME NEW j \in 1 .. Len(q), j > 1
      PROVE  j - 1 \in 1 .. Len(q) - 1 /\ q[j] = Tail(q)[j - 1]
  <2>1. j - 1 \in 1 .. Len(q) - 1 /\ (j - 1) + 1 = j
    BY <1>1, <1>2
  <2> QED BY <1>1, <2>1
<1>3. ASSUME NEW i \in DOMAIN Tail(q), IsLast(Tail(q), i)
      PROVE  IsLast(q, i + 1) /\ Tail(q)[i] = q[i + 1]
  <2>1. i \in 1 .. Len(q) - 1 /\ i + 1 \in 1 .. Len(q) /\ Tail(q)[i] = q[i + 1]
    BY <1>1
  <2>2. ASSUME NEW j \in 1 .. Len(q), j > i + 1
        PROVE  q[j].type # "status"
    <3>1. j > 1 /\ j - 1 > i
      BY <1>1, <2>1, <2>2
    <3> QED BY <1>1, <1>2, <1>3, <3>1 DEF IsLast
  <2> QED BY <1>1, <1>3, <2>1, <2>2 DEF IsLast
<1>4. ASSUME NoStatus(Tail(q))
      PROVE  \A j \in 1 .. Len(q) : j > 1 => q[j].type # "status"
  BY <1>1, <1>2, <1>4 DEF NoStatus
<1>5. NoStatus(Tail(q)) /\ Head(q).type = "status" => IsLast(q, 1) /\ q[1] = Head(q)
  BY <1>1, <1>4 DEF IsLast
<1>6. NoStatus(Tail(q)) /\ Head(q).type # "status" => NoStatus(q)
  <2> SUFFICES ASSUME NoStatus(Tail(q)), Head(q).type # "status", NEW j \in 1 .. Len(q)
               PROVE  q[j].type # "status"
    BY <1>1 DEF NoStatus
  <2>1. CASE j = 1
    BY <1>1, <2>1
  <2>2. CASE j # 1
    BY <1>1, <1>4, <2>2
  <2> QED BY <2>1, <2>2
<1> QED BY <1>3, <1>5, <1>6

(* A message arrives: a notification is the last, anything else leaves it.  *)
LEMMA LastOfAppend ==
  ASSUME NEW q \in Seq(Messages), NEW m \in Messages
  PROVE  /\ m.type = "status" => /\ \A i \in DOMAIN Append(q, m) : IsLast(Append(q, m), i) =>
                                      Append(q, m)[i] = m
                                 /\ ~NoStatus(Append(q, m))
         /\ m.type # "status" => /\ \A i \in DOMAIN Append(q, m) : IsLast(Append(q, m), i) =>
                                      i \in DOMAIN q /\ IsLast(q, i) /\ Append(q, m)[i] = q[i]
                                 /\ NoStatus(Append(q, m)) => NoStatus(q)
<1> DEFINE s == Append(q, m)
<1>1. /\ Len(q) \in Nat /\ DOMAIN q = 1 .. Len(q) /\ DOMAIN s = 1 .. Len(q) + 1
      /\ \A i \in 1 .. Len(q) : s[i] = q[i]
      /\ s[Len(q) + 1] = m
  BY AppendIs
<1> HIDE DEF s
<1>2. ASSUME m.type = "status"
      PROVE  (\A i \in DOMAIN s : IsLast(s, i) => s[i] = m) /\ ~NoStatus(s)
  <2>1. Len(q) + 1 \in DOMAIN s
    BY <1>1
  <2>2. ASSUME NEW i \in DOMAIN s, IsLast(s, i)
        PROVE  s[i] = m
    <3>1. ~(Len(q) + 1 > i)
      BY <1>1, <1>2, <2>1, <2>2 DEF IsLast
    <3>2. i = Len(q) + 1
      BY <1>1, <3>1
    <3> QED BY <1>1, <3>2
  <2> QED BY <1>1, <1>2, <2>1, <2>2 DEF NoStatus
<1>3. ASSUME m.type # "status"
      PROVE  /\ \A i \in DOMAIN s : IsLast(s, i) => i \in DOMAIN q /\ IsLast(q, i) /\ s[i] = q[i]
             /\ NoStatus(s) => NoStatus(q)
  <2>1. ASSUME NEW i \in DOMAIN s, IsLast(s, i)
        PROVE  i \in DOMAIN q /\ IsLast(q, i) /\ s[i] = q[i]
    <3>1. i \in 1 .. Len(q)
      <4>1. i # Len(q) + 1
        BY <1>1, <1>3, <2>1 DEF IsLast
      <4> QED BY <1>1, <4>1
    <3>2. \A j \in 1 .. Len(q) : j \in DOMAIN s /\ s[j] = q[j]
      BY <1>1
    <3> QED BY <1>1, <2>1, <3>1, <3>2 DEF IsLast
  <2>2. \A j \in DOMAIN q : j \in DOMAIN s /\ s[j] = q[j]
    BY <1>1
  <2> QED BY <2>1, <2>2 DEF NoStatus
<1> QED BY <1>2, <1>3 DEF s

LEMMA ToldStep ==
  ASSUME TypeOK, Session, Told, [Next]_vars
  PROVE  Told'
<1> USE DEF Running
<1>1. CASE Start \/ Stop
  <2>1. link' = "closed"
    BY <1>1 DEF Start, Stop, EndSession
  <2> QED BY <2>1, ToldOff
<1>2. CASE User
  <2>1. UNCHANGED <<proc, stopped, machine, link, toHost>>
    BY <1>2 DEF User, Enqueue, Refresh, Resume, StepOver, Pause, Accept, forkVars
  <2> QED BY <2>1, ToldAlone
<1>3. CASE Host
  <2>1. CASE Connect
    <3>1. /\ proc = "running" /\ ~ready /\ machine' = machine /\ machine # "leaving"
          /\ machine \in {"run", "stopped", "leaving"}
      BY <2>1 DEF Connect, Session, Ungreeted, TypeOK
    <3>2. PICK ok \in BOOLEAN : toHost' = <<Hello(ok), Status(machine = "stopped")>>
      BY <2>1 DEF Connect
    <3>3. /\ DOMAIN toHost' = 1 .. 2 /\ toHost'[1].type = "hello" /\ toHost'[2].type = "status"
          /\ toHost'[2].flag = (machine = "stopped")
      BY <3>2 DEF Hello, Status
    <3>4. \A i \in DOMAIN toHost' : IsLast(toHost', i) => i = 2
      BY <3>3 DEF IsLast
    <3>5. ~NoStatus(toHost')
      BY <3>3 DEF NoStatus
    <3>6. \A i \in DOMAIN toHost' : IsLast(toHost', i) => (toHost'[i].flag <=> machine' # "run")
      BY <3>1, <3>3, <3>4
    <3> QED BY <3>5, <3>6 DEF Told, IsLast, NoStatus, Is
  <2>2. CASE HandshakeTimeout \/ RefuseHello
    <3>1. link' = "closed"
      BY <2>2 DEF HandshakeTimeout, RefuseHello, EndSession
    <3> QED BY <3>1, ToldOff
  <2>3. CASE ProcessFinished
    BY <2>3, ToldOff DEF ProcessFinished
  <2>4. CASE Disconnected
    BY <2>4, ToldOff DEF Disconnected, forkVars
  <2>5. CASE AfterDisconnect
    <3>1. link' = "closed"
      BY <2>5 DEF AfterDisconnect, EndSession
    <3> QED BY <3>1, ToldOff
  <2>6. CASE RecordOwed \/ DispatchNext \/ DispatchNothing \/ ReadStderr \/ CommandTimeout
    <3>1. UNCHANGED <<proc, stopped, machine, link, toHost>>
      BY <2>6 DEF RecordOwed, DispatchNext, DispatchNothing, ReadStderr, CommandTimeout, hostVars,
                  forkVars
    <3> QED BY <3>1, ToldAlone
  <2>7. CASE ReadHello \/ SwallowReply \/ CompleteCurrent \/ ReadStatus
    <3> SUFFICES ASSUME proc' = "running", link' = "open"
                 PROVE  /\ \A i \in DOMAIN toHost' : IsLast(toHost', i) =>
                             (toHost'[i].flag <=> machine' # "run")
                        /\ NoStatus(toHost') => (stopped' <=> machine' # "run")
      BY DEF Told, IsLast, NoStatus, Is
    <3>1. /\ toHost # <<>> /\ toHost' = Tail(toHost)
          /\ UNCHANGED <<proc, machine, link>>
          /\ IF Head(toHost).type = "status" THEN stopped' = Head(toHost).flag
                                             ELSE stopped' = stopped
      BY <2>7 DEF ReadHello, SwallowReply, CompleteCurrent, ReadStatus, TakeMessage
    <3>2. /\ \A i \in DOMAIN toHost : IsLast(toHost, i) => (toHost[i].flag <=> machine # "run")
          /\ NoStatus(toHost) => (stopped <=> machine # "run")
      BY <3>1, ToldIs
    <3>3. \A i \in DOMAIN toHost' : i + 1 \in DOMAIN toHost
      BY <3>1, TailIs DEF TypeOK
    <3>4. toHost \in Seq(Messages) /\ 1 \in DOMAIN toHost
      BY <3>1, TailIs DEF TypeOK
    <3>5. \A i \in DOMAIN toHost' : IsLast(toHost', i) => (toHost'[i].flag <=> machine' # "run")
      BY <3>1, <3>2, <3>3, <3>4, LastOfTail
    <3>6. NoStatus(toHost') => (stopped' <=> machine' # "run")
      BY <3>1, <3>2, <3>4, LastOfTail
    <3> QED BY <3>5, <3>6
  <2> QED BY <1>3, <2>1, <2>2, <2>3, <2>4, <2>5, <2>6, <2>7 DEF Host
<1>4. CASE Fork
  <2>1. CASE DropLink \/ EmuExits
    <3>1. link' # "open"
      BY <2>1 DEF DropLink, EmuExits
    <3> QED BY <3>1, ToldOff
  <2>2. CASE ForkServes \/ ForkRuns \/ ForkStops
    <3> SUFFICES ASSUME proc' = "running", link' = "open"
                 PROVE  /\ \A i \in DOMAIN toHost' : IsLast(toHost', i) =>
                             (toHost'[i].flag <=> machine' # "run")
                        /\ NoStatus(toHost') => (stopped' <=> machine' # "run")
      BY DEF Told, IsLast, NoStatus, Is
    <3>1. UNCHANGED <<proc, link, stopped>>
      BY <2>2 DEF ForkServes, ForkRuns, ForkStops, hostVars
    <3>2. PICK m \in Messages :
            /\ toHost' = Append(toHost, m)
            /\ IF m.type = "status" THEN m.flag <=> machine' # "run"
                                    ELSE (machine' = "run") <=> (machine = "run")
      <4>1. CASE ForkServes
        <5>1. Head(toFork).id \in Nat
          BY <4>1, TailIs, RequestsAre DEF TypeOK, ForkServes
        <5>3. PICK ok \in BOOLEAN :
                /\ toHost' = Append(toHost, Reply(Head(toFork).id, ok))
                /\ (machine' = "run") <=> (machine = "run")
          BY <4>1 DEF ForkServes
        <5>2. /\ Reply(Head(toFork).id, ok) \in Messages
              /\ Reply(Head(toFork).id, ok).type # "status"
          BY <5>1, MessagesAre DEF Reply
        <5> QED BY <5>2, <5>3
      <4>2. CASE ForkRuns
        <5>1. Status(FALSE) \in Messages /\ Status(FALSE).type = "status" /\ ~Status(FALSE).flag
          BY MessagesAre DEF Status
        <5>2. toHost' = Append(toHost, Status(FALSE)) /\ machine' = "run"
          BY <3>1, <4>2 DEF ForkRuns, Notify
        <5> QED BY <5>1, <5>2
      <4>3. CASE ForkStops
        <5>1. Status(TRUE) \in Messages /\ Status(TRUE).type = "status" /\ Status(TRUE).flag
          BY MessagesAre DEF Status
        <5>2. toHost' = Append(toHost, Status(TRUE)) /\ machine' = "stopped"
          BY <3>1, <4>3 DEF ForkStops, Notify
        <5> QED BY <5>1, <5>2
      <4> QED BY <2>2, <4>1, <4>2, <4>3
    <3>3. toHost \in Seq(Messages)
      BY DEF TypeOK
    <3>4. CASE m.type = "status"
      <4>1. ~NoStatus(toHost') /\ \A i \in DOMAIN toHost' : IsLast(toHost', i) => toHost'[i] = m
        BY <3>2, <3>3, <3>4, LastOfAppend
      <4> QED BY <3>2, <3>4, <4>1
    <3>5. CASE m.type # "status"
      <4>1. /\ \A i \in DOMAIN toHost' : IsLast(toHost', i) =>
                 i \in DOMAIN toHost /\ IsLast(toHost, i) /\ toHost'[i] = toHost[i]
            /\ NoStatus(toHost') => NoStatus(toHost)
        BY <3>2, <3>3, <3>5, LastOfAppend
      <4>2. /\ \A i \in DOMAIN toHost : IsLast(toHost, i) => (toHost[i].flag <=> machine # "run")
            /\ NoStatus(toHost) => (stopped <=> machine # "run")
        BY <3>1, ToldIs
      <4> QED BY <3>1, <3>2, <3>5, <4>1, <4>2
    <3> QED BY <3>4, <3>5
  <2> QED BY <1>4, <2>1, <2>2 DEF Fork
<1>5. CASE UNCHANGED vars
  <2>1. UNCHANGED <<proc, stopped, machine, link, toHost>>
    BY <1>5 DEF vars, hostVars, forkVars
  <2> QED BY <2>1, ToldAlone
<1> QED BY <1>1, <1>2, <1>3, <1>4, <1>5 DEF Next

-----------------------------------------------------------------------------
(* What a run was queued behind.                                            *)

LEMMA RunsInMore ==
  ASSUME NEW q, NEW done, NEW more, RunsIn(q, done), done \subseteq more
  PROVE  RunsIn(q, more)
BY DEF RunsIn

LEMMA RunsInConcat ==
  ASSUME NEW q \in Seq(Requests), NEW reqs \in Seq(Requests), NEW done, RunsIn(q, done),
         \A k \in DOMAIN reqs : reqs[k].kind = "run" =>
           \A a \in reqs[k].after : \/ a \in done
                                    \/ \E j \in DOMAIN q : q[j].id = a
                                    \/ \E j \in 1 .. k - 1 : reqs[j].id = a
  PROVE  RunsIn(q \o reqs, done)
<1> DEFINE s == q \o reqs
<1>1. /\ Len(q) \in Nat /\ DOMAIN q = 1 .. Len(q)
      /\ Len(reqs) \in Nat /\ DOMAIN reqs = 1 .. Len(reqs)
      /\ DOMAIN s = 1 .. Len(q) + Len(reqs)
      /\ \A i \in 1 .. Len(q) : s[i] = q[i]
      /\ \A i \in 1 .. Len(reqs) : s[Len(q) + i] = reqs[i]
  BY ConcatIs
<1> HIDE DEF s
<1> SUFFICES ASSUME NEW i \in DOMAIN s, s[i].kind = "run", NEW a \in s[i].after, a \notin done
             PROVE  \E j \in 1 .. i - 1 : s[j].id = a
  BY DEF RunsIn, s
<1>2. CASE i \in 1 .. Len(q)
  <2>1. PICK j \in 1 .. i - 1 : q[j].id = a
    BY <1>1, <1>2 DEF RunsIn
  <2>2. s[j] = q[j]
    BY <1>1, <1>2, <2>1
  <2> QED BY <2>1, <2>2
<1>3. CASE i \notin 1 .. Len(q)
  <2> DEFINE k == i - Len(q)
  <2>1. k \in 1 .. Len(reqs) /\ i = Len(q) + k /\ i \in Nat
    BY <1>1, <1>3
  <2> HIDE DEF k
  <2>2. s[i] = reqs[k]
    BY <1>1, <2>1
  <2>3. CASE \E j \in DOMAIN q : q[j].id = a
    <3>1. PICK j \in DOMAIN q : q[j].id = a
      BY <2>3
    <3>2. j \in 1 .. i - 1 /\ s[j] = q[j]
      BY <1>1, <2>1
    <3> QED BY <3>1, <3>2
  <2>4. CASE \E j \in 1 .. k - 1 : reqs[j].id = a
    <3>1. PICK j \in 1 .. k - 1 : reqs[j].id = a
      BY <2>4
    <3>2. j \in 1 .. Len(reqs) /\ Len(q) + j \in 1 .. i - 1
      BY <1>1, <2>1
    <3>3. s[Len(q) + j] = reqs[j]
      BY <1>1, <3>2
    <3> QED BY <3>1, <3>2, <3>3
  <2> QED BY <1>1, <2>1, <2>2, <2>3, <2>4
<1> QED BY <1>2, <1>3

LEMMA RunsInAppend ==
  ASSUME NEW s \in Seq(Requests), NEW r \in Requests, NEW done, RunsIn(s, done),
         r.kind = "run" => \A a \in r.after : a \in done \/ \E j \in DOMAIN s : s[j].id = a
  PROVE  RunsIn(Append(s, r), done)
<1>1. /\ Len(s) \in Nat /\ DOMAIN s = 1 .. Len(s)
      /\ DOMAIN Append(s, r) = 1 .. Len(s) + 1
      /\ \A i \in 1 .. Len(s) : Append(s, r)[i] = s[i]
      /\ Append(s, r)[Len(s) + 1] = r
  BY AppendIs
<1> DEFINE t == Append(s, r)
<1> HIDE DEF t
<1>2. /\ DOMAIN t = 1 .. Len(s) + 1 /\ t[Len(s) + 1] = r
      /\ \A i \in 1 .. Len(s) : t[i] = s[i]
  BY <1>1 DEF t
<1> SUFFICES ASSUME NEW i \in DOMAIN t, t[i].kind = "run", NEW a \in t[i].after, a \notin done
             PROVE  \E j \in 1 .. i - 1 : t[j].id = a
  BY DEF RunsIn, t
<1>3. CASE i = Len(s) + 1
  <2>1. PICK j \in DOMAIN s : s[j].id = a
    BY <1>2, <1>3
  <2>2. j \in 1 .. i - 1 /\ t[j] = s[j]
    BY <1>1, <1>2, <1>3
  <2> QED BY <2>1, <2>2
<1>4. CASE i # Len(s) + 1
  <2>1. i \in 1 .. Len(s) /\ t[i] = s[i]
    BY <1>1, <1>2, <1>4
  <2>2. PICK j \in 1 .. i - 1 : s[j].id = a
    BY <1>1, <2>1 DEF RunsIn
  <2>3. t[j] = s[j]
    BY <1>2, <2>1, <2>2
  <2> QED BY <2>2, <2>3
<1> QED BY <1>3, <1>4

LEMMA RunsInTail ==
  ASSUME NEW s \in Seq(Requests), s # <<>>, NEW done, RunsIn(s, done)
  PROVE  /\ RunsIn(Tail(s), done \union {Head(s).id})
         /\ Head(s).kind = "run" => Head(s).after \subseteq done
<1>1. /\ Len(s) \in Nat \ {0} /\ DOMAIN s = 1 .. Len(s) /\ DOMAIN Tail(s) = 1 .. Len(s) - 1
      /\ \A i \in 1 .. Len(s) - 1 : Tail(s)[i] = s[i + 1]
      /\ Head(s) = s[1]
  BY TailIs
<1>2. Head(s).kind = "run" => Head(s).after \subseteq done
  BY <1>1 DEF RunsIn
<1>3. ASSUME NEW i \in DOMAIN Tail(s), Tail(s)[i].kind = "run", NEW a \in Tail(s)[i].after,
             a \notin done, a # Head(s).id
      PROVE  \E j \in 1 .. i - 1 : Tail(s)[j].id = a
  <2>1. i + 1 \in DOMAIN s /\ Tail(s)[i] = s[i + 1] /\ i \in Nat
    BY <1>1
  <2>2. PICK j \in 1 .. (i + 1) - 1 : s[j].id = a
    BY <1>3, <2>1 DEF RunsIn
  <2>3. j # 1
    BY <1>1, <1>3, <2>2
  <2>4. j - 1 \in 1 .. i - 1 /\ j - 1 \in 1 .. Len(s) - 1 /\ (j - 1) + 1 = j
    BY <1>1, <2>1, <2>2, <2>3
  <2>5. Tail(s)[j - 1] = s[j]
    BY <1>1, <2>4
  <2> QED BY <2>2, <2>4, <2>5
<1> QED BY <1>2, <1>3 DEF RunsIn

(* A request that stands behind no run is taken out.                        *)
LEMMA RunsInRemove ==
  ASSUME NEW s \in Seq(Requests), NEW i \in DOMAIN s, NEW done, RunsIn(s, done),
         \A j \in 1 .. i - 1 : s[j].kind # "run"
  PROVE  RunsIn(RemoveAt(s, i), done \union {s[i].id})
<1> DEFINE t == RemoveAt(s, i)
<1>1. /\ Len(s) \in Nat /\ DOMAIN s = 1 .. Len(s) /\ i \in 1 .. Len(s)
      /\ DOMAIN t = 1 .. Len(s) - 1
      /\ \A j \in 1 .. Len(s) - 1 : t[j] = IF j < i THEN s[j] ELSE s[j + 1]
  <2>1. t \in Seq(Requests) /\ Len(t) = Len(s) - 1
    BY RemoveAtIs
  <2> HIDE DEF t
  <2>2. DOMAIN t = 1 .. Len(s) - 1
    BY <2>1
  <2> QED BY <2>2, RemoveAtIs DEF t
<1> HIDE DEF t
<1> SUFFICES ASSUME NEW k \in DOMAIN t, t[k].kind = "run", NEW a \in t[k].after,
                    a \notin done, a # s[i].id
             PROVE  \E j \in 1 .. k - 1 : t[j].id = a
  BY DEF RunsIn, t
<1>2. k \in 1 .. Len(s) - 1 /\ ~(k < i) /\ t[k] = s[k + 1]
  <2>1. k \in 1 .. Len(s) - 1
    BY <1>1
  <2>2. ASSUME k < i
        PROVE  FALSE
    BY <1>1, <2>1, <2>2
  <2> QED BY <1>1, <2>1, <2>2
<1>3. k + 1 \in DOMAIN s
  BY <1>1, <1>2
<1>4. PICK j \in 1 .. (k + 1) - 1 : s[j].id = a
  BY <1>2, <1>3 DEF RunsIn
<1>5. j # i
  BY <1>4
<1>6. CASE j < i
  <2>1. j \in 1 .. k - 1 /\ j \in 1 .. Len(s) - 1
    BY <1>1, <1>2, <1>4, <1>6
  <2>2. t[j] = s[j]
    BY <1>1, <1>6, <2>1
  <2> QED BY <1>4, <2>1, <2>2
<1>7. CASE ~(j < i)
  <2>1. j - 1 \in 1 .. k - 1 /\ j - 1 \in 1 .. Len(s) - 1 /\ ~(j - 1 < i) /\ (j - 1) + 1 = j
    BY <1>1, <1>2, <1>4, <1>5, <1>7
  <2>2. t[j - 1] = s[j]
    BY <1>1, <2>1
  <2> QED BY <1>4, <2>1, <2>2
<1> QED BY <1>6, <1>7

LEMMA RunsBehindAlone ==
  ASSUME RunsBehind, (Running /\ link = "open")' => (Running /\ link = "open"),
         UNCHANGED <<queue, toFork, executed>>, current' \in {current, NoCmd}
  PROVE  RunsBehind'
BY DEF RunsBehind, Reached, Have

LEMMA RunsBehindOff ==
  ASSUME ~(Running' /\ link' = "open")
  PROVE  RunsBehind'
BY DEF RunsBehind

(* What a run is queued behind was in hand.                                 *)
LEMMA KeptWereInHand ==
  ASSUME TypeOK, RunsBehind, Running, link = "open", NEW a \in KeptIds(InHand(queue))
  PROVE  a \in Reached \/ \E j \in DOMAIN queue : queue[j].id = a /\ Keeps(queue[j])
<1>1. PICK r \in InHand(queue) : Keeps(r) /\ a = r.id
  BY DEF KeptIds
<1>2. CASE r = current
  <2>1. Have
    BY <1>1, <1>2, NoCmdIsNone DEF Have
  <2> QED BY <1>1, <1>2, <2>1 DEF RunsBehind
<1>3. CASE r \in Range(queue)
  BY <1>1, <1>3 DEF Range
<1> QED BY <1>2, <1>3 DEF InHand

LEMMA UserRunsBehind ==
  ASSUME TypeOK, RunsBehind, User
  PROVE  RunsBehind'
<1>0. /\ UNCHANGED <<proc, current, link, toFork, executed>>
      /\ proc = "running"
  BY DEF User, Enqueue, Refresh, Resume, StepOver, Pause, Accept, forkVars
<1> SUFFICES ASSUME Running, link = "open"
             PROVE  RunsIn(queue', Reached)
  BY <1>0 DEF RunsBehind, Running, Reached, Have
<1>1. /\ RunsIn(queue, Reached) /\ queue \in Seq(Requests)
  BY DEF RunsBehind, TypeOK
<1>2. ASSUME NEW kind \in Kinds, Enqueue(kind)
      PROVE  RunsIn(queue', Reached)
  <2> DEFINE reqs == <<Request(nextId, kind)>>
  <2>1. reqs \in Seq(Requests)
    BY RequestsAre DEF TypeOK
  <2>2. \A k \in DOMAIN reqs : reqs[k].kind # "run"
    BY DEF Request, Kinds
  <2>3. queue' = queue \o reqs
    BY <1>2 DEF Enqueue
  <2> HIDE DEF reqs
  <2> QED BY <1>1, <2>1, <2>2, <2>3, RunsInConcat
<1>3. CASE Refresh
  <2> DEFINE reqs == <<Request(nextId, "query"), Request(nextId + 1, "read")>>
  <2>1. reqs \in Seq(Requests)
    <3>1. nextId \in Nat /\ nextId + 1 \in Nat /\ {"query", "read"} \subseteq Kinds
      BY DEF TypeOK, Kinds
    <3> QED BY <3>1, RequestsAre
  <2>2. \A k \in DOMAIN reqs : reqs[k].kind # "run"
    BY DEF Request
  <2>3. queue' = queue \o reqs
    BY <1>3 DEF Refresh
  <2> HIDE DEF reqs
  <2> QED BY <1>1, <2>1, <2>2, <2>3, RunsInConcat
<1>4. CASE Pause
  <2> DEFINE reqs == <<Request(nextId, "break")>>
  <2>1. reqs \in Seq(Requests)
    BY RequestsAre DEF TypeOK
  <2>2. \A k \in DOMAIN reqs : reqs[k].kind # "run"
    BY DEF Request
  <2>3. queue' = queue \o reqs
    BY <1>4 DEF Pause
  <2> HIDE DEF reqs
  <2> QED BY <1>1, <2>1, <2>2, <2>3, RunsInConcat
<1>5. CASE Resume
  <2> DEFINE set == KeptIds(InHand(queue))
             reqs == <<RunRequest(nextId, set)>>
  <2>1. reqs \in Seq(Requests)
    BY RequestsAre, KeptIdsAre DEF TypeOK
  <2>2. DOMAIN reqs = {1} /\ reqs[1].after = set
    BY DEF RunRequest
  <2>3. queue' = Kept(queue) \o reqs
    BY <1>5 DEF Resume
  <2>4. /\ Kept(queue) \in Seq(Requests)
        /\ \A k \in DOMAIN Kept(queue) : Keeps(Kept(queue)[k])
    <3>1. Kept(queue) \in Seq({r \in Requests : Keeps(r)})
      BY <1>1, KeptIs
    <3>2. Kept(queue) \in Seq(Requests)
      BY <3>1, SeqMonotonic
    <3>3. \A k \in DOMAIN Kept(queue) : Kept(queue)[k] \in {r \in Requests : Keeps(r)}
      BY <3>1
    <3> QED BY <3>2, <3>3
  <2>5. RunsIn(Kept(queue), Reached)
    <3>1. \A k \in DOMAIN Kept(queue) : Kept(queue)[k].kind # "run"
      BY <2>4 DEF Keeps
    <3> QED BY <3>1 DEF RunsIn
  <2>6. ASSUME NEW a \in set
        PROVE  a \in Reached \/ \E j \in DOMAIN Kept(queue) : Kept(queue)[j].id = a
    <3>1. a \in Reached \/ \E j \in DOMAIN queue : queue[j].id = a /\ Keeps(queue[j])
      BY KeptWereInHand
    <3>2. ASSUME NEW j \in DOMAIN queue, queue[j].id = a, Keeps(queue[j])
          PROVE  \E k \in DOMAIN Kept(queue) : Kept(queue)[k].id = a
      <4>1. PICK k \in DOMAIN Kept(queue) : Kept(queue)[k] = queue[j]
        BY <1>1, <3>2, KeptIs
      <4> QED BY <3>2, <4>1
    <3> QED BY <3>1, <3>2
  <2> HIDE DEF reqs, set
  <2>7. \A k \in DOMAIN reqs : \A a \in reqs[k].after :
          a \in Reached \/ \E j \in DOMAIN Kept(queue) : Kept(queue)[j].id = a
    BY <2>2, <2>6
  <2> QED BY <2>1, <2>3, <2>4, <2>5, <2>7, RunsInConcat
<1>6. CASE StepOver
  <2> DEFINE set == KeptIds(InHand(queue)) \union {nextId}
             reqs == <<Request(nextId, "poke"), RunRequest(nextId + 1, set)>>
  <2>1. reqs \in Seq(Requests)
    <3>1. nextId \in Nat /\ nextId + 1 \in Nat /\ set \in SUBSET Nat /\ "poke" \in Kinds
      BY KeptIdsAre DEF TypeOK, Kinds
    <3> HIDE DEF set
    <3>2. Request(nextId, "poke") \in Requests /\ RunRequest(nextId + 1, set) \in Requests
      BY <3>1, RequestsAre
    <3> QED BY <3>2
  <2>2. /\ DOMAIN reqs = {1, 2} /\ reqs[1].kind # "run" /\ reqs[2].after = set
        /\ reqs[1].id = nextId
    BY DEF RunRequest, Request
  <2>3. queue' = queue \o reqs
    BY <1>6 DEF StepOver
  <2>4. ASSUME NEW a \in set
        PROVE  a \in Reached \/ (\E j \in DOMAIN queue : queue[j].id = a) \/ a = nextId
    BY KeptWereInHand
  <2> HIDE DEF reqs, set
  <2>5. ASSUME NEW k \in DOMAIN reqs, reqs[k].kind = "run", NEW a \in reqs[k].after
        PROVE  \/ a \in Reached
               \/ \E j \in DOMAIN queue : queue[j].id = a
               \/ \E j \in 1 .. k - 1 : reqs[j].id = a
    <3>1. k = 2 /\ a \in set /\ 1 \in 1 .. k - 1
      BY <2>2, <2>5
    <3> QED BY <2>2, <2>4, <3>1
  <2> QED BY <1>1, <2>1, <2>3, <2>5, RunsInConcat
<1> QED BY OfferedAssumption, <1>2, <1>3, <1>4, <1>5, <1>6 DEF User

LEMMA RunsBehindStep ==
  ASSUME TypeOK, Session, RunsBehind, [Next]_vars
  PROVE  RunsBehind'
<1> USE DEF Running
<1>1. CASE Start \/ Stop
  <2>1. link' = "closed"
    BY <1>1 DEF Start, Stop, EndSession
  <2> QED BY <2>1, RunsBehindOff
<1>2. CASE Host
  <2>1. CASE Connect
    <3>1. /\ proc = "running" /\ ~ready /\ current' = current /\ toFork' = <<>> /\ queue' = queue
      BY <2>1 DEF Connect, hostVars
    <3>2. current = NoCmd /\ \A i \in DOMAIN queue : queue[i].kind # "run"
      BY <3>1 DEF Session, Greeted, Ungreeted, Have
    <3> QED BY <3>1, <3>2 DEF RunsBehind, RunsIn, Have
  <2>2. CASE HandshakeTimeout \/ RefuseHello \/ AfterDisconnect
    <3>1. link' = "closed"
      BY <2>2 DEF HandshakeTimeout, RefuseHello, AfterDisconnect, EndSession
    <3> QED BY <3>1, RunsBehindOff
  <2>3. CASE ProcessFinished
    BY <2>3, RunsBehindOff DEF ProcessFinished
  <2>4. CASE Disconnected
    BY <2>4, RunsBehindOff DEF Disconnected, forkVars
  <2>5. CASE RecordOwed \/ DispatchNothing \/ CommandTimeout
    <3>1. UNCHANGED <<proc, link, queue, toFork, executed>> /\ current' \in {current, NoCmd}
      BY <2>5 DEF RecordOwed, DispatchNothing, CommandTimeout, hostVars, forkVars
    <3> QED BY <3>1, RunsBehindAlone
  <2>6. CASE ReadHello \/ ReadStatus \/ SwallowReply \/ CompleteCurrent \/ ReadStderr
    <3>1. UNCHANGED <<proc, link, queue, toFork, executed>> /\ current' \in {current, NoCmd}
      BY <2>6 DEF ReadHello, ReadStatus, SwallowReply, CompleteCurrent, ReadStderr
    <3> QED BY <3>1, RunsBehindAlone
  <2>7. CASE DispatchNext
    <3> SUFFICES ASSUME proc = "running", link = "open"
                 PROVE  /\ current'.id \in Reached'
                        /\ RunsIn(queue', Reached')
                        /\ RunsIn(toFork', executed')
      BY <2>7 DEF RunsBehind, DispatchNext
    <3>1. PICK i \in DOMAIN queue :
            /\ current' = queue[i] /\ queue' = RemoveAt(queue, i)
            /\ ~BehindRun(i) /\ MaySend(i)
      BY <2>7 DEF DispatchNext, Sendable
    <3>2. /\ toFork' = Append(toFork, queue[i]) /\ executed' = executed
          /\ queue[i] \in Requests /\ queue \in Seq(Requests) /\ toFork \in Seq(Requests)
      BY <2>7, <3>1 DEF DispatchNext, TypeOK
    <3>3. RunsIn(queue, Reached) /\ RunsIn(toFork, executed)
      BY DEF RunsBehind
    <3>4. Reached' = Reached \union {queue[i].id}
      <4>1. /\ Len(toFork) \in Nat /\ DOMAIN toFork = 1 .. Len(toFork)
            /\ DOMAIN toFork' = 1 .. Len(toFork) + 1
            /\ \A j \in 1 .. Len(toFork) : toFork'[j] = toFork[j]
            /\ toFork'[Len(toFork) + 1] = queue[i]
        BY <3>2, AppendIs
      <4>2. {toFork'[j].id : j \in DOMAIN toFork'}
              = {toFork[j].id : j \in DOMAIN toFork} \union {queue[i].id}
        <5>1. ASSUME NEW j \in DOMAIN toFork'
              PROVE  toFork'[j].id \in {toFork[k].id : k \in DOMAIN toFork} \union {queue[i].id}
          BY <4>1
        <5>2. ASSUME NEW j \in DOMAIN toFork
              PROVE  j \in DOMAIN toFork' /\ toFork'[j] = toFork[j]
          BY <4>1
        <5>3. Len(toFork) + 1 \in DOMAIN toFork'
          BY <4>1
        <5> QED BY <4>1, <5>1, <5>2, <5>3
      <4> QED BY <3>2, <4>2 DEF Reached
    <3>5. RunsIn(queue', Reached')
      BY <3>1, <3>2, <3>3, <3>4, RunsInRemove DEF BehindRun
    <3>6. ASSUME queue[i].kind = "run", NEW a \in queue[i].after
          PROVE  a \in executed \/ \E j \in DOMAIN toFork : toFork[j].id = a
      <4>1. i = 1
        BY <3>1, <3>6 DEF MaySend
      <4>2. a \in Reached
        BY <3>3, <3>6, <4>1 DEF RunsIn
      <4> QED BY <4>2 DEF Reached
    <3>7. RunsIn(toFork', executed')
      BY <3>2, <3>3, <3>6, RunsInAppend
    <3> QED BY <3>1, <3>4, <3>5, <3>7
  <2> QED BY <1>2, <2>1, <2>2, <2>3, <2>4, <2>5, <2>6, <2>7 DEF Host
<1>3. CASE Fork
  <2>1. CASE ForkServes
    <3>1. /\ toFork # <<>> /\ toFork' = Tail(toFork)
          /\ executed' = executed \union {Head(toFork).id}
          /\ UNCHANGED <<proc, link, queue, current>> /\ link = "open"
          /\ toFork \in Seq(Requests)
      BY <2>1 DEF ForkServes, hostVars, TypeOK
    <3>2. Reached \subseteq Reached'
      <4>1. /\ Len(toFork) \in Nat \ {0} /\ DOMAIN toFork = 1 .. Len(toFork)
            /\ DOMAIN toFork' = 1 .. Len(toFork) - 1
            /\ \A j \in 1 .. Len(toFork) - 1 : toFork'[j] = toFork[j + 1]
            /\ Head(toFork) = toFork[1]
        BY <3>1, TailIs
      <4>2. ASSUME NEW j \in DOMAIN toFork, j # 1
            PROVE  j - 1 \in DOMAIN toFork' /\ toFork'[j - 1] = toFork[j]
        <5>1. j - 1 \in 1 .. Len(toFork) - 1 /\ (j - 1) + 1 = j
          BY <4>1, <4>2
        <5> QED BY <4>1, <5>1
      <4>3. ASSUME NEW j \in DOMAIN toFork
            PROVE  toFork[j].id \in Reached'
        <5>1. CASE j = 1
          BY <3>1, <4>1, <5>1 DEF Reached
        <5>2. CASE j # 1
          BY <4>2, <5>2 DEF Reached
        <5> QED BY <5>1, <5>2
      <4> QED BY <3>1, <4>3 DEF Reached
    <3>3. proc = "running" => RunsIn(queue, Reached') /\ RunsIn(toFork', executed')
      BY <3>1, <3>2, RunsInMore, RunsInTail DEF RunsBehind
    <3> QED BY <3>1, <3>2, <3>3 DEF RunsBehind, Have
  <2>2. CASE ForkRuns \/ ForkStops
    <3>1. UNCHANGED <<proc, link, queue, current, toFork, executed>>
      BY <2>2 DEF ForkRuns, ForkStops, hostVars
    <3> QED BY <3>1, RunsBehindAlone
  <2>3. CASE DropLink \/ EmuExits
    <3>1. link' # "open"
      BY <2>3 DEF DropLink, EmuExits
    <3> QED BY <3>1, RunsBehindOff
  <2> QED BY <1>3, <2>1, <2>2, <2>3 DEF Fork
<1>4. CASE UNCHANGED vars
  <2>1. UNCHANGED <<proc, link, queue, current, toFork, executed>>
    BY <1>4 DEF vars, hostVars, forkVars
  <2> QED BY <2>1, RunsBehindAlone
<1> QED BY <1>1, <1>2, <1>3, <1>4, UserRunsBehind DEF Next

-----------------------------------------------------------------------------
(* The invariant, and what follows from it.                                 *)

LEMMA InitIInv ==
  ASSUME Init
  PROVE  IInv
<1>1. TypeOK
  BY TypeAtInit
<1>2. /\ proc = "none" /\ pc = "loop" /\ alive = FALSE /\ queue = <<>> /\ current = NoCmd
      /\ owed = FALSE /\ tail = {} /\ pipe = {} /\ answer.reply = answer.id
  BY DEF Init
<1>3. AliveRuns /\ Reentry /\ Session
  BY <1>2 DEF AliveRuns, Reentry, Session, Ended, Greeted, Ungreeted, OneGreeting, LinkShape,
              Running, Have, Closing, Expired
<1>4. Replies
  BY <1>2 DEF Replies, Outstanding, OwedIsLate, Printed, Flushed, AnswerIsOwn, Orderly, Running
<1>5. Told /\ RunsBehind
  BY <1>2 DEF Told, RunsBehind, Running
<1> QED BY <1>1, <1>3, <1>4, <1>5 DEF IInv

LEMMA IInvStep ==
  ASSUME IInv, [Next]_vars
  PROVE  IInv'
<1> USE DEF IInv, Replies
<1>1. TypeOK' /\ AliveRuns' /\ Reentry' /\ Session'
  BY TypeStep, AliveRunsStep, ReentryStep, SessionStep
<1>2. Outstanding' /\ OwedIsLate' /\ Printed' /\ Flushed' /\ AnswerIsOwn'
  BY OutstandingStep, OwedIsLateStep, PrintedStep, FlushedStep, AnswerIsOwnStep
<1>3. Told' /\ RunsBehind'
  BY ToldStep, RunsBehindStep
<1> QED BY <1>1, <1>2, <1>3

(* The inductive invariant holds in every state of every behaviour.         *)
THEOREM Invariance == Spec => []IInv
<1>1. Init => IInv
  BY InitIInv
<1>2. IInv /\ [Next]_vars => IInv'
  BY IInvStep
<1> QED BY <1>1, <1>2, PTL DEF Spec

(* A command is completed by its own reply, however late replies come, as   *)
(* long as no listener answers a failed command with a request.             *)
THEOREM AnswersAreOwn == Spec => []AnswerIsOwn
<1>1. IInv => AnswerIsOwn
  BY DEF IInv, Replies
<1> QED BY <1>1, Invariance, PTL

(* With the link up a reply is to come for exactly the command in flight    *)
(* or the one that is owed: one command is outstanding at a time, and what  *)
(* an owed reply holds back is released by it.                              *)
THEOREM OwedRepliesAreToCome == Spec => []OwedReplyIsToCome
<1>1. ASSUME IInv
      PROVE  OwedReplyIsToCome
  <2> DEFINE replies == {i \in DOMAIN toHost : toHost[i].type = "reply"}
             P(c) == IF c = "flight" THEN Have ELSE owed \/ pc = "expired"
             claims == {c \in {"flight", "owed"} : P(c)}
  <2> SUFFICES ASSUME ~reentrant, proc = "running", ready, link = "open"
               PROVE  Len(toFork) + Cardinality(replies) = Cardinality(claims)
    BY DEF OwedReplyIsToCome, RepliesToCome
  <2>1. Orderly /\ Outstanding
    BY <1>1 DEF IInv, Replies, Session, LinkShape, Orderly, Running
  <2>2. Expired <=> pc = "expired"
    BY <1>1 DEF IInv, Reentry, Expired
  <2>3. CASE ~Waiting
    <3>1. claims = {}
      BY <2>2, <2>3 DEF Waiting
    <3>2. toFork = <<>> /\ replies = {}
      BY <2>1, <2>3 DEF Outstanding, Is
    <3> HIDE DEF claims, replies
    <3> QED BY <3>1, <3>2, FS_EmptySet, EmptySeq
  <2>4. CASE Waiting
    <3>1. claims = {"flight"} \/ claims = {"owed"}
      BY <2>1, <2>2, <2>4 DEF Waiting, Outstanding
    <3>2. Cardinality(claims) = 1
      <4> HIDE DEF claims
      <4> QED BY <3>1, FS_Singleton
    <3>3. CASE toFork # <<>>
      <4>1. replies = {}
        BY <2>1, <3>3 DEF Outstanding, Is
      <4>2. Len(toFork) = 1
        <5>1. toFork \in Seq(Requests) /\ Len(toFork) <= 1
          BY <1>1, <2>1 DEF Outstanding, IInv, TypeOK
        <5>2. Len(toFork) \in Nat \ {0}
          BY <3>3, <5>1, EmptySeq
        <5> QED
          <6>1. Len(toFork) \in Nat /\ Len(toFork) # 0
            BY <5>2
          <6>2. \A n \in Nat : n <= 1 /\ n # 0 => n = 1
            OBVIOUS
          <6> QED BY <5>1, <6>1, <6>2
      <4> HIDE DEF claims, replies
      <4> QED BY <3>2, <4>1, <4>2, FS_EmptySet
    <3>4. CASE toFork = <<>>
      <4>1. PICK i \in DOMAIN toHost : toHost[i].type = "reply"
        BY <2>1, <2>4, <3>4 DEF Outstanding, Is
      <4>2. replies = {i}
        BY <2>1, <4>1 DEF Outstanding, Is
      <4>3. Len(toFork) = 0
        BY <3>4, EmptySeq
      <4> HIDE DEF claims, replies
      <4> QED BY <3>2, <4>2, <4>3, FS_Singleton
    <3> QED BY <3>3, <3>4
  <2> QED BY <2>3, <2>4
<1> QED BY <1>1, Invariance, PTL

(* Once everything sent has been read, isStopped() says whether the program *)
(* is stopped.                                                              *)
THEOREM StopViewsAreTrue == Spec => []StopViewIsTrue
<1>1. ASSUME IInv
      PROVE  StopViewIsTrue
  <2> SUFFICES ASSUME proc = "running", link = "open", toHost = <<>>, machine # "leaving"
               PROVE  stopped <=> machine = "stopped"
    BY DEF StopViewIsTrue, Quiet
  <2>1. stopped <=> machine # "run"
    BY <1>1 DEF IInv, Told, Running
  <2>2. machine \in {"run", "stopped", "leaving"}
    BY <1>1 DEF IInv, TypeOK
  <2> QED BY <2>1, <2>2
<1> QED BY <1>1, Invariance, PTL

(* While requests go out one at a time the answer of a console command has  *)
(* all that it printed, and of what others printed only what was unread     *)
(* when it went out, by commands whose answers did not read it.             *)
THEOREM AnswersAreExact == Spec => AnswerIsExactUnlessSpilled
<1>1. ASSUME IInv, [Next]_vars
      PROVE  /\ [answer' # answer /\ InStep
                   => answer'.lines \subseteq {answer'.id} \union spilled]_vars
             /\ [answer' # answer /\ InStep /\ Captures(current) /\ TakesOk
                   => answer'.id \in answer'.lines]_vars
  <2> SUFFICES ASSUME answer' # answer, InStep
               PROVE  /\ answer'.lines \subseteq {answer'.id} \union spilled
                      /\ Captures(current) /\ TakesOk => answer'.id \in answer'.lines
    OBVIOUS
  <2>1. CASE Start \/ Stop
    BY <2>1 DEF Start, Stop
  <2>2. CASE User
    BY <1>1, <2>2, UserReplies DEF IInv
  <2>3. CASE Fork
    BY <2>3 DEF Fork, ForkServes, ForkRuns, ForkStops, DropLink, EmuExits
  <2>4. CASE Host
    <3>1. CASE ProcessFinished \/ Disconnected \/ CommandTimeout
      <4>1. answer'.lines = {} /\ toHost' = toHost
        BY <3>1 DEF ProcessFinished, Disconnected, CommandTimeout, FailInFlight, Answer, forkVars
      <4>2. ~TakesOk
        <5>1. toHost \in Seq(Messages)
          BY <1>1 DEF IInv, TypeOK
        <5>2. toHost # <<>> => Tail(toHost) # toHost
          BY <5>1, TailIs
        <5> QED BY <4>1, <5>2 DEF TakesOk
      <4> QED BY <4>1, <4>2
    <3>2. CASE CompleteCurrent
      <4>1. /\ pc = "loop" /\ UNCHANGED <<late, reentrant>> /\ Have
            /\ toHost # <<>> /\ Head(toHost).type = "reply"
        BY <3>2 DEF CompleteCurrent, TakeMessage, boundVars
      <4>2. Orderly
        BY <1>1, <4>1 DEF IInv, Session, Greeted, Orderly, Closing, Expired, InStep
      <4>3. tail \union pipe \subseteq spilled \union {current.id}
        BY <1>1, <4>1, <4>2 DEF IInv, Replies, Printed
      <4>4. Captures(current) /\ Head(toHost).flag => current.id \in tail \union pipe
        <5>1. Head(toHost) = toHost[1] /\ 1 \in DOMAIN toHost
          BY <1>1, <4>1, TailIs DEF IInv, TypeOK
        <5> QED BY <1>1, <4>1, <4>2, <5>1 DEF IInv, Replies, Flushed, Is
      <4>5. TakesOk => Head(toHost).flag
        BY DEF TakesOk, Reply
      <4>6. CASE Captures(current) /\ Head(toHost).flag
        <5>1. answer'.id = current.id /\ answer'.lines = tail \union pipe
          BY <3>2, <4>1, <4>6 DEF CompleteCurrent, Answer
        <5> QED BY <4>3, <4>4, <4>6, <5>1
      <4>7. CASE ~(Captures(current) /\ Head(toHost).flag)
        <5>1. answer'.lines = {}
          BY <3>2, <4>1, <4>7 DEF CompleteCurrent, Answer
        <5> QED BY <4>5, <4>7, <5>1
      <4> QED BY <4>6, <4>7
    <3>3. CASE Connect \/ HandshakeTimeout \/ AfterDisconnect \/ RecordOwed \/ DispatchNext
      BY <3>3 DEF Connect, HandshakeTimeout, AfterDisconnect, RecordOwed, DispatchNext
    <3>4. CASE DispatchNothing \/ ReadHello \/ RefuseHello \/ ReadStatus
      BY <3>4 DEF DispatchNothing, ReadHello, RefuseHello, ReadStatus
    <3>5. CASE SwallowReply \/ ReadStderr
      BY <3>5 DEF SwallowReply, ReadStderr
    <3> QED BY <2>4, <3>1, <3>2, <3>3, <3>4, <3>5 DEF Host
  <2>5. CASE UNCHANGED vars
    BY <2>5 DEF vars
  <2> QED BY <1>1, <2>1, <2>2, <2>3, <2>4, <2>5 DEF Next
<1> QED BY <1>1, Invariance, PTL
        DEF Spec, AnswerIsExactUnlessSpilled, AnswerHasNoOthers, AnswerIsWhole

(* A command that went out is answered once, and nothing but the end of its *)
(* session takes it away unanswered.                                        *)
THEOREM CommandsAreAnswered == Spec => AnsweredOnce
<1>1. ASSUME IInv, [Next]_vars
      PROVE  [/\ answer' # answer => Have /\ answer'.id = current.id /\ current' = NoCmd
              /\ Have /\ current' # current => \/ answer'.id = current.id
                                               \/ proc' = "none" \/ Start]_vars
  <2> DEFINE Once == /\ answer' # answer => Have /\ answer'.id = current.id /\ current' = NoCmd
                     /\ Have /\ current' # current => \/ answer'.id = current.id
                                                      \/ proc' = "none" \/ Start
  <2> SUFFICES Once
    OBVIOUS
  <2>1. CASE Start
    BY <2>1 DEF Start
  <2>2. CASE Stop
    BY <2>2 DEF Stop, EndSession
  <2>3. CASE User
    <3>1. UNCHANGED <<answer, current>>
      BY <1>1, <2>3, UserReplies DEF IInv, RepliesAlone
    <3> QED BY <3>1
  <2>4. CASE Fork
    BY <2>4 DEF Fork, ForkServes, ForkRuns, ForkStops, DropLink, EmuExits, hostVars
  <2>5. CASE Host
    <3>1. CASE ProcessFinished \/ Disconnected \/ CommandTimeout
      BY <3>1 DEF ProcessFinished, Disconnected, CommandTimeout, FailInFlight, Answer
    <3>2. CASE CompleteCurrent
      <4>1. CASE Have
        <5>1. answer'.id = current.id /\ current' = NoCmd
          BY <3>2, <4>1 DEF CompleteCurrent, Answer
        <5> QED BY <4>1, <5>1
      <4>2. CASE ~Have
        BY <3>2, <4>2 DEF CompleteCurrent
      <4> QED BY <4>1, <4>2
    <3>3. CASE HandshakeTimeout \/ RefuseHello
      BY <3>3 DEF HandshakeTimeout, RefuseHello, EndSession
    <3>4. CASE AfterDisconnect
      BY <3>4 DEF AfterDisconnect, EndSession
    <3>5. CASE DispatchNext
      BY <3>5 DEF DispatchNext, MayDispatch
    <3>6. CASE Connect \/ RecordOwed \/ DispatchNothing
      BY <3>6 DEF Connect, RecordOwed, DispatchNothing, hostVars
    <3>7. CASE ReadHello \/ ReadStatus \/ SwallowReply \/ ReadStderr
      BY <3>7 DEF ReadHello, ReadStatus, SwallowReply, ReadStderr
    <3> QED BY <2>5, <3>1, <3>2, <3>3, <3>4, <3>5, <3>6, <3>7 DEF Host
  <2>6. CASE UNCHANGED vars
    BY <2>6 DEF vars, hostVars
  <2> QED BY <1>1, <2>1, <2>2, <2>3, <2>4, <2>5, <2>6 DEF Next
<1> QED BY <1>1, Invariance, PTL DEF Spec, AnsweredOnce

(* When the program leaves the break loop, the fork has executed every arm  *)
(* that was in hand when the run was asked for.                             *)
THEOREM RunsFollowTheirArms == Spec => ArmsPrecedeRun
<1>1. ASSUME IInv, [Next]_vars
      PROVE  [machine = "stopped" /\ machine' = "leaving"
                => Head(toFork).after \subseteq executed]_vars
  <2> SUFFICES ASSUME machine = "stopped", machine' = "leaving"
               PROVE  Head(toFork).after \subseteq executed
    OBVIOUS
  <2>1. CASE ForkServes
    <3>1. /\ alive /\ link = "open" /\ toFork # <<>> /\ Head(toFork).kind = "run"
      BY <2>1 DEF ForkServes
    <3>2. Running
      BY <1>1, <3>1 DEF IInv, AliveRuns
    <3>3. RunsIn(toFork, executed) /\ toFork \in Seq(Requests)
      BY <1>1, <3>1, <3>2 DEF IInv, RunsBehind, TypeOK
    <3> QED BY <3>1, <3>3, RunsInTail
  <2>2. CASE ~ForkServes
    <3>1. machine' \in {machine, "run", "stopped"}
      <4>1. CASE Start \/ Stop
        BY <4>1 DEF Start, Stop, EndSession
      <4>2. CASE User
        BY <4>2 DEF User, Enqueue, Refresh, Resume, StepOver, Pause, Accept, forkVars
      <4>3. CASE Fork
        BY <2>2, <4>3 DEF Fork, ForkRuns, ForkStops, DropLink, EmuExits
      <4>4. CASE Host
        <5>1. CASE HandshakeTimeout \/ RefuseHello \/ AfterDisconnect
          BY <5>1 DEF HandshakeTimeout, RefuseHello, AfterDisconnect, EndSession
        <5>2. CASE ProcessFinished \/ Disconnected \/ CommandTimeout \/ RecordOwed \/ DispatchNothing
          BY <5>2 DEF ProcessFinished, Disconnected, CommandTimeout, RecordOwed, DispatchNothing,
                      forkVars
        <5>3. CASE Connect \/ DispatchNext \/ ReadHello \/ ReadStatus
          BY <5>3 DEF Connect, DispatchNext, ReadHello, ReadStatus
        <5>4. CASE SwallowReply \/ CompleteCurrent \/ ReadStderr
          BY <5>4 DEF SwallowReply, CompleteCurrent, ReadStderr
        <5> QED BY <4>4, <5>1, <5>2, <5>3, <5>4 DEF Host
      <4>5. CASE UNCHANGED vars
        BY <4>5 DEF vars, forkVars
      <4> QED BY <1>1, <4>1, <4>2, <4>3, <4>4, <4>5 DEF Next
    <3> QED BY <3>1
  <2> QED BY <2>1, <2>2
<1> QED BY <1>1, Invariance, PTL DEF Spec, ArmsPrecedeRun

=============================================================================

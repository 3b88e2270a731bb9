---------------------------- MODULE CommandLane ----------------------------
(***************************************************************************)
(* What a debug transport promises the code above it, as functions on a    *)
(* record: requests wait in a queue, one is in flight at a time, none goes *)
(* out while the program runs, and a Continue drops the requests it does   *)
(* not keep and leaves once the kept ones have been answered.  Translated  *)
(* from src/src/emu/EmulatorHost.cpp with its framing abstracted away:     *)
(* NativeTransport shows how prompts and time-outs realise it.             *)
(***************************************************************************)
EXTENDS Naturals, Sequences, FiniteSets

NoCommand == [kind |-> "none", n |-> 0, emits |-> FALSE]

Command(kind, n) == [kind |-> kind, n |-> n, emits |-> FALSE]
StateRead(kind)  == [kind |-> kind, n |-> 0, emits |-> TRUE]   \* reports stateUpdated

(* Fault: a one-shot is dropped with the reads.                             *)
Keeps_NotOnce(c) ==
  c.kind \in {"clear", "arm", "watch", "coverage",
              "profileOn", "profileSave", "profileOff"}
(* Fault: a recording is dropped with the reads.                            *)
Keeps_NotCoverage(c) ==
  c.kind \in {"clear", "arm", "watch", "once",
              "profileOn", "profileSave", "profileOff"}

(* keepOnResume: arms, and the recordings that must be on before the        *)
(* program moves.                                                           *)
Keeps(c) ==
  c.kind \in {"clear", "arm", "watch", "once", "coverage",
              "profileOn", "profileSave", "profileOff",
              "traceOn", "traceSave", "traceOff"}

NewLane == [queue |-> <<>>, current |-> NoCommand, stopped |-> FALSE,
            continuing |-> FALSE,   \* m_continueWhenIdle
            entry |-> FALSE]        \* m_awaitingEntryPrompt

InFlight(l) == l.current # NoCommand

Enqueue(l, commands) == [l EXCEPT !.queue = @ \o commands]

MayResume(l) == l.stopped /\ ~l.continuing

(* What a Continue leaves of a queue, in its order: the n-th is the one at   *)
(* the place up to which n are kept.                                        *)
Kept(q) ==
  LET places == {i \in DOMAIN q : Keeps(q[i])}
      Place(n) == CHOOSE i \in places : Cardinality({j \in places : j <= i}) = n
  IN  [n \in 1..Cardinality(places) |-> q[Place(n)]]

Resume(l) ==
  IF MayResume(l)
  THEN [l EXCEPT !.queue = Kept(@), !.continuing = TRUE]
  ELSE l

(* dispatchNext() at the end of a handler: the head goes out, or the        *)
(* Continue does.                                                           *)
Dispatch(l) ==
  CASE InFlight(l) \/ l.entry \/ ~l.stopped -> l
    [] ~InFlight(l) /\ ~l.entry /\ l.stopped /\ l.queue # <<>> ->
         [l EXCEPT !.current = Head(l.queue), !.queue = Tail(@)]
    [] ~InFlight(l) /\ ~l.entry /\ l.stopped /\ l.queue = <<>> /\ l.continuing ->
         [l EXCEPT !.continuing = FALSE, !.stopped = FALSE]
    [] OTHER -> l
=============================================================================

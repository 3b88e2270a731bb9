-------------------------- MODULE RemoteControlInv --------------------------
(***************************************************************************)
(* The inductive invariant of RemoteControl.  It holds of the state        *)
(* between events and, with what a handler has in hand set apart, at every *)
(* point inside a handler: the connections it owes a reply (`owing`),      *)
(* whether m_busy is its own (`held`), and whether it is the script's turn *)
(* (`script`).                                                             *)
(***************************************************************************)
EXTENDS RemoteControl

FrameType ==
  [conns : [Clients -> Connections], ide : IdeType, dbg : DbgType, loops : Seq(Waits),
   hook : HookType, loose : SUBSET Nat]

(* Requests in the lane have names of their own, and those that a verb or   *)
(* the script has made are somebody's or nobody's any more.                 *)
LaneIsClaimed(lane, waits, given) ==
  /\ \A i, j \in DOMAIN lane : lane[i].id = lane[j].id => i = j
  /\ \A i \in DOMAIN lane : lane[i].tag = "state" => lane[i].key \in {"state", "reg"}
  /\ \A i \in DOMAIN lane : lane[i].by \in {"remote", "hook"} =>
       \/ lane[i].id \in given
       \/ \E j \in DOMAIN waits : waits[j].mine = lane[i].id /\ waits[j].kind = lane[i].by
  /\ \A x \in given : \E i \in DOMAIN lane : lane[i].id = x

(* What a loop has got is its own or was asked for twice.                   *)
AnswersAreOwn(waits) ==
  \A i \in DOMAIN waits : waits[i].got # NoAnswer => OwnOrRepeated(waits[i])

Has(waits, kind) == \E i \in DOMAIN waits : waits[i].kind = kind

AtMostOne(waits, kind) ==
  \A i, j \in DOMAIN waits : waits[i].kind = kind /\ waits[j].kind = kind => i = j

WaitsFor(waits, c) == \E i \in DOMAIN waits : waits[i].kind = "remote" /\ waits[i].conn = c

(* m_busy is the one operation that waits, and each reply that is owed is a *)
(* line's, a wait's or in hand.                                             *)
VerbsAreAccounted(busy, connections, waits, held, owing) ==
  /\ AtMostOne(waits, "remote")
  /\ busy <=> held \/ Has(waits, "remote")
  /\ held => ~Has(waits, "remote")
  /\ \A c \in Clients :
       connections[c].owed = Len(connections[c].posted) + (IF WaitsFor(waits, c) THEN 1 ELSE 0)
                               + (IF c \in owing THEN 1 ELSE 0)

(* m_running is the one script that waits, or was left set for good.        *)
ScriptIsAccounted(h, waits, script) ==
  /\ AtMostOne(waits, "hook")
  /\ h.running /\ ~h.lost <=> script \/ Has(waits, "hook")
  /\ script => ~Has(waits, "hook")
  /\ h.lost => h.running

(* Only a session stops, and only what is in flight holds a Continue back.  *)
SessionIsWhole(i, d) ==
  /\ d.stopped => d.live
  /\ d.going => d.stopped /\ d.lane # <<>>
  /\ ~d.live => d.lane = <<>>
  /\ i.seen <= d.stop

FrameOK(f, held, owing, script) ==
  /\ f \in FrameType
  /\ LaneIsClaimed(f.dbg.lane, f.loops, f.loose)
  /\ AnswersAreOwn(f.loops)
  /\ VerbsAreAccounted(f.ide.busy, f.conns, f.loops, held, owing)
  /\ ScriptIsAccounted(f.hook, f.loops, script)
  /\ SessionIsWhole(f.ide, f.dbg)

IInv == TypeOK /\ FrameOK(Frame, FALSE, {}, FALSE)
=============================================================================

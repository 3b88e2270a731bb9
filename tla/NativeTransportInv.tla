------------------------- MODULE NativeTransportInv -------------------------
(***************************************************************************)
(* The inductive invariant of NativeTransport for builds whose prompt is   *)
(* on stdout and whose command timeout does not fire in the settle period. *)
(* It says, for each thing the host may be waiting for, which prompts the  *)
(* debugger has still to produce: the accounting onPrompt() relies on.     *)
(***************************************************************************)
EXTENDS NativeTransport

(* Where the debugger and its pipes are.                                    *)
Idle    == emu = "prompt" /\ stdin = <<>> /\ prompts = 0
Sent(c) == emu = "prompt" /\ stdin = <<c>> /\ prompts = 0

(* One prompt is to come, or to be read, and then the debugger is idle.     *)
Busy ==
  \/ emu \in {"run", "print"} /\ stdin = <<>> /\ prompts = 0
  \/ emu = "prompt" /\ stdin = <<>> /\ prompts = 1

SomeCommand == stdin # <<>> /\ stdin[1] \in Commands

(* A Continue was written behind a prompt that had not been read.           *)
BusyThenContinue ==
  \/ emu = "prompt" /\ SomeCommand /\ stdin = <<stdin[1], Continue>> /\ prompts = 0
  \/ emu \in {"run", "print"} /\ stdin = <<Continue>> /\ prompts = 0
  \/ emu = "prompt" /\ stdin = <<Continue>> /\ prompts = 1
  \/ emu \in {"run", "print"} /\ stdin = <<>> /\ prompts = 1
  \/ emu = "prompt" /\ stdin = <<>> /\ prompts = 2

Running == Sent(Continue) \/ Busy

(* How much of current's response exists, read or unread.                   *)
Serving ==
  \/ Sent(current) /\ raw = {} /\ err = {}
  \/ /\ Busy /\ job = current.id
     /\ raw \union err =
          IF emu = "run" THEN {}
          ELSE IF emu = "print" THEN {Chunk(job, 1)} ELSE Response(job)

Waiting == Have \/ owed > 0 \/ awaiting

InFlight ==
  Have => /\ owed = 0 /\ ~awaiting /\ stopped
          /\ current \in Commands
          /\ settling => Idle /\ raw \union err = Response(current.id)
          /\ ~settling => Serving

Owed ==
  owed > 0 => /\ owed = 1 /\ ~Have /\ ~awaiting
              /\ stopped => Busy \/ (SomeCommand /\ Sent(stdin[1]))
              /\ ~stopped => BusyThenContinue

Entering ==
  awaiting => /\ stopped => Busy /\ emu # "run"
              /\ ~stopped => BusyThenContinue

AtRest == ~Waiting => IF stopped THEN Idle ELSE Running

Banner ==
  /\ banner # "read" => ~Waiting
  /\ banner = "unprinted" => ~stopped /\ emu = "run" /\ stdin = <<>> /\ prompts = 0
  /\ banner = "pipe" => IF stopped THEN pc = "drain"
                        ELSE Busy /\ emu # "run"

(* Nothing unread is left when the next command may be written.             *)
Drained ==
  pc = "dispatch" /\ ~Waiting /\ stopped => err = {} /\ banner = "read"

Accounting ==
  /\ settling => Have
  /\ cwi => stopped
  /\ InFlight /\ Owed /\ Entering /\ AtRest /\ Banner /\ Drained

IInv ==
  /\ TypeOK
  /\ pc \in {"loop", "drain", "dispatch"}
  /\ AnswerIsExact
  /\ IF proc = "running" THEN Accounting ELSE ~Have

(* Hatari lives in a session.                                               *)
AliveRuns == alive => proc = "running"

(* An arm that was in hand at the last resume() has been executed, waits on *)
(* stdin ahead of the Continue, or is queued while the Continue waits.      *)
Pending(a) == SomeCommand /\ Keeps(stdin[1]) /\ stdin[1].id = a
ArmsAreAhead ==
  proc = "running" =>
    /\ Have /\ Keeps(current) => current.id \in executed \/ Pending(current.id)
    /\ \A a \in due : \/ a \in executed \/ Pending(a)
                      \/ cwi /\ \E c \in queue : Keeps(c) /\ c.id = a
=============================================================================
